------------------------------ MODULE KeyQueue ------------------------------
(***************************************************************************)
(* What the keyboard promises to the one program that reads it: a queue of *)
(* at most CAP key presses, read one at a time.  The press that makes the  *)
(* queue full may make the driver lose its place (`lapped`); from then on  *)
(* nothing is promised.                                                    *)
(***************************************************************************)
EXTENDS Naturals, Sequences

CONSTANTS CAP, Key

VARIABLES queue,    \* presses not yet read, oldest first
          hand,     \* the press the reader has in hand, as a sequence of at most one
          lapped

vars == <<queue, hand, lapped>>

Init == queue = <<>> /\ hand = <<>> /\ ~lapped

Press(k) == /\ ~lapped /\ Len(queue) < CAP
            /\ queue' = Append(queue, k)
            /\ UNCHANGED <<hand, lapped>>

Lap == /\ ~lapped /\ Len(queue) = CAP - 1
       /\ lapped'

Take == /\ ~lapped /\ hand = <<>> /\ queue # <<>>
        /\ hand' = <<Head(queue)>>
        /\ queue' = Tail(queue)
        /\ UNCHANGED lapped

Return == /\ ~lapped /\ hand # <<>>
          /\ hand' = <<>>
          /\ UNCHANGED <<queue, lapped>>

Lost == lapped /\ lapped'

Next == (\E k \in Key : Press(k)) \/ Lap \/ Take \/ Return \/ Lost

Spec == Init /\ [][Next]_vars
=============================================================================
