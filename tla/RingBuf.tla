------------------------------ MODULE RingBuf ------------------------------
(***************************************************************************)
(* The ring buffer of kernel/util/ringbuf.c as a data module: a block of   *)
(* CAP slots, `start` the index of the first byte and `end` the index      *)
(* after the last one.  Both indices range over 0..CAP: a copy that stops  *)
(* at the end of the block leaves its index AT CAP and the next one wraps. *)
(* The operators take the fields as arguments, so that a module can read   *)
(* a stale `end` next to a fresh one.                                      *)
(***************************************************************************)
EXTENDS Integers, Sequences

CONSTANT CAP    \* cap, the size of the block behind `buffer`

ASSUME CapAssumption == CAP \in Nat \ {0}

Slots   == 0 .. CAP - 1
Indices == 0 .. CAP

Least(a, b) == IF a <= b THEN a ELSE b

ringbuf_len(s, e) == IF e >= s THEN e - s ELSE CAP - (s - e)

\* mutant: `end` may run onto the oldest byte
SpaceOffByOne(s, e) == IF e >= s THEN CAP - (e - s) + 1 ELSE s - e

ringbuf_space(s, e) == IF e >= s THEN CAP - (e - s) ELSE s - e

(* How far a copy can run before it has to wrap: upper_limit.              *)
PutLimit(s, e)  == IF e >= s THEN CAP ELSE s
TakeLimit(s, e) == IF e > s THEN e ELSE CAP

(* ringbuf_put after its space check, for the bytes `data`: the first part *)
(* goes behind `end`, the rest to the front of the block.                  *)
PutBuffer(b, s, e, data) ==
    LET n == Least(PutLimit(s, e) - e, Len(data))
    IN  [i \in Slots |-> CASE i >= e /\ i < e + n   -> data[i - e + 1]
                           [] i < Len(data) - n     -> data[n + i + 1]
                           [] OTHER                 -> b[i]]

\* mutant: no wrap to the front of the block
PutEndNoWrap(s, e, len) == e + len

PutEnd(s, e, len) ==
    LET n == Least(PutLimit(s, e) - e, len)
    IN  IF len > n THEN len - n ELSE e + n

(* ringbuf_peek and ringbuf_take after their length check.                 *)
ReadBytes(b, s, e, len) ==
    LET n == Least(TakeLimit(s, e) - s, len)
    IN  [i \in 1 .. len |-> IF i <= n THEN b[s + i - 1] ELSE b[i - n - 1]]

TakeStart(s, e, len) ==
    LET n == Least(TakeLimit(s, e) - s, len)
    IN  IF len > n THEN len - n ELSE s + n

(* Everything the block holds, oldest byte first.                          *)
Contents(b, s, e) == ReadBytes(b, s, e, ringbuf_len(s, e))
=============================================================================
