--------------------------- MODULE KeyboardProofs ---------------------------
(***************************************************************************)
(* Proofs about Keyboard for every capacity, every layout and any number   *)
(* of key presses.  The inductive invariant says where each unread press   *)
(* is: as long as the buffer has not been lapped, slot i of the content    *)
(* holds press number sent - len + i + 1, and kbd_getc holds the press     *)
(* after the one returned last.                                            *)
(***************************************************************************)
EXTENDS Keyboard, TLAPS

\* the slot of the i-th unread byte
SlotOf(s, i) == IF s + i < CAP THEN s + i ELSE s + i - CAP

Unread == ringbuf_len(start, end)

ContentInv ==
    ~lapped => \A i \in 0 .. Unread - 1 :
                  /\ buffer[SlotOf(start, i)] # KEY_NULL
                  /\ stamp[SlotOf(start, i)] = sent - Unread + i + 1

TakeInv ==
    /\ pc \in {"copy", "advance", "wrapcopy", "wrapadvance"} /\ ~lapped => Unread >= 1
    /\ pc = "advance" => start < CAP
    /\ pc \in {"wrapcopy", "wrapadvance"} => start = CAP
    /\ pc \in {"advance", "wrapadvance"} /\ ~lapped =>
          ch # KEY_NULL /\ chStamp = returned + 1
    /\ pc = "test" /\ ~lapped /\ ch # KEY_NULL => chStamp = returned + 1

IInv == TypeOK /\ KeysAccountedFor /\ ContentInv /\ TakeInv

-----------------------------------------------------------------------------
(* Facts about ringbuf_put and ringbuf_take for one byte.                  *)

(* ringbuf_len never exceeds the capacity and complements ringbuf_space.   *)
LEMMA LenAndSpace ==
    ASSUME NEW s \in Indices, NEW e \in Indices
    PROVE  /\ ringbuf_len(s, e) \in 0 .. CAP
           /\ ringbuf_space(s, e) = CAP - ringbuf_len(s, e)
BY CapAssumption DEF Indices, ringbuf_len, ringbuf_space

(* Unless it laps the reader, a put of one byte into a block with space    *)
(* stores it in the slot behind the content, changes no other slot, and    *)
(* makes the content one byte longer.                                      *)
LEMMA PutOne ==
    ASSUME NEW s \in Indices, NEW e \in Indices, NEW x, NEW b,
           ringbuf_space(s, e) >= 1
    PROVE  LET len == ringbuf_len(s, e)
               e2  == PutEnd(s, e, 1)
           IN  /\ e2 \in Indices
               /\ SlotOf(s, len) \in Slots
               /\ PutBuffer(b, s, e, <<x>>) =
                     [i \in Slots |-> IF i = SlotOf(s, len) THEN x ELSE b[i]]
               /\ ~(len = CAP - 1 /\ s # 0) => ringbuf_len(s, e2) = len + 1
<1> DEFINE n == Least(PutLimit(s, e) - e, 1)
           len == ringbuf_len(s, e)
<1>0. Len(<<x>>) = 1 /\ <<x>>[1] = x
  OBVIOUS
<1>1. n = IF e < CAP THEN 1 ELSE 0
  BY CapAssumption DEF Indices, ringbuf_space, Least, PutLimit
<1>2. SlotOf(s, len) = IF e < CAP THEN e ELSE 0
  BY CapAssumption DEF Indices, ringbuf_len, ringbuf_space, SlotOf
<1>3. PutEnd(s, e, 1) = IF e < CAP THEN e + 1 ELSE 1
  BY <1>1, CapAssumption DEF Indices, PutEnd
<1>4. PutBuffer(b, s, e, <<x>>) =
         [i \in Slots |-> IF i = SlotOf(s, len) THEN x ELSE b[i]]
  <2>1. PutBuffer(b, s, e, <<x>>) =
           [i \in Slots |-> CASE i >= e /\ i < e + n -> <<x>>[i - e + 1]
                              [] i < 1 - n           -> <<x>>[n + i + 1]
                              [] OTHER               -> b[i]]
    BY <1>0 DEF PutBuffer
  <2>2. ASSUME NEW i \in Slots
        PROVE  (CASE i >= e /\ i < e + n -> <<x>>[i - e + 1]
                  [] i < 1 - n           -> <<x>>[n + i + 1]
                  [] OTHER               -> b[i])
               = IF i = SlotOf(s, len) THEN x ELSE b[i]
    <3> HIDE DEF n
    <3>1. CASE e < CAP
      BY <1>0, <1>1, <1>2, <3>1, CapAssumption DEF Slots, Indices
    <3>2. CASE e = CAP
      BY <1>0, <1>1, <1>2, <3>2, CapAssumption DEF Slots, Indices
    <3> QED BY <3>1, <3>2, CapAssumption DEF Indices
  <2> QED BY <2>1, <2>2
<1> QED BY <1>2, <1>3, <1>4, CapAssumption DEF Indices, Slots, ringbuf_len, ringbuf_space

(* ringbuf_take copies one byte without wrapping unless `start` is at the  *)
(* end of the block, whichever load of `end` it works with.                *)
LEMMA TakeOne ==
    ASSUME NEW e \in Indices, start \in Indices
    PROVE  BytesToRead(e) = IF start < CAP THEN 1 ELSE 0
BY CapAssumption DEF BytesToRead, TakeLimit, Least, Indices

-----------------------------------------------------------------------------

LEMMA InitIInv == Init => IInv
<1> SUFFICES ASSUME Init PROVE IInv
  OBVIOUS
<1>1. TypeOK
  <2>1. buffer \in [Slots -> Byte] /\ stamp \in [Slots -> Nat]
    BY KeyboardAssumption DEF Init
  <2>2. /\ {start, end, endSeen} \subseteq Indices
        /\ {sent, returned, chStamp} \subseteq Nat
        /\ ch \in Byte
    BY CapAssumption DEF Init, Byte, KEY_NULL, Indices
  <2>3. keys \in [Codes -> BOOLEAN] /\ chars \in SUBSET (0 .. 127)
    BY DEF Init
  <2>4. shift \in BOOLEAN /\ lapped \in BOOLEAN /\ pc \in Locations
    BY DEF Init, Locations
  <2> QED BY <2>1, <2>2, <2>3, <2>4 DEF TypeOK
<1>2. Unread = 0
  BY DEF Init, Unread, ringbuf_len
<1>3. KeysAccountedFor /\ ContentInv /\ TakeInv
  BY <1>2 DEF Init, KeysAccountedFor, ContentInv, TakeInv, InHand, Unread
<1> QED BY <1>1, <1>3 DEF IInv

(* ringbuf_put on a non-null key keeps the content and the accounts right, *)
(* whatever the interrupted kernel was doing.                              *)
LEMMA PutKeyIInv ==
    ASSUME IInv, NEW c \in Byte, c # KEY_NULL, PutKey(c), Wake,
           UNCHANGED takeVars,
           shift' \in BOOLEAN, keys' \in [Codes -> BOOLEAN], chars' \in SUBSET (0 .. 127)
    PROVE  IInv'
<1> USE DEF IInv, takeVars
<1>0. start \in Indices /\ end \in Indices
  BY DEF TypeOK
<1>1. CASE ringbuf_space(start, end) < 1
  <2>1. UNCHANGED ringVars
    BY <1>1 DEF PutKey
  <2>2. TypeOK'
    BY <2>1 DEF TypeOK, Wake, ringVars, Locations
  <2>3. KeysAccountedFor' /\ ContentInv' /\ TakeInv'
    BY <2>1 DEF KeysAccountedFor, ContentInv, TakeInv, Wake, InHand, Unread, ringVars
  <2> QED BY <2>2, <2>3
<1>2. CASE ~(ringbuf_space(start, end) < 1)
  <2> DEFINE slot == SlotOf(start, Unread)
  <2>0. ringbuf_space(start, end) >= 1 /\ Unread \in 0 .. CAP - 1
    BY <1>0, <1>2, LenAndSpace, CapAssumption DEF Unread
  <2>1. /\ end' = PutEnd(start, end, 1)
        /\ sent' = sent + 1
        /\ buffer' = [i \in Slots |-> IF i = slot THEN c ELSE buffer[i]]
        /\ stamp' = [i \in Slots |-> IF i = slot THEN sent + 1 ELSE stamp[i]]
        /\ lapped' = (lapped \/ (Unread = CAP - 1 /\ start # 0))
    <3>1. /\ buffer' = PutBuffer(buffer, start, end, <<c>>)
          /\ stamp' = PutBuffer(stamp, start, end, <<sent + 1>>)
          /\ end' = PutEnd(start, end, 1)
          /\ sent' = sent + 1
          /\ lapped' = (lapped \/ (Unread = CAP - 1 /\ start # 0))
      BY <1>2 DEF PutKey, Unread
    <3>2. PutBuffer(buffer, start, end, <<c>>) =
             [i \in Slots |-> IF i = slot THEN c ELSE buffer[i]]
      BY <1>0, <2>0, PutOne DEF Unread
    <3>3. PutBuffer(stamp, start, end, <<sent + 1>>) =
             [i \in Slots |-> IF i = slot THEN sent + 1 ELSE stamp[i]]
      BY <1>0, <2>0, PutOne DEF Unread
    <3> QED BY <3>1, <3>2, <3>3
  <2>2. end' \in Indices /\ slot \in Slots
    BY <1>0, <2>0, <2>1, PutOne DEF Unread
  <2>3. ~lapped' => ~lapped /\ Unread' = Unread + 1
    BY <1>0, <2>0, <2>1, PutOne DEF Unread, TypeOK
  <2>4. TypeOK'
    BY <2>1, <2>2 DEF TypeOK, Wake, Locations
  <2>5. KeysAccountedFor'
    BY <2>0, <2>1, <2>3 DEF KeysAccountedFor, InHand, Wake, Unread, TypeOK
  <2>6. ContentInv'
    <3> SUFFICES ASSUME ~lapped', NEW i \in 0 .. Unread' - 1
                 PROVE  /\ buffer'[SlotOf(start, i)] # KEY_NULL
                        /\ stamp'[SlotOf(start, i)] = sent' - Unread' + i + 1
      BY DEF ContentInv
    <3>1. ~lapped /\ Unread' = Unread + 1 /\ i \in 0 .. Unread
      BY <2>0, <2>3
    <3>2. SlotOf(start, i) \in Slots
      BY <1>0, <2>0, <3>1, CapAssumption DEF SlotOf, Slots, Indices
    <3>3. CASE i = Unread
      BY <2>0, <2>1, <2>2, <3>1, <3>3 DEF TypeOK
    <3>4. CASE i # Unread
      <4>1. i \in 0 .. Unread - 1 /\ SlotOf(start, i) # slot
        BY <1>0, <2>0, <3>1, <3>4, CapAssumption DEF SlotOf, Indices
      <4>2. /\ buffer[SlotOf(start, i)] # KEY_NULL
            /\ stamp[SlotOf(start, i)] = sent - Unread + i + 1
        BY <3>1, <4>1 DEF ContentInv
      <4> QED BY <2>0, <2>1, <3>1, <3>2, <4>1, <4>2 DEF TypeOK
    <3> QED BY <3>3, <3>4
  <2>7. TakeInv'
    BY <2>0, <2>1, <2>3 DEF TakeInv, Wake
  <2> QED BY <2>4, <2>5, <2>6, <2>7
<1> QED BY <1>1, <1>2, <1>0, LenAndSpace, CapAssumption

(* What is queued for a key with a character is a byte and not KEY_NULL.   *)
LEMMA KeyByteIs ==
    ASSUME shift \in BOOLEAN, NEW code \in Codes, NEW pressed \in BOOLEAN,
           keyboard_us[ShiftAfter(code, pressed)][code] # KEY_NULL
    PROVE  KeyByte(ShiftAfter(code, pressed), code) \in Byte \ {KEY_NULL}
<1> DEFINE keyChar == keyboard_us[ShiftAfter(code, pressed)][code]
<1>1. keyChar \in Byte
  BY KeyboardAssumption DEF ShiftAfter
<1>2. KeyByte(ShiftAfter(code, pressed), code) =
         IF code = keyChar /\ keyChar < 128 THEN keyChar + 128 ELSE keyChar
  BY DEF KeyByte
<1> HIDE DEF keyChar
<1> QED BY <1>1, <1>2 DEF Byte, KEY_NULL, keyChar

(* The handler keeps the invariant for every scan code.                    *)
LEMMA HandlerIInv ==
    ASSUME IInv, NEW code \in Codes, NEW pressed \in BOOLEAN, kbdhandler(code, pressed)
    PROVE  IInv'
<1> DEFINE keyChar == keyboard_us[ShiftAfter(code, pressed)][code]
           queued  == KeyByte(ShiftAfter(code, pressed), code)
<1>1. shift' \in BOOLEAN /\ keyChar \in Byte
  BY KeyboardAssumption DEF kbdhandler, ShiftAfter, IInv, TypeOK
<1>2. keys' \in [Codes -> BOOLEAN] /\ chars' \in SUBSET (0 .. 127)
  BY DEF kbdhandler, IInv, TypeOK
<1>3. CASE pressed /\ keyChar # KEY_NULL
  <2>1. queued \in Byte /\ queued # KEY_NULL
    BY <1>3, KeyByteIs DEF IInv, TypeOK
  <2>2. PutKey(queued) /\ Wake /\ UNCHANGED takeVars
    BY <1>3 DEF kbdhandler
  <2> HIDE DEF queued
  <2> QED BY <1>1, <1>2, <2>1, <2>2, PutKeyIInv
<1>4. CASE ~(pressed /\ keyChar # KEY_NULL)
  <2>1. UNCHANGED ringVars /\ UNCHANGED takeVars /\ Wake
    BY <1>4 DEF kbdhandler
  <2>2. TypeOK'
    BY <1>1, <1>2, <2>1 DEF IInv, TypeOK, Wake, ringVars, takeVars, Locations
  <2>3. KeysAccountedFor' /\ ContentInv' /\ TakeInv'
    BY <2>1 DEF IInv, KeysAccountedFor, ContentInv, TakeInv, Wake, InHand, Unread,
                ringVars, takeVars
  <2> QED BY <2>2, <2>3 DEF IInv
<1> QED BY <1>3, <1>4

-----------------------------------------------------------------------------

(* Each step of kbd_getc_blocking keeps the invariant; ContentInv is only  *)
(* at risk when `start` moves.                                             *)
LEMMA GetcIInv ==
    ASSUME IInv, kbd_getc_blocking
    PROVE  IInv'
<1> USE DEF IInv
<1>0. /\ start \in Indices /\ end \in Indices /\ endSeen \in Indices
      /\ Unread \in 0 .. CAP
  BY LenAndSpace DEF TypeOK, Unread
<1>1. ASSUME Call PROVE IInv'
  BY <1>1 DEF Call, Goto, TypeOK, KeysAccountedFor, ContentInv, TakeInv, InHand, Unread,
              kbdVars, ringVars, takeVars, Locations
<1>2. ASSUME Check PROVE IInv'
  <2>1. TypeOK'
    BY <1>2 DEF Check, Goto, TypeOK, kbdVars, ringVars, Locations, Byte, KEY_NULL
  <2>2. /\ UNCHANGED <<start, end, buffer, stamp, sent, returned, lapped, Unread>>
        /\ pc = "check" /\ ch' = KEY_NULL
        /\ pc' = IF Unread < 1 THEN "test" ELSE "copy"
    BY <1>2 DEF Check, Goto, ringVars, Unread
  <2>3. KeysAccountedFor' /\ ContentInv' /\ TakeInv'
    BY <1>0, <2>2 DEF KeysAccountedFor, ContentInv, TakeInv, InHand
  <2> QED BY <2>1, <2>3
<1>3. ASSUME Copy PROVE IInv'
  <2>1. PICK e \in {end, endSeen} :
           IF BytesToRead(e) = 1
           THEN /\ ch' = buffer[start] /\ chStamp' = stamp[start]
                /\ Goto("copy", "advance")
           ELSE /\ UNCHANGED <<ch, chStamp>>
                /\ Goto("copy", "wrapcopy")
    BY <1>3 DEF Copy
  <2>2. BytesToRead(e) = IF start < CAP THEN 1 ELSE 0
    BY <1>0, TakeOne
  <2>3. /\ UNCHANGED <<kbdVars, start, end, endSeen, buffer, stamp, sent, returned>>
        /\ UNCHANGED <<lapped, Unread>>
    BY <1>3 DEF Copy, ringVars, Unread
  <2>4. CASE start < CAP
    <3>1. /\ ch' = buffer[start] /\ chStamp' = stamp[start]
          /\ pc = "copy" /\ pc' = "advance" /\ start \in Slots
      BY <1>0, <2>1, <2>2, <2>4, CapAssumption DEF Goto, Slots, Indices
    <3>2. TypeOK'
      BY <2>3, <3>1 DEF TypeOK, Locations, kbdVars
    <3>3. ~lapped => ch' # KEY_NULL /\ chStamp' = returned + 1
      <4> SUFFICES ASSUME ~lapped PROVE ch' # KEY_NULL /\ chStamp' = returned + 1
        OBVIOUS
      <4>1. 0 \in 0 .. Unread - 1 /\ SlotOf(start, 0) = start
        BY <1>0, <2>4, <3>1, CapAssumption DEF TakeInv, SlotOf, Indices
      <4>2. buffer[start] # KEY_NULL /\ stamp[start] = sent - Unread + 0 + 1
        BY <4>1 DEF ContentInv
      <4>3. sent - returned = Unread
        BY <1>0, <3>1 DEF KeysAccountedFor, InHand, Unread, TypeOK
      <4> QED BY <1>0, <3>1, <4>2, <4>3 DEF TypeOK
    <3> QED BY <1>0, <2>3, <2>4, <3>1, <3>2, <3>3
            DEF KeysAccountedFor, ContentInv, TakeInv, InHand
  <2>5. CASE start = CAP
    <3>1. /\ UNCHANGED <<ch, chStamp>>
          /\ pc = "copy" /\ pc' = "wrapcopy"
      BY <1>0, <2>1, <2>2, <2>5, CapAssumption DEF Goto
    <3>2. TypeOK'
      BY <2>3, <3>1 DEF TypeOK, Locations, kbdVars
    <3> QED BY <1>0, <2>3, <2>5, <3>1, <3>2
            DEF KeysAccountedFor, ContentInv, TakeInv, InHand
  <2> QED BY <1>0, <2>4, <2>5, CapAssumption DEF Indices
<1>4. ASSUME WrapCopy PROVE IInv'
  <2>1. /\ UNCHANGED <<kbdVars, start, end, endSeen, buffer, stamp, sent, returned>>
        /\ UNCHANGED <<lapped, Unread>>
        /\ ch' = buffer[0] /\ chStamp' = stamp[0]
        /\ pc = "wrapcopy" /\ pc' = "wrapadvance" /\ 0 \in Slots
    BY <1>4, CapAssumption DEF WrapCopy, Goto, ringVars, Unread, Slots
  <2>2. TypeOK'
    BY <2>1 DEF TypeOK, Locations, kbdVars
  <2>3. start = CAP /\ SlotOf(start, 0) = 0
    BY <2>1, CapAssumption DEF TakeInv, SlotOf
  <2>4. ~lapped => ch' # KEY_NULL /\ chStamp' = returned + 1
    <3> SUFFICES ASSUME ~lapped PROVE ch' # KEY_NULL /\ chStamp' = returned + 1
      OBVIOUS
    <3>1. 0 \in 0 .. Unread - 1
      BY <1>0, <2>1 DEF TakeInv
    <3>2. buffer[0] # KEY_NULL /\ stamp[0] = sent - Unread + 0 + 1
      BY <2>3, <3>1 DEF ContentInv
    <3>3. sent - returned = Unread
      BY <1>0, <2>1 DEF KeysAccountedFor, InHand, Unread, TypeOK
    <3> QED BY <1>0, <2>1, <3>2, <3>3 DEF TypeOK
  <2> QED BY <1>0, <2>1, <2>2, <2>3, <2>4
          DEF KeysAccountedFor, ContentInv, TakeInv, InHand
<1>5. ASSUME Advance \/ WrapAdvance PROVE IInv'
  <2>1. /\ UNCHANGED <<kbdVars, end, endSeen, buffer, stamp, sent, returned, lapped>>
        /\ UNCHANGED <<ch, chStamp>>
        /\ pc \in {"advance", "wrapadvance"} /\ pc' = "test"
        /\ start' = IF pc = "advance" THEN start + 1 ELSE 1
    BY <1>5 DEF Advance, WrapAdvance, Goto, ringVars
  <2>2. start' \in Indices /\ start' = IF start < CAP THEN start + 1 ELSE 1
    BY <1>0, <2>1, CapAssumption DEF TakeInv, Indices
  <2>3. TypeOK'
    BY <2>1, <2>2 DEF TypeOK, Locations, kbdVars
  <2>4. ~lapped => Unread >= 1 /\ Unread' = Unread - 1
    BY <1>0, <2>1, <2>2, CapAssumption DEF TakeInv, Unread, ringbuf_len, Indices
  <2>5. KeysAccountedFor'
    BY <1>0, <2>1, <2>4 DEF KeysAccountedFor, InHand, TakeInv, Unread, TypeOK
  <2>6. ContentInv'
    <3> SUFFICES ASSUME ~lapped, NEW i \in 0 .. Unread - 2
                 PROVE  /\ buffer[SlotOf(start', i)] # KEY_NULL
                        /\ stamp[SlotOf(start', i)] = sent - (Unread - 1) + i + 1
      BY <1>0, <2>1, <2>4 DEF ContentInv
    <3>1. i + 1 \in 0 .. Unread - 1 /\ SlotOf(start', i) = SlotOf(start, i + 1)
      BY <1>0, <2>2, CapAssumption DEF SlotOf, Indices
    <3>2. /\ buffer[SlotOf(start, i + 1)] # KEY_NULL
          /\ stamp[SlotOf(start, i + 1)] = sent - Unread + (i + 1) + 1
      BY <3>1 DEF ContentInv
    <3> QED BY <1>0, <3>1, <3>2 DEF TypeOK
  <2>7. TakeInv'
    BY <2>1 DEF TakeInv
  <2> QED BY <2>3, <2>5, <2>6, <2>7
<1>6. ASSUME Test PROVE IInv'
  <2>1. /\ UNCHANGED <<kbdVars, start, end, endSeen, buffer, stamp, sent, lapped, Unread>>
        /\ UNCHANGED <<ch, chStamp>>
        /\ pc = "test" /\ pc' = IF ch = KEY_NULL THEN "hlt" ELSE "outside"
        /\ returned' = IF ch = KEY_NULL THEN returned ELSE chStamp
    BY <1>6 DEF Test, Goto, ringVars, Unread
  <2>2. TypeOK'
    BY <2>1 DEF TypeOK, Locations, kbdVars
  <2>3. KeysAccountedFor'
    BY <1>0, <2>1 DEF KeysAccountedFor, TakeInv, InHand, Unread, TypeOK
  <2>4. ContentInv' /\ TakeInv'
    BY <2>1 DEF ContentInv, TakeInv
  <2> QED BY <2>2, <2>3, <2>4
<1>7. ASSUME Halt PROVE IInv'
  BY <1>7 DEF Halt, Goto, TypeOK, KeysAccountedFor, ContentInv, TakeInv, InHand, Unread,
              kbdVars, ringVars, takeVars, Locations
<1> QED BY <1>1, <1>2, <1>3, <1>4, <1>5, <1>6, <1>7 DEF kbd_getc_blocking

(* The timer interrupt only wakes the kernel.                              *)
LEMMA TimerIInv ==
    ASSUME IInv, timerinterrupt
    PROVE  IInv'
BY DEF timerinterrupt, Goto, IInv, TypeOK, KeysAccountedFor, ContentInv, TakeInv, InHand,
       Unread, kbdVars, ringVars, takeVars, Locations

LEMMA StutterIInv ==
    ASSUME IInv, UNCHANGED vars
    PROVE  IInv'
BY DEF vars, IInv, TypeOK, KeysAccountedFor, ContentInv, TakeInv, InHand, Unread,
       kbdVars, ringVars, takeVars

(* The inductive invariant holds in every reachable state.                 *)
THEOREM IInvHolds == Spec => []IInv
<1>1. IInv /\ [Next]_vars => IInv'
  BY HandlerIInv, TimerIInv, GetcIInv, StutterIInv DEF Next
<1> QED BY InitIInv, <1>1, PTL DEF Spec

(* The driver's state stays well typed: above all both indices stay within *)
(* 0..cap, so every copy stays inside the page.                            *)
THEOREM KeyboardTypeOK == Spec => []TypeOK
BY IInvHolds, PTL DEF IInv

(* No key press is lost or doubled before the buffer is lapped, for every  *)
(* capacity and however many presses.                                      *)
THEOREM KeysAreAccountedFor == Spec => []KeysAccountedFor
BY IInvHolds, PTL DEF IInv

(* The one shift bit is only set while a shift key is down.                *)
THEOREM ShiftBitIsHonest == Spec => []ShiftBitMeansShiftHeld
<1> DEFINE Inv == keys \in [Codes -> BOOLEAN] /\ ShiftBitMeansShiftHeld
<1>1. Init => Inv
  BY DEF Init, ShiftBitMeansShiftHeld
<1>2. Inv /\ [Next]_vars => Inv'
  <2> SUFFICES ASSUME Inv, [Next]_vars PROVE Inv'
    OBVIOUS
  <2>1. ASSUME NEW code \in Codes, NEW pressed \in BOOLEAN, kbdhandler(code, pressed)
        PROVE  Inv'
    <3>1. /\ keys' = [keys EXCEPT ![code] = pressed]
          /\ shift' = ShiftAfter(code, pressed)
      BY <2>1 DEF kbdhandler
    <3> QED BY <3>1, KeyboardAssumption DEF ShiftAfter, ShiftBitMeansShiftHeld
  <2>2. ASSUME timerinterrupt \/ kbd_getc_blocking \/ UNCHANGED vars
        PROVE  UNCHANGED <<shift, keys>>
    BY <2>2 DEF timerinterrupt, kbd_getc_blocking, Call, Check, Copy, Advance, WrapCopy,
                WrapAdvance, Test, Halt, vars, kbdVars
  <2>3. UNCHANGED <<shift, keys>> => Inv'
    BY DEF ShiftBitMeansShiftHeld
  <2> QED BY <2>1, <2>2, <2>3 DEF Next
<1> QED BY <1>1, <1>2, PTL DEF Spec

-----------------------------------------------------------------------------
(* The order of presses, before and after the buffer is lapped.  Presses   *)
(* are stored one slot after the other, so both indices are known from the *)
(* numbers of the last press stored and of the last one returned, and a    *)
(* slot holds the newest of the presses that fall on it.                   *)

\* `end` behind press k, and `start` once it is taken
Mark(k) == IF k = 0 THEN 0 ELSE ((k - 1) % CAP) + 1

\* the slot that is read next
FirstSlot == IF start < CAP THEN start ELSE 0

InHandNow == pc = "test" /\ ch # KEY_NULL

StampInv ==
    /\ end = Mark(sent)
    /\ \A j \in Slots :
          /\ stamp[j] <= sent
          /\ stamp[j] # 0 => Mark(stamp[j]) = j + 1 /\ buffer[j] # KEY_NULL
          /\ \A k \in 1 .. sent : Mark(k) = j + 1 => stamp[j] >= k

OrderInv ==
    /\ returned <= sent
    /\ ~InHandNow => start = Mark(returned)
    /\ InHandNow => start = Mark(chStamp) /\ returned < chStamp /\ chStamp <= sent
    /\ pc \in {"copy", "wrapcopy"} => returned < sent
    /\ pc \in {"advance", "wrapadvance"} =>
          /\ ch # KEY_NULL /\ returned < chStamp /\ chStamp <= sent
          /\ Mark(chStamp) = FirstSlot + 1
    /\ pc = "advance" => start < CAP
    /\ pc \in {"wrapcopy", "wrapadvance"} => start = CAP

SInv == TypeOK /\ StampInv /\ OrderInv

(* A remainder is known from any division.                                 *)
LEMMA Division ==
    ASSUME NEW x \in Nat, NEW q \in Int, NEW r \in 0 .. CAP - 1, x = CAP * q + r
    PROVE  x % CAP = r
<1> DEFINE p == x \div CAP
           s == x % CAP
<1>1. CAP \in Nat /\ CAP > 0
  BY CapAssumption
<1>2. x = CAP * p + s /\ s \in 0 .. CAP - 1 /\ p \in Int
  BY <1>1
<1> HIDE DEF p, s
<1>3. CASE p >= q + 1
  <2>1. CAP * p >= CAP * (q + 1)
    BY <1>1, <1>2, <1>3
  <2>2. CAP * (q + 1) = CAP * q + CAP
    BY <1>1
  <2> QED BY <1>1, <1>2, <2>1, <2>2
<1>4. CASE q >= p + 1
  <2>1. CAP * q >= CAP * (p + 1)
    BY <1>1, <1>2, <1>4
  <2>2. CAP * (p + 1) = CAP * p + CAP
    BY <1>1, <1>2
  <2> QED BY <1>1, <1>2, <2>1, <2>2
<1>5. CASE p = q
  BY <1>1, <1>2, <1>5 DEF s
<1> QED BY <1>2, <1>3, <1>4, <1>5

(* The place after a place is the next one, or the first.                  *)
LEMMA MarkNext ==
    ASSUME NEW k \in Nat
    PROVE  /\ Mark(k) \in Indices
           /\ Mark(k + 1) = IF Mark(k) < CAP THEN Mark(k) + 1 ELSE 1
<1>1. CAP \in Nat /\ CAP > 0
  BY CapAssumption
<1>2. CASE k = 0
  BY <1>1, <1>2 DEF Mark, Indices
<1>3. CASE k # 0
  <2>1. k - 1 \in Nat /\ (k + 1) - 1 = (k - 1) + 1
    BY <1>3
  <2>2. \A n \in Nat : n % CAP \in 0 .. CAP - 1
                       /\ (n + 1) % CAP = IF n % CAP < CAP - 1 THEN (n % CAP) + 1 ELSE 0
    <3> SUFFICES ASSUME NEW n \in Nat
                 PROVE  /\ n % CAP \in 0 .. CAP - 1
                        /\ (n + 1) % CAP = IF n % CAP < CAP - 1 THEN (n % CAP) + 1 ELSE 0
      OBVIOUS
    <3> DEFINE q == n \div CAP
               r == n % CAP
    <3>1. n = CAP * q + r /\ r \in 0 .. CAP - 1 /\ q \in Int
      BY <1>1
    <3>2. CASE r < CAP - 1
      <4>1. n + 1 = CAP * q + (r + 1) /\ r + 1 \in 0 .. CAP - 1
        BY <1>1, <3>1, <3>2
      <4> QED BY <3>1, <3>2, <4>1, Division
    <3>3. CASE r = CAP - 1
      <4> DEFINE m == q + 1
      <4>1. n + 1 = CAP * m + 0 /\ m \in Int /\ 0 \in 0 .. CAP - 1 /\ n + 1 \in Nat
        BY <1>1, <3>1, <3>3
      <4> HIDE DEF m, q
      <4>2. (n + 1) % CAP = 0
        BY <4>1, Division
      <4> QED BY <1>1, <3>1, <3>3, <4>2
    <3> QED
      <4> HIDE DEF q, r
      <4> QED BY <1>1, <3>1, <3>2, <3>3 DEF r
  <2> QED BY <1>1, <1>3, <2>1, <2>2 DEF Mark, Indices
<1> QED BY <1>2, <1>3

(* The place before the slot that is read next.                            *)
LEMMA FirstSlotIs ==
    ASSUME start \in Indices
    PROVE  /\ FirstSlot \in Slots
           /\ \A k \in Nat : start = Mark(k) => Mark(k + 1) = FirstSlot + 1
<1>1. FirstSlot \in Slots
  BY CapAssumption DEF FirstSlot, Indices, Slots
<1>2. ASSUME NEW k \in Nat, start = Mark(k) PROVE Mark(k + 1) = FirstSlot + 1
  BY <1>2, MarkNext DEF FirstSlot
<1> QED BY <1>1, <1>2

LEMMA InitSInv == Init => SInv
<1> SUFFICES ASSUME Init PROVE SInv
  OBVIOUS
<1>1. TypeOK
  BY InitIInv DEF IInv
<1>2. StampInv /\ OrderInv
  BY DEF Init, StampInv, OrderInv, Mark, InHandNow, Slots, KEY_NULL
<1> QED BY <1>1, <1>2 DEF SInv

(* ringbuf_put stores the press in the slot that is due, in every state of *)
(* the reader.                                                             *)
LEMMA PutKeySInv ==
    ASSUME SInv, NEW c \in Byte, c # KEY_NULL, PutKey(c), Wake, UNCHANGED takeVars, TypeOK'
    PROVE  SInv'
<1>0. /\ start \in Indices /\ end \in Indices /\ sent \in Nat /\ returned \in Nat
      /\ chStamp \in Nat /\ stamp \in [Slots -> Nat] /\ buffer \in [Slots -> Byte]
  BY DEF SInv, TypeOK
<1>1. CASE ringbuf_space(start, end) < 1
  <2>1. UNCHANGED ringVars
    BY <1>1 DEF PutKey
  <2>2. StampInv'
    BY <2>1 DEF SInv, StampInv, ringVars
  <2>3. OrderInv'
    BY <2>1 DEF SInv, OrderInv, InHandNow, FirstSlot, Wake, ringVars, takeVars
  <2> QED BY <2>2, <2>3 DEF SInv
<1>2. CASE ~(ringbuf_space(start, end) < 1)
  <2> DEFINE slot == SlotOf(start, Unread)
             last == IF end < CAP THEN end ELSE 0
  <2>0. ringbuf_space(start, end) >= 1 /\ Unread \in 0 .. CAP - 1
    BY <1>0, <1>2, LenAndSpace, CapAssumption DEF Unread
  <2>1. /\ end' = PutEnd(start, end, 1) /\ sent' = sent + 1
        /\ buffer' = PutBuffer(buffer, start, end, <<c>>)
        /\ stamp' = PutBuffer(stamp, start, end, <<sent + 1>>)
    BY <1>2 DEF PutKey
  <2>2. slot = last /\ last \in Slots
    BY <1>0, <1>2, CapAssumption DEF Unread, Indices, Slots, ringbuf_len, ringbuf_space, SlotOf
  <2>3. end' = last + 1
    <3>1. PutEnd(start, end, 1) = last + 1
      BY <1>0, <1>2, CapAssumption DEF Indices, PutEnd, PutLimit, Least, ringbuf_space
    <3> QED BY <2>1, <3>1
  <2>4. buffer' = [j \in Slots |-> IF j = last THEN c ELSE buffer[j]]
    BY <1>0, <2>0, <2>1, <2>2, PutOne DEF Unread
  <2>5. stamp' = [j \in Slots |-> IF j = last THEN sent + 1 ELSE stamp[j]]
    BY <1>0, <2>0, <2>1, <2>2, PutOne DEF Unread
  <2> HIDE DEF slot
  <2>6. Mark(sent + 1) = last + 1
    BY <1>0, MarkNext DEF SInv, StampInv
  <2>7. StampInv'
    <3>1. end' = Mark(sent')
      BY <2>1, <2>3, <2>6
    <3>2. ASSUME NEW j \in Slots
          PROVE  /\ stamp'[j] <= sent'
                 /\ stamp'[j] # 0 => Mark(stamp'[j]) = j + 1 /\ buffer'[j] # KEY_NULL
                 /\ \A k \in 1 .. sent' : Mark(k) = j + 1 => stamp'[j] >= k
      <4>1. /\ stamp[j] <= sent /\ stamp[j] \in Nat
            /\ stamp[j] # 0 => Mark(stamp[j]) = j + 1 /\ buffer[j] # KEY_NULL
            /\ \A k \in 1 .. sent : Mark(k) = j + 1 => stamp[j] >= k
        BY <1>0 DEF SInv, StampInv
      <4>2. CASE j = last
        <5>1. stamp'[j] = sent + 1 /\ buffer'[j] = c
          BY <2>4, <2>5, <4>2
        <5> QED BY <1>0, <2>1, <2>6, <4>2, <5>1
      <4>3. CASE j # last
        <5>1. stamp'[j] = stamp[j] /\ buffer'[j] = buffer[j]
          BY <2>4, <2>5, <4>3
        <5>2. \A k \in 1 .. sent + 1 : Mark(k) = j + 1 => k \in 1 .. sent
          <6>1. ASSUME NEW k \in 1 .. sent + 1, Mark(k) = j + 1 PROVE k # sent + 1
            <7>1. j + 1 # last + 1
              BY <2>2, <4>3 DEF Slots
            <7> QED BY <2>6, <6>1, <7>1
          <6> QED BY <1>0, <6>1
        <5> QED BY <1>0, <2>1, <4>1, <5>1, <5>2
      <4> QED BY <4>2, <4>3
    <3> QED BY <3>1, <3>2 DEF StampInv
  <2>8. OrderInv'
    BY <1>0, <2>1 DEF SInv, OrderInv, InHandNow, FirstSlot, Wake, takeVars
  <2> QED BY <2>7, <2>8 DEF SInv
<1> QED BY <1>1, <1>2

(* The handler keeps the order for every scan code.                        *)
LEMMA HandlerSInv ==
    ASSUME SInv, NEW code \in Codes, NEW pressed \in BOOLEAN, kbdhandler(code, pressed), TypeOK'
    PROVE  SInv'
<1> DEFINE keyChar == keyboard_us[ShiftAfter(code, pressed)][code]
           queued  == KeyByte(ShiftAfter(code, pressed), code)
<1>1. CASE pressed /\ keyChar # KEY_NULL
  <2>1. queued \in Byte /\ queued # KEY_NULL
    BY <1>1, KeyByteIs DEF SInv, TypeOK
  <2>2. PutKey(queued) /\ Wake /\ UNCHANGED takeVars
    BY <1>1 DEF kbdhandler
  <2> HIDE DEF queued
  <2> QED BY <2>1, <2>2, PutKeySInv
<1>2. CASE ~(pressed /\ keyChar # KEY_NULL)
  <2>1. UNCHANGED ringVars /\ UNCHANGED takeVars /\ Wake
    BY <1>2 DEF kbdhandler
  <2> QED BY <2>1 DEF SInv, StampInv, OrderInv, InHandNow, FirstSlot, Wake, ringVars, takeVars
<1> QED BY <1>1, <1>2

(* What ringbuf_take reads is a press that has not been returned, even if  *)
(* the handler has lapped it since it checked.                             *)
LEMMA ReadsNewer ==
    ASSUME SInv, returned < sent, start = Mark(returned)
    PROVE  /\ buffer[FirstSlot] # KEY_NULL
           /\ returned < stamp[FirstSlot] /\ stamp[FirstSlot] <= sent
           /\ Mark(stamp[FirstSlot]) = FirstSlot + 1
<1>1. /\ start \in Indices /\ sent \in Nat /\ returned \in Nat /\ stamp \in [Slots -> Nat]
  BY DEF SInv, TypeOK
<1>2. FirstSlot \in Slots /\ Mark(returned + 1) = FirstSlot + 1
  BY <1>1, FirstSlotIs
<1>3. returned + 1 \in 1 .. sent
  BY <1>1
<1>4. /\ stamp[FirstSlot] <= sent /\ stamp[FirstSlot] >= returned + 1
      /\ stamp[FirstSlot] # 0 => Mark(stamp[FirstSlot]) = FirstSlot + 1
                                 /\ buffer[FirstSlot] # KEY_NULL
  BY <1>2, <1>3 DEF SInv, StampInv
<1>5. stamp[FirstSlot] \in Nat
  BY <1>1, <1>2
<1> QED BY <1>1, <1>4, <1>5

(* Each step of kbd_getc_blocking keeps the order.                         *)
LEMMA GetcSInv ==
    ASSUME SInv, kbd_getc_blocking, TypeOK'
    PROVE  SInv'
<1>0. /\ start \in Indices /\ end \in Indices /\ endSeen \in Indices
      /\ sent \in Nat /\ returned \in Nat /\ chStamp \in Nat
  BY DEF SInv, TypeOK
<1>1. UNCHANGED ringVars
  BY DEF kbd_getc_blocking, Call, Check, Copy, Advance, WrapCopy, WrapAdvance, Test, Halt
<1>2. StampInv'
  BY <1>1 DEF SInv, StampInv, ringVars
<1>3. ASSUME Call PROVE OrderInv'
  BY <1>1, <1>3 DEF Call, Goto, SInv, OrderInv, InHandNow, FirstSlot, ringVars, takeVars
<1>4. ASSUME Check PROVE OrderInv'
  <2>1. /\ pc = "check" /\ ch' = KEY_NULL /\ UNCHANGED <<start, returned, sent>>
        /\ pc' = IF ringbuf_len(start, end) < 1 THEN "test" ELSE "copy"
    BY <1>4 DEF Check, Goto, ringVars
  <2>2. start = Mark(returned) /\ end = Mark(sent) /\ returned <= sent
    BY <2>1 DEF SInv, OrderInv, StampInv, InHandNow
  <2>3. start = end => ringbuf_len(start, end) = 0
    BY <1>0, CapAssumption DEF ringbuf_len, Indices
  <2>4. pc' = "copy" => returned < sent
    BY <1>0, <2>1, <2>2, <2>3
  <2> QED BY <2>1, <2>2, <2>4 DEF OrderInv, InHandNow
<1>5. ASSUME Copy PROVE OrderInv'
  <2>1. PICK e \in {end, endSeen} :
           IF BytesToRead(e) = 1
           THEN /\ ch' = buffer[start] /\ chStamp' = stamp[start]
                /\ Goto("copy", "advance")
           ELSE /\ UNCHANGED <<ch, chStamp>>
                /\ Goto("copy", "wrapcopy")
    BY <1>5 DEF Copy
  <2>2. BytesToRead(e) = IF start < CAP THEN 1 ELSE 0
    BY <1>0, TakeOne
  <2>3. UNCHANGED <<start, returned, sent>> /\ pc = "copy"
    BY <1>5, <2>1 DEF Copy, Goto, ringVars
  <2>4. returned < sent /\ start = Mark(returned)
    BY <2>3 DEF SInv, OrderInv, InHandNow
  <2>5. CASE start < CAP
    <3>1. pc' = "advance" /\ ch' = buffer[FirstSlot] /\ chStamp' = stamp[FirstSlot]
      BY <2>1, <2>2, <2>5 DEF Goto, FirstSlot
    <3>2. FirstSlot' = FirstSlot
      BY <2>3 DEF FirstSlot
    <3> QED BY <1>0, <2>3, <2>4, <2>5, <3>1, <3>2, ReadsNewer DEF OrderInv, InHandNow
  <2>6. CASE start = CAP
    <3>1. pc' = "wrapcopy"
      BY <1>0, <2>1, <2>2, <2>6, CapAssumption DEF Goto
    <3> QED BY <1>0, <2>3, <2>4, <2>6, <3>1 DEF OrderInv, InHandNow
  <2> QED BY <1>0, <2>5, <2>6, CapAssumption DEF Indices
<1>6. ASSUME WrapCopy PROVE OrderInv'
  <2>1. /\ pc = "wrapcopy" /\ pc' = "wrapadvance" /\ UNCHANGED <<start, returned, sent>>
        /\ ch' = buffer[0] /\ chStamp' = stamp[0]
    BY <1>6 DEF WrapCopy, Goto, ringVars
  <2>2. returned < sent /\ start = Mark(returned) /\ start = CAP
    BY <2>1 DEF SInv, OrderInv, InHandNow
  <2>3. FirstSlot = 0 /\ FirstSlot' = FirstSlot
    BY <2>1, <2>2, CapAssumption DEF FirstSlot
  <2> QED BY <1>0, <2>1, <2>2, <2>3, ReadsNewer DEF OrderInv, InHandNow
<1>7. ASSUME Advance \/ WrapAdvance PROVE OrderInv'
  <2>1. /\ pc \in {"advance", "wrapadvance"} /\ pc' = "test"
        /\ UNCHANGED <<returned, sent, ch, chStamp>>
        /\ start' = IF pc = "advance" THEN start + 1 ELSE 1
    BY <1>7, <1>1 DEF Advance, WrapAdvance, Goto, ringVars
  <2>2. /\ returned <= sent /\ ch # KEY_NULL /\ returned < chStamp /\ chStamp <= sent
        /\ Mark(chStamp) = FirstSlot + 1
        /\ IF pc = "advance" THEN start < CAP ELSE start = CAP
    BY <2>1 DEF SInv, OrderInv
  <2>3. start' = FirstSlot + 1
    BY <1>0, <2>1, <2>2, CapAssumption DEF FirstSlot
  <2> QED BY <2>1, <2>2, <2>3 DEF OrderInv, InHandNow
<1>8. ASSUME Test PROVE OrderInv'
  <2>1. /\ pc = "test" /\ pc' = IF ch = KEY_NULL THEN "hlt" ELSE "outside"
        /\ returned' = IF ch = KEY_NULL THEN returned ELSE chStamp
        /\ UNCHANGED <<start, sent, ch, chStamp>>
    BY <1>1, <1>8 DEF Test, Goto, ringVars
  <2> QED BY <1>0, <2>1 DEF SInv, OrderInv, InHandNow
<1>9. ASSUME Halt PROVE OrderInv'
  BY <1>1, <1>9 DEF Halt, Goto, SInv, OrderInv, InHandNow, FirstSlot, ringVars, takeVars
<1> QED BY <1>2, <1>3, <1>4, <1>5, <1>6, <1>7, <1>8, <1>9 DEF SInv, kbd_getc_blocking

(* Both indices and every stamp are as the presses stored and returned so  *)
(* far say, lapped or not.                                                 *)
THEOREM OrderHolds == Spec => []SInv
<1>1. TypeOK' /\ SInv /\ [Next]_vars => SInv'
  <2> SUFFICES ASSUME TypeOK', SInv, [Next]_vars PROVE SInv'
    OBVIOUS
  <2>1. ASSUME timerinterrupt PROVE SInv'
    BY <2>1 DEF timerinterrupt, Goto, SInv, StampInv, OrderInv, InHandNow, FirstSlot,
                ringVars, takeVars
  <2>2. ASSUME UNCHANGED vars PROVE SInv'
    BY <2>2 DEF vars, SInv, StampInv, OrderInv, InHandNow, FirstSlot, ringVars, takeVars
  <2> QED BY <2>1, <2>2, HandlerSInv, GetcSInv DEF Next
<1> QED BY InitSInv, <1>1, KeyboardTypeOK, PTL DEF Spec

(* Presses are returned in the order they were made and none twice, even   *)
(* once the handler has lapped the reader; before that none is skipped.    *)
THEOREM KeysReturnInOrder == Spec => ReturnsInOrder
<1>1. IInv /\ SInv /\ [Next]_vars =>
         [Returns => returned' > returned /\ (~lapped => returned' = returned + 1)]_vars
  <2> SUFFICES ASSUME IInv, SInv, Next, Returns
               PROVE  returned' > returned /\ (~lapped => returned' = returned + 1)
    OBVIOUS
  <2>1. Test
    BY DEF Next, Returns, kbdhandler, Wake, timerinterrupt, kbd_getc_blocking, Call, Check, Copy,
           Advance, WrapCopy, WrapAdvance, Halt, Goto
  <2>2. ch # KEY_NULL /\ returned' = chStamp
    BY <2>1 DEF Test, Goto, Returns
  <2>3. returned < chStamp /\ (~lapped => chStamp = returned + 1)
    BY <2>2 DEF Returns, SInv, OrderInv, InHandNow, IInv, TakeInv
  <2>4. returned \in Nat /\ chStamp \in Nat
    BY DEF IInv, TypeOK
  <2> QED BY <2>2, <2>3, <2>4
<1> QED BY <1>1, IInvHolds, OrderHolds, PTL DEF ReturnsInOrder, Spec

-----------------------------------------------------------------------------
(* The driver implements the queue, step by step.                          *)

\* the queue and the hand of the refinement mapping in Keyboard
MappedQueue ==
    [i \in 1 .. Unread |-> <<Contents(buffer, start, end)[i], Contents(stamp, start, end)[i]>>]
MappedHand  == IF InHand = 1 THEN << <<ch, chStamp>> >> ELSE <<>>

\* the byte on its way to the caller is the one that `start` still counts
HandInv == pc \in {"advance", "wrapadvance"} /\ ~lapped => ch = buffer[SlotOf(start, 0)]

(* What is unread lies in the slots from `start` on.                       *)
LEMMA ContentsAre ==
    ASSUME NEW s \in Indices, NEW e \in Indices, NEW b
    PROVE  \A i \in 1 .. ringbuf_len(s, e) :
              /\ SlotOf(s, i - 1) \in Slots
              /\ Contents(b, s, e)[i] = b[SlotOf(s, i - 1)]
<1> SUFFICES ASSUME NEW i \in 1 .. ringbuf_len(s, e)
             PROVE  SlotOf(s, i - 1) \in Slots /\ Contents(b, s, e)[i] = b[SlotOf(s, i - 1)]
  OBVIOUS
<1> DEFINE len == ringbuf_len(s, e)
           n   == Least(TakeLimit(s, e) - s, len)
<1>1. len \in 0 .. CAP
  BY LenAndSpace
<1>2. Contents(b, s, e)[i] = IF i <= n THEN b[s + i - 1] ELSE b[i - n - 1]
  BY DEF Contents, ReadBytes
<1>3. CASE e >= s
  <2>1. n = e - s /\ len = e - s
    BY <1>3, CapAssumption DEF Indices, Least, TakeLimit, ringbuf_len
  <2>2. i <= n /\ s + (i - 1) < CAP /\ s + (i - 1) = s + i - 1 /\ s + i - 1 \in Slots
    BY <1>3, <2>1, CapAssumption DEF Indices, Slots
  <2> QED BY <1>2, <2>2 DEF SlotOf
<1>4. CASE e < s
  <2>1. n = CAP - s /\ len = CAP - (s - e)
    BY <1>4, CapAssumption DEF Indices, Least, TakeLimit, ringbuf_len
  <2>2. CASE i <= n
    <3>1. s + (i - 1) < CAP /\ s + (i - 1) = s + i - 1 /\ s + i - 1 \in Slots
      BY <1>4, <2>1, <2>2, CapAssumption DEF Indices, Slots
    <3> QED BY <1>2, <2>2, <3>1 DEF SlotOf
  <2>3. CASE ~(i <= n)
    <3>1. /\ ~(s + (i - 1) < CAP) /\ s + (i - 1) - CAP = i - n - 1
          /\ i - n - 1 \in Slots
      BY <1>4, <2>1, <2>3, CapAssumption DEF Indices, Slots
    <3> QED BY <1>2, <2>3, <3>1 DEF SlotOf
  <2> QED BY <2>2, <2>3
<1> QED BY <1>3, <1>4 DEF Indices

\* a sequence that grows by its last element, and one that loses its first
LEMMA GrownSeq ==
    ASSUME NEW S, NEW n \in Nat, NEW q \in [1 .. n -> S], NEW r \in [1 .. n + 1 -> S],
           \A i \in 1 .. n : r[i] = q[i]
    PROVE  Len(q) = n /\ r = Append(q, r[n + 1])
<1>1. q \in Seq(S) /\ Len(q) = n /\ r \in Seq(S) /\ Len(r) = n + 1
  OBVIOUS
<1>2. Append(q, r[n + 1]) \in Seq(S) /\ Len(Append(q, r[n + 1])) = n + 1
  BY <1>1
<1>3. \A i \in 1 .. n + 1 : r[i] = Append(q, r[n + 1])[i]
  BY <1>1
<1> QED BY <1>1, <1>2, <1>3

LEMMA TakenSeq ==
    ASSUME NEW S, NEW n \in Nat, NEW q \in [1 .. n + 1 -> S], NEW r \in [1 .. n -> S],
           \A i \in 1 .. n : r[i] = q[i + 1]
    PROVE  q # <<>> /\ Head(q) = q[1] /\ r = Tail(q)
<1>1. q \in Seq(S) /\ Len(q) = n + 1 /\ r \in Seq(S) /\ Len(r) = n
  OBVIOUS
<1>2. q # <<>> /\ Head(q) = q[1] /\ Tail(q) \in Seq(S) /\ Len(Tail(q)) = n
  BY <1>1
<1>3. \A i \in 1 .. n : r[i] = Tail(q)[i]
  BY <1>1
<1> QED BY <1>1, <1>2, <1>3

(* HandInv is preserved: a put behind the content touches no byte of it.   *)
LEMMA HandStep ==
    ASSUME IInv, HandInv, Next
    PROVE  HandInv'
<1>0. start \in Indices /\ end \in Indices /\ Unread \in 0 .. CAP
  BY LenAndSpace DEF IInv, TypeOK, Unread
<1>1. ASSUME NEW code \in Codes, NEW pressed \in BOOLEAN, kbdhandler(code, pressed) PROVE HandInv'
  <2>1. UNCHANGED takeVars /\ Wake
    BY <1>1 DEF kbdhandler
  <2>2. CASE UNCHANGED ringVars
    BY <2>1, <2>2 DEF HandInv, Wake, takeVars, ringVars
  <2>3. ASSUME NEW c, PutKey(c), ~ UNCHANGED ringVars PROVE HandInv'
    <3>1. /\ ringbuf_space(start, end) >= 1 /\ lapped' = (lapped \/ (Unread = CAP - 1 /\ start # 0))
          /\ buffer' = PutBuffer(buffer, start, end, <<c>>)
      BY <1>0, <2>3, LenAndSpace, CapAssumption DEF PutKey, Unread
    <3>2. buffer' = [i \in Slots |-> IF i = SlotOf(start, Unread) THEN c ELSE buffer[i]]
      BY <1>0, <3>1, PutOne DEF Unread
    <3> SUFFICES ASSUME pc' \in {"advance", "wrapadvance"}, ~lapped'
                 PROVE  ch' = buffer'[SlotOf(start', 0)]
      BY DEF HandInv
    <3>3. pc' = pc /\ pc \in {"advance", "wrapadvance"} /\ ~lapped /\ start' = start /\ ch' = ch
      BY <2>1, <3>1 DEF Wake, takeVars
    <3>4. Unread >= 1 /\ Unread < CAP /\ ch = buffer[SlotOf(start, 0)]
      BY <1>0, <3>1, <3>3, LenAndSpace, CapAssumption DEF IInv, TakeInv, HandInv, Unread
    <3>5. SlotOf(start, 0) # SlotOf(start, Unread) /\ SlotOf(start, 0) \in Slots
      BY <1>0, <3>4, CapAssumption DEF SlotOf, Indices, Slots
    <3> QED BY <3>2, <3>3, <3>4, <3>5
  <2> QED BY <1>1, <2>2, <2>3 DEF kbdhandler
<1>2. ASSUME Copy PROVE HandInv'
  <2>1. PICK e \in {end, endSeen} :
           IF BytesToRead(e) = 1 THEN ch' = buffer[start] /\ Goto("copy", "advance")
           ELSE Goto("copy", "wrapcopy")
    BY <1>2 DEF Copy
  <2>2. UNCHANGED <<start, buffer>>
    BY <1>2 DEF Copy, ringVars
  <2>3. BytesToRead(e) = IF start < CAP THEN 1 ELSE 0
    BY <1>0, TakeOne DEF IInv, TypeOK
  <2>4. start < CAP => SlotOf(start, 0) = start
    BY <1>0, CapAssumption DEF SlotOf, Indices
  <2> QED BY <2>1, <2>2, <2>3, <2>4 DEF HandInv, Goto
<1>3. ASSUME WrapCopy PROVE HandInv'
  <2>1. pc = "wrapcopy" /\ ch' = buffer[0] /\ UNCHANGED <<start, buffer>>
    BY <1>3 DEF WrapCopy, Goto, ringVars
  <2>2. SlotOf(start, 0) = 0
    BY <2>1, CapAssumption DEF IInv, TakeInv, SlotOf
  <2> QED BY <2>1, <2>2 DEF HandInv
<1>4. ASSUME timerinterrupt \/ Call \/ Check \/ Advance \/ WrapAdvance \/ Test \/ Halt
      PROVE  HandInv'
  <2>1. pc' \notin {"advance", "wrapadvance"}
    BY <1>4 DEF timerinterrupt, Call, Check, Advance, WrapAdvance, Test, Halt, Goto
  <2> QED BY <2>1 DEF HandInv
<1> QED BY <1>1, <1>2, <1>3, <1>4 DEF Next, kbd_getc_blocking

(* A press that the handler stores joins the queue at its end.             *)
LEMMA PutJoinsQueue ==
    ASSUME IInv, IInv', NEW c \in Byte, c # KEY_NULL, PutKey(c), UNCHANGED takeVars, ~lapped',
           ~ UNCHANGED ringVars
    PROVE  /\ ~lapped /\ Len(MappedQueue) < CAP
           /\ MappedQueue' = Append(MappedQueue, <<c, sent + 1>>)
<1>0. /\ start \in Indices /\ end \in Indices /\ end' \in Indices /\ sent \in Nat
      /\ buffer \in [Slots -> Byte] /\ stamp \in [Slots -> Nat]
      /\ buffer' \in [Slots -> Byte] /\ stamp' \in [Slots -> Nat]
  BY DEF IInv, TypeOK
<1>1. /\ ringbuf_space(start, end) >= 1 /\ lapped' = (lapped \/ (Unread = CAP - 1 /\ start # 0))
      /\ end' = PutEnd(start, end, 1)
      /\ buffer' = PutBuffer(buffer, start, end, <<c>>)
      /\ stamp' = PutBuffer(stamp, start, end, <<sent + 1>>)
      /\ start' = start
  BY <1>0, LenAndSpace, CapAssumption DEF PutKey, Unread, takeVars
<1>2. ~lapped /\ Unread' = Unread + 1 /\ Unread \in 0 .. CAP - 1
  <2>1. ~lapped /\ ~ (Unread = CAP - 1 /\ start # 0)
    BY <1>1
  <2>2. Unread \in 0 .. CAP - 1
    BY <1>0, <1>1, LenAndSpace, CapAssumption DEF Unread
  <2>3. ringbuf_len(start, PutEnd(start, end, 1)) = Unread + 1
    BY <1>0, <1>1, <2>1, PutOne DEF Unread
  <2> QED BY <1>1, <2>1, <2>2, <2>3 DEF Unread
<1>3. /\ buffer' = [i \in Slots |-> IF i = SlotOf(start, Unread) THEN c ELSE buffer[i]]
      /\ stamp' = [i \in Slots |-> IF i = SlotOf(start, Unread) THEN sent + 1 ELSE stamp[i]]
      /\ SlotOf(start, Unread) \in Slots
  BY <1>0, <1>1, PutOne DEF Unread
<1>4. \A i \in 0 .. Unread : SlotOf(start, i) \in Slots /\ (i < Unread => SlotOf(start, i) # SlotOf(start, Unread))
  BY <1>0, <1>2, CapAssumption DEF SlotOf, Indices, Slots
<1> DEFINE q == MappedQueue
           r == MappedQueue'
<1>5. /\ q = [i \in 1 .. Unread |-> <<buffer[SlotOf(start, i - 1)], stamp[SlotOf(start, i - 1)]>>]
      /\ r = [i \in 1 .. Unread + 1 |-> <<buffer'[SlotOf(start, i - 1)], stamp'[SlotOf(start, i - 1)]>>]
  <2>1. q = [i \in 1 .. Unread |-> <<buffer[SlotOf(start, i - 1)], stamp[SlotOf(start, i - 1)]>>]
    BY <1>0, ContentsAre DEF MappedQueue, Unread
  <2>2. r = [i \in 1 .. Unread' |-> <<buffer'[SlotOf(start', i - 1)], stamp'[SlotOf(start', i - 1)]>>]
    BY <1>0, <1>1, ContentsAre DEF MappedQueue, Unread
  <2> QED BY <1>1, <1>2, <2>1, <2>2
<1> HIDE DEF q, r
<1>6. \A i \in 1 .. Unread + 1 : i - 1 \in 0 .. Unread
  BY <1>2
<1>7. q \in [1 .. Unread -> Byte \X Nat] /\ r \in [1 .. Unread + 1 -> Byte \X Nat]
  BY <1>0, <1>2, <1>4, <1>5
<1>8. r[Unread + 1] = <<c, sent + 1>>
  <2>1. Unread + 1 \in 1 .. Unread + 1 /\ (Unread + 1) - 1 = Unread
    BY <1>2
  <2>2. r[Unread + 1] = <<buffer'[SlotOf(start, Unread)], stamp'[SlotOf(start, Unread)]>>
    BY <1>5, <2>1
  <2> QED BY <1>3, <2>2
<1>9. ASSUME NEW i \in 1 .. Unread PROVE r[i] = q[i]
  <2>1. i \in 1 .. Unread + 1 /\ i - 1 \in 0 .. Unread /\ i - 1 < Unread
    BY <1>2
  <2>2. SlotOf(start, i - 1) \in Slots /\ SlotOf(start, i - 1) # SlotOf(start, Unread)
    BY <1>4, <2>1
  <2> QED BY <1>3, <1>5, <2>1, <2>2
<1>10. Len(q) = Unread /\ r = Append(q, r[Unread + 1])
  BY <1>2, <1>7, <1>9, GrownSeq
<1>11. Len(q) < CAP
  BY <1>2, <1>10, CapAssumption
<1>12. r = Append(q, <<c, sent + 1>>)
  BY <1>8, <1>10
<1>13. ~lapped
  BY <1>2
<1> QED
  <2> USE DEF q, r
  <2> QED BY <1>11, <1>12, <1>13

(* The press that ringbuf_take moves `start` behind is the queue's oldest. *)
LEMMA AdvanceTakes ==
    ASSUME IInv, HandInv, IInv', Advance \/ WrapAdvance, ~lapped
    PROVE  /\ MappedHand = <<>> /\ MappedQueue # <<>>
           /\ MappedHand' = <<Head(MappedQueue)>>
           /\ MappedQueue' = Tail(MappedQueue)
<1>0. /\ start \in Indices /\ end \in Indices /\ start' \in Indices /\ sent \in Nat
      /\ buffer \in [Slots -> Byte] /\ stamp \in [Slots -> Nat] /\ returned \in Nat
  BY DEF IInv, TypeOK
<1>1. /\ UNCHANGED <<end, buffer, stamp, sent, returned, ch, chStamp>>
      /\ pc \in {"advance", "wrapadvance"} /\ pc' = "test"
      /\ start' = IF pc = "advance" THEN start + 1 ELSE 1
  BY DEF Advance, WrapAdvance, Goto, ringVars
<1>2. /\ start' = IF start < CAP THEN start + 1 ELSE 1
      /\ ch # KEY_NULL /\ chStamp = returned + 1 /\ Unread >= 1
      /\ ch = buffer[SlotOf(start, 0)]
  BY <1>0, <1>1, CapAssumption DEF IInv, TakeInv, HandInv, Indices
<1>3. Unread \in 1 .. CAP /\ Unread' = Unread - 1
  BY <1>0, <1>1, <1>2, CapAssumption DEF Unread, ringbuf_len, Indices
<1>4. chStamp = stamp[SlotOf(start, 0)]
  <2>1. 0 \in 0 .. Unread - 1 /\ sent - returned = Unread
    BY <1>0, <1>1, <1>3 DEF IInv, KeysAccountedFor, InHand, Unread
  <2>2. stamp[SlotOf(start, 0)] = sent - Unread + 0 + 1
    BY <2>1 DEF IInv, ContentInv
  <2> QED BY <1>0, <1>2, <1>3, <2>1, <2>2
<1>5. \A i \in 1 .. Unread - 1 : SlotOf(start', i - 1) = SlotOf(start, i)
  BY <1>0, <1>2, <1>3, CapAssumption DEF SlotOf, Indices
<1>6. \A i \in 0 .. Unread - 1 : SlotOf(start, i) \in Slots
  BY <1>0, <1>3, CapAssumption DEF SlotOf, Indices, Slots
<1> DEFINE q == MappedQueue
           r == MappedQueue'
<1>7. /\ q = [i \in 1 .. Unread |-> <<buffer[SlotOf(start, i - 1)], stamp[SlotOf(start, i - 1)]>>]
      /\ r = [i \in 1 .. Unread - 1 |-> <<buffer[SlotOf(start', i - 1)], stamp[SlotOf(start', i - 1)]>>]
  <2>1. q = [i \in 1 .. Unread |-> <<buffer[SlotOf(start, i - 1)], stamp[SlotOf(start, i - 1)]>>]
    BY <1>0, ContentsAre DEF MappedQueue, Unread
  <2>2. r = [i \in 1 .. Unread' |-> <<buffer'[SlotOf(start', i - 1)], stamp'[SlotOf(start', i - 1)]>>]
    BY <1>0, <1>1, ContentsAre DEF MappedQueue, Unread
  <2> QED BY <1>1, <1>3, <2>1, <2>2
<1> HIDE DEF q, r
<1>8. \A i \in 1 .. Unread : i - 1 \in 0 .. Unread - 1 /\ (i < Unread => i \in 0 .. Unread - 1)
  BY <1>3
<1>9. q \in [1 .. Unread -> Byte \X Nat]
  BY <1>0, <1>6, <1>7, <1>8
<1>10. r \in [1 .. Unread - 1 -> Byte \X Nat]
  <2>1. \A i \in 1 .. Unread - 1 : SlotOf(start', i - 1) \in Slots
    BY <1>3, <1>5, <1>6
  <2> QED BY <1>0, <1>7, <2>1
<1>11. ASSUME NEW i \in 1 .. Unread - 1 PROVE r[i] = q[i + 1]
  <2>1. i + 1 \in 1 .. Unread /\ (i + 1) - 1 = i
    BY <1>3
  <2>2. q[i + 1] = <<buffer[SlotOf(start, i)], stamp[SlotOf(start, i)]>>
    BY <1>7, <2>1
  <2> QED BY <1>5, <1>7, <2>2
<1>12. q # <<>> /\ Head(q) = q[1] /\ r = Tail(q)
  <2> DEFINE n == Unread - 1
  <2>1. n \in Nat /\ Unread = n + 1
    BY <1>3
  <2> HIDE DEF n
  <2>2. q \in [1 .. n + 1 -> Byte \X Nat] /\ r \in [1 .. n -> Byte \X Nat]
        /\ \A i \in 1 .. n : r[i] = q[i + 1]
    BY <1>9, <1>10, <1>11, <2>1 DEF n
  <2> QED BY <2>1, <2>2, TakenSeq
<1>13. q[1] = <<ch, chStamp>>
  <2>1. 1 \in 1 .. Unread /\ 1 - 1 = 0
    BY <1>3
  <2> QED BY <1>2, <1>4, <1>7, <2>1
<1>14. MappedHand = <<>> /\ MappedHand' = << <<ch, chStamp>> >>
  BY <1>1, <1>2 DEF MappedHand, InHand
<1>15. MappedHand' = <<Head(q)>>
  BY <1>12, <1>13, <1>14
<1> QED
  <2> USE DEF q, r
  <2> QED BY <1>12, <1>14, <1>15

\* the handler has stored a press and the buffer is lapped by it, or it has not
LEMMA PutLaps ==
    ASSUME IInv, NEW c, PutKey(c), ~lapped, lapped'
    PROVE  Len(MappedQueue) = CAP - 1
<1>1. Unread = CAP - 1
  BY DEF PutKey, Unread, ringVars, IInv, TypeOK
<1>2. MappedQueue = [i \in 1 .. CAP - 1 |-> <<Contents(buffer, start, end)[i], Contents(stamp, start, end)[i]>>]
  BY <1>1 DEF MappedQueue
<1>3. CAP - 1 \in Nat
  BY CapAssumption
<1> QED BY <1>2, <1>3

(* Every step of the driver is a step of the queue, or none.               *)
LEMMA StepImplements ==
    ASSUME IInv, IInv', HandInv, [Next]_vars
    PROVE  [Queue!Next]_(Queue!vars)
<1>1. /\ Queue!vars = <<MappedQueue, MappedHand, lapped>>
      /\ (Queue!vars)' = <<MappedQueue', MappedHand', lapped'>>
  BY DEF Queue!vars, MappedQueue, MappedHand, Unread
<1>2. /\ Queue!Lost <=> lapped /\ lapped'
      /\ Queue!Lap <=> ~lapped /\ Len(MappedQueue) = CAP - 1 /\ lapped'
      /\ Queue!Take <=> /\ ~lapped /\ MappedHand = <<>> /\ MappedQueue # <<>>
                        /\ MappedHand' = <<Head(MappedQueue)>>
                        /\ MappedQueue' = Tail(MappedQueue) /\ lapped' = lapped
      /\ Queue!Return <=> /\ ~lapped /\ MappedHand # <<>> /\ MappedHand' = <<>>
                          /\ MappedQueue' = MappedQueue /\ lapped' = lapped
      /\ \A k : Queue!Press(k) <=>
                  /\ ~lapped /\ Len(MappedQueue) < CAP
                  /\ MappedQueue' = Append(MappedQueue, k)
                  /\ MappedHand' = MappedHand /\ lapped' = lapped
  BY DEF Queue!Lost, Queue!Lap, Queue!Take, Queue!Return, Queue!Press, MappedQueue, MappedHand,
         Unread
<1>3. ASSUME UNCHANGED <<start, ringVars>>, MappedHand' = MappedHand
      PROVE  (Queue!vars)' = Queue!vars
  <2>1. MappedQueue' = MappedQueue /\ lapped' = lapped
    BY <1>3 DEF MappedQueue, Unread, ringVars
  <2> QED BY <1>1, <1>3, <2>1
<1>4. ASSUME NEW code \in Codes, NEW pressed \in BOOLEAN, kbdhandler(code, pressed)
      PROVE  [Queue!Next]_(Queue!vars)
  <2> DEFINE keyChar == keyboard_us[ShiftAfter(code, pressed)][code]
             queued  == KeyByte(ShiftAfter(code, pressed), code)
  <2>1. UNCHANGED takeVars /\ Wake /\ sent < MaxKeys /\ sent \in Nat
    BY <1>4 DEF kbdhandler, IInv, TypeOK
  <2>2. MappedHand' = MappedHand
    <3>1. InHand' = InHand /\ ch' = ch /\ chStamp' = chStamp
      BY <2>1 DEF InHand, Wake, takeVars
    <3> QED BY <3>1 DEF MappedHand
  <2>3. CASE UNCHANGED ringVars
    BY <1>3, <2>1, <2>2, <2>3 DEF takeVars
  <2>4. CASE ~ UNCHANGED ringVars
    <3>1. pressed /\ keyChar # KEY_NULL /\ PutKey(queued)
      BY <1>4, <2>4 DEF kbdhandler
    <3>2. queued \in Byte /\ queued # KEY_NULL
      BY <3>1, KeyByteIs DEF IInv, TypeOK
    <3>3. <<queued, sent + 1>> \in Key
      <4>1. ShiftAfter(code, pressed) \in BOOLEAN
        BY DEF ShiftAfter, IInv, TypeOK
      <4>2. sent + 1 \in 1 .. MaxKeys
        BY <2>1, KeyboardAssumption
      <4> QED BY <4>1, <4>2 DEF Key
    <3> HIDE DEF keyChar, queued
    <3>4. CASE lapped
      <4>1. lapped'
        BY <3>1, <3>4 DEF PutKey, ringVars
      <4> QED BY <1>2, <3>4, <4>1 DEF Queue!Next
    <3>5. CASE ~lapped /\ lapped'
      BY <1>2, <3>1, <3>5, PutLaps DEF Queue!Next
    <3>6. CASE ~lapped'
      <4>1. /\ ~lapped /\ Len(MappedQueue) < CAP
            /\ MappedQueue' = Append(MappedQueue, <<queued, sent + 1>>)
        BY <2>1, <2>4, <3>1, <3>2, <3>6, PutJoinsQueue
      <4>2. lapped' = lapped
        BY <3>6, <4>1 DEF IInv, TypeOK
      <4>3. PICK k \in Key : k = <<queued, sent + 1>>
        BY <3>3
      <4>4. Queue!Press(k)
        BY <1>2, <2>2, <4>1, <4>2, <4>3
      <4> QED BY <4>4 DEF Queue!Next
    <3> QED BY <3>4, <3>5, <3>6
  <2> QED BY <2>3, <2>4
<1>5. ASSUME Advance \/ WrapAdvance PROVE [Queue!Next]_(Queue!vars)
  <2>1. lapped' = lapped
    BY <1>5 DEF Advance, WrapAdvance, ringVars
  <2>2. CASE lapped
    BY <1>2, <2>1, <2>2 DEF Queue!Next
  <2>3. CASE ~lapped
    <3>1. Queue!Take
      BY <1>2, <1>5, <2>1, <2>3, AdvanceTakes
    <3> QED BY <3>1 DEF Queue!Next
  <2> QED BY <2>2, <2>3
<1>6. ASSUME Test PROVE [Queue!Next]_(Queue!vars)
  <2>1. /\ UNCHANGED <<start, ringVars, ch, chStamp>> /\ lapped' = lapped
        /\ pc = "test" /\ pc' = IF ch = KEY_NULL THEN "hlt" ELSE "outside"
    BY <1>6 DEF Test, Goto, ringVars
  <2>2. MappedHand' = <<>>
    BY <2>1 DEF MappedHand, InHand
  <2>3. CASE ch = KEY_NULL
    <3>1. MappedHand = <<>>
      BY <2>1, <2>3 DEF MappedHand, InHand
    <3> QED BY <1>3, <2>1, <2>2, <3>1
  <2>4. CASE ch # KEY_NULL
    <3>1. MappedHand # <<>>
      BY <2>1, <2>4 DEF MappedHand, InHand
    <3>2. MappedQueue' = MappedQueue
      BY <2>1 DEF MappedQueue, Unread, ringVars
    <3>3. Queue!Lost \/ Queue!Return
      BY <1>2, <2>1, <2>2, <3>1, <3>2
    <3> QED BY <3>3 DEF Queue!Next
  <2> QED BY <2>3, <2>4
<1>7. ASSUME timerinterrupt \/ Call \/ Check \/ Copy \/ WrapCopy \/ Halt
      PROVE  (Queue!vars)' = Queue!vars
  <2>1. /\ UNCHANGED <<start, ringVars>> /\ pc # "test" /\ (pc' = "test" => ch' = KEY_NULL)
    BY <1>7 DEF timerinterrupt, Call, Check, Copy, WrapCopy, Halt, Goto, takeVars
  <2>2. MappedHand' = <<>> /\ MappedHand = <<>>
    BY <2>1 DEF MappedHand, InHand
  <2> QED BY <1>3, <2>1, <2>2
<1>8. ASSUME UNCHANGED vars PROVE (Queue!vars)' = Queue!vars
  <2>1. UNCHANGED <<start, ringVars>> /\ InHand' = InHand /\ ch' = ch /\ chStamp' = chStamp
    BY <1>8 DEF vars, takeVars, InHand
  <2>2. MappedHand' = MappedHand
    BY <2>1 DEF MappedHand
  <2> QED BY <1>3, <2>1, <2>2
<1> QED BY <1>4, <1>5, <1>6, <1>7, <1>8 DEF Next, kbd_getc_blocking

(* The driver implements the bounded queue of KeyQueue until the buffer is *)
(* lapped: presses come out oldest first, each once and with its byte.     *)
THEOREM KeyboardImplementsQueue == Spec => ImplementsKeyQueue
<1>1. Init => Queue!Init
  <2> SUFFICES ASSUME Init PROVE Queue!Init
    OBVIOUS
  <2>1. Unread = 0 /\ InHand = 0 /\ ~lapped
    BY DEF Init, Unread, ringbuf_len, InHand
  <2>2. MappedQueue = <<>> /\ MappedHand = <<>>
    BY <2>1 DEF MappedQueue, MappedHand
  <2> QED BY <2>1, <2>2 DEF Queue!Init, MappedQueue, MappedHand, Unread
<1>2. Init => HandInv
  BY DEF Init, HandInv
<1>3. IInv /\ HandInv /\ [Next]_vars => HandInv'
  <2>1. UNCHANGED vars /\ HandInv => HandInv'
    BY DEF vars, HandInv, ringVars, takeVars
  <2> QED BY <2>1, HandStep
<1>4. IInv /\ IInv' /\ HandInv /\ [Next]_vars => [Queue!Next]_(Queue!vars)
  BY StepImplements
<1> QED BY <1>1, <1>2, <1>3, <1>4, IInvHolds, PTL DEF Spec, ImplementsKeyQueue, Queue!Spec
=============================================================================
