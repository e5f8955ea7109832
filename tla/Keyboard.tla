------------------------------ MODULE Keyboard ------------------------------
(***************************************************************************)
(* The keyboard driver, kernel/drivers/kbd.c, from the interrupt that      *)
(* brings a scan code to the caller of kbd_getc_blocking.  Two actors      *)
(* share key_input_buf without a lock:                                     *)
(*   - kbdhandler and timerinterrupt, entered between any two steps of the *)
(*     kernel; the interrupt gates keep interrupts off until they return,  *)
(*     so each is one atomic action;                                       *)
(*   - the kernel, inside kbd_getc_blocking: ringbuf_take with its loads   *)
(*     and stores one at a time, and `hlt`, which ends at an interrupt.    *)
(* Variables below the line record history; no action reads them to decide *)
(* what to do.                                                             *)
(***************************************************************************)
EXTENDS RingBuf

CONSTANTS Codes,        \* the scan codes (bit 7 cleared) the keyboard sends
          keyboard_us,  \* [shift \in BOOLEAN -> [Codes -> Byte]]
          LSHIFT, RSHIFT,
          Garbage,      \* what kalloc left in the buffer's page
          MaxKeys       \* bound: key presses put into the buffer

Byte     == 0 .. 255
KEY_NULL == 0

ASSUME KeyboardAssumption ==
    /\ keyboard_us \in [BOOLEAN -> [Codes -> Byte]]
    /\ {LSHIFT, RSHIFT} \subseteq Codes
    /\ Garbage \in Byte
    /\ MaxKeys \in Nat

VARIABLES
    shift,              \* keyboard.mods, its KEY_MOD_SHIFT bit
    keys,               \* keyboard.keys
    chars,              \* keyboard.chars: the characters of 0..127 it marks as pressed
    buffer, start, end, \* key_input_buf
    pc,                 \* where the kernel is
    ch,                 \* kbd_getc's ch
    endSeen,            \* buf->end as ringbuf_len loaded it
    (*---------------------------------------------------------------------*)
    sent,               \* presses accepted by ringbuf_put
    returned,           \* number of the press kbd_getc_blocking last returned
    stamp,              \* stamp[i]: number of the press in slot i
    chStamp,            \* number of the press in ch
    lapped              \* a put filled the block behind a moved `start`

kbdVars  == <<shift, keys, chars>>
ringVars == <<buffer, end, sent, stamp, lapped>>
takeVars == <<start, ch, endSeen, returned, chStamp>>
vars     == <<kbdVars, ringVars, takeVars, pc>>

Locations == {"outside", "check", "copy", "advance", "wrapcopy", "wrapadvance",
              "test", "hlt", "halted"}

Init == /\ shift = FALSE
        /\ keys = [c \in Codes |-> FALSE]
        /\ chars = {}
        /\ buffer = [i \in Slots |-> Garbage]
        /\ start = 0
        /\ end = 0
        /\ pc = "outside"
        /\ ch = KEY_NULL
        /\ endSeen = 0
        /\ sent = 0
        /\ returned = 0
        /\ stamp = [i \in Slots |-> 0]
        /\ chStamp = 0
        /\ lapped = FALSE

-----------------------------------------------------------------------------
(* Interrupts.                                                             *)

\* an interrupt ends hlt; kbd_getc_blocking then calls kbd_getc again
Wake == pc' = IF pc = "halted" THEN "check" ELSE pc

\* ringbuf_put(&key_input_buf, &key_char, 1)
PutKey(c) ==
    IF ringbuf_space(start, end) < 1
    THEN UNCHANGED ringVars
    ELSE /\ buffer' = PutBuffer(buffer, start, end, <<c>>)
         /\ end' = PutEnd(start, end, 1)
         /\ sent' = sent + 1
         /\ stamp' = PutBuffer(stamp, start, end, <<sent + 1>>)
         /\ lapped' = (lapped \/ (ringbuf_len(start, end) = CAP - 1 /\ start # 0))

\* mutant: a release does not clear the bit
ShiftAfterPressOnly(code, pressed) == shift \/ (code \in {LSHIFT, RSHIFT} /\ pressed)

\* KEY_MOD_SHIFT is the state of whichever shift key moved last
ShiftAfter(code, pressed) == IF code \in {LSHIFT, RSHIFT} THEN pressed ELSE shift

\* the byte that is queued: a special key's code is its own character, and goes above the others
KeyByte(shiftNow, code) ==
    LET keyChar == keyboard_us[shiftNow][code]
    IN  IF code = keyChar /\ keyChar < 128 THEN keyChar + 128 ELSE keyChar

(* The handler looks the character up after it has updated the shift bit.  *)
(* keyboard.chars has 128 elements; the store at a special key's character *)
(* (>= 128) falls behind the structure and changes nothing kept here.      *)
kbdhandler(code, pressed) ==
    LET shiftNow == ShiftAfter(code, pressed)
        keyChar  == keyboard_us[shiftNow][code]
    IN  /\ sent < MaxKeys
        /\ shift' = shiftNow
        /\ keys' = [keys EXCEPT ![code] = pressed]
        /\ chars' = IF pressed THEN chars \cup ({keyChar} \cap 0 .. 127) ELSE chars \ {keyChar}
        /\ IF pressed /\ keyChar # KEY_NULL THEN PutKey(KeyByte(shiftNow, code)) ELSE UNCHANGED ringVars
        /\ Wake
        /\ UNCHANGED takeVars

Goto(from, to) == pc = from /\ pc' = to

\* mutant: the timer interrupt is masked
TimerMasked == /\ Goto("halted", "halted")
               /\ UNCHANGED <<kbdVars, ringVars, takeVars>>

\* irq 0 at a kernel that is not halted changes nothing kept here
timerinterrupt == /\ Goto("halted", "check")
                  /\ UNCHANGED <<kbdVars, ringVars, takeVars>>

-----------------------------------------------------------------------------
(* kbd_getc_blocking, and inside it kbd_getc and ringbuf_take for 1 byte.  *)

Call == /\ Goto("outside", "check")
        /\ UNCHANGED <<kbdVars, ringVars, takeVars>>

\* bytes_left < len: kbd_getc returns KEY_NULL
Check == /\ ch' = KEY_NULL
         /\ chStamp' = 0
         /\ endSeen' = end
         /\ Goto("check", IF ringbuf_len(start, end) < 1 THEN "test" ELSE "copy")
         /\ UNCHANGED <<kbdVars, ringVars, start, returned>>

\* upper_limit is computed from the `end` already loaded or from a new load
BytesToRead(e) == Least(TakeLimit(start, e) - start, 1)

Copy == \E e \in {end, endSeen} :
           /\ IF BytesToRead(e) = 1
              THEN /\ ch' = buffer[start]
                   /\ chStamp' = stamp[start]
                   /\ Goto("copy", "advance")
              ELSE /\ UNCHANGED <<ch, chStamp>>
                   /\ Goto("copy", "wrapcopy")     \* start += 0
           /\ UNCHANGED <<kbdVars, ringVars, start, endSeen, returned>>

\* mutant: `start` is left behind
AdvanceForgotten == /\ Goto("advance", "test")
                    /\ UNCHANGED <<kbdVars, ringVars, takeVars>>

Advance == /\ Goto("advance", "test")
           /\ start' = start + 1
           /\ UNCHANGED <<kbdVars, ringVars, ch, endSeen, returned, chStamp>>

\* mutant: the wrapped read takes the byte before `start` again
WrapCopyStale == /\ Goto("wrapcopy", "wrapadvance")
                 /\ ch' = buffer[CAP - 1]
                 /\ chStamp' = stamp[CAP - 1]
                 /\ UNCHANGED <<kbdVars, ringVars, start, endSeen, returned>>

WrapCopy == /\ Goto("wrapcopy", "wrapadvance")
            /\ ch' = buffer[0]
            /\ chStamp' = stamp[0]
            /\ UNCHANGED <<kbdVars, ringVars, start, endSeen, returned>>

WrapAdvance == /\ Goto("wrapadvance", "test")
               /\ start' = 1
               /\ UNCHANGED <<kbdVars, ringVars, ch, endSeen, returned, chStamp>>

Test == /\ Goto("test", IF ch = KEY_NULL THEN "hlt" ELSE "outside")
        /\ returned' = IF ch = KEY_NULL THEN returned ELSE chStamp
        /\ UNCHANGED <<kbdVars, ringVars, start, ch, endSeen, chStamp>>

Halt == /\ Goto("hlt", "halted")
        /\ UNCHANGED <<kbdVars, ringVars, takeVars>>

kbd_getc_blocking == \/ Call \/ Check \/ Copy \/ Advance
                     \/ WrapCopy \/ WrapAdvance \/ Test \/ Halt

Next == \/ \E code \in Codes, pressed \in BOOLEAN : kbdhandler(code, pressed)
        \/ timerinterrupt
        \/ kbd_getc_blocking

(* The processor keeps executing the kernel, which keeps asking for keys   *)
(* (the shell's loop), and the timer never stops: timersethz programs a    *)
(* periodic 1000 Hz.  Nothing makes anybody press a key.                   *)
Spec == Init /\ [][Next]_vars /\ WF_vars(kbd_getc_blocking) /\ WF_vars(timerinterrupt)

-----------------------------------------------------------------------------
(* Properties.                                                             *)

TypeOK == /\ shift \in BOOLEAN
          /\ keys \in [Codes -> BOOLEAN]
          /\ chars \in SUBSET (0 .. 127)
          /\ buffer \in [Slots -> Byte]
          /\ start \in Indices
          /\ end \in Indices
          /\ pc \in Locations
          /\ ch \in Byte
          /\ endSeen \in Indices
          /\ sent \in Nat
          /\ returned \in Nat
          /\ stamp \in [Slots -> Nat]
          /\ chStamp \in Nat
          /\ lapped \in BOOLEAN

\* ringbuf_take is done and its byte is on its way to the caller
InHand == IF pc = "test" /\ ch # KEY_NULL THEN 1 ELSE 0

(* No press is lost or doubled while the buffer has never been lapped:     *)
(* every press the handler queued is in the buffer, in kbd_getc's hands or *)
(* returned, wherever the interrupt fell inside ringbuf_take.              *)
KeysAccountedFor == ~lapped => sent - returned = ringbuf_len(start, end) + InHand

Returns == pc = "test" /\ pc' = "outside"

(* Presses are returned in the order they were made and none twice, even   *)
(* once the handler has lapped the reader; before that none is skipped.    *)
ReturnsInOrder ==
    [][Returns => returned' > returned /\ (~lapped => returned' = returned + 1)]_vars

(* The shift bit never outlives the shift keys: it is one bit for both, so *)
(* a release of either must clear it.                                      *)
ShiftBitMeansShiftHeld == shift => keys[LSHIFT] \/ keys[RSHIFT]

(* A press that was queued is returned, although the kernel decides to     *)
(* halt some steps before it halts and the interrupt that queued the key   *)
(* may fall between: the timer ends that halt.                             *)
EveryKeyArrives == \A i \in 1 .. MaxKeys : sent >= i ~> (returned >= i \/ lapped)

(* The driver implements the abstract key queue: a press joins the queue   *)
(* when the handler has stored it and leaves it when ringbuf_take moves    *)
(* `start`, always the oldest first and with its own character.            *)
Key == {KeyByte(b, c) : b \in BOOLEAN, c \in Codes} \X (1 .. MaxKeys)

Queue == INSTANCE KeyQueue WITH
    queue <- [i \in 1 .. ringbuf_len(start, end) |->
                 <<Contents(buffer, start, end)[i], Contents(stamp, start, end)[i]>>],
    hand  <- IF InHand = 1 THEN << <<ch, chStamp>> >> ELSE <<>>

ImplementsKeyQueue == Queue!Spec
=============================================================================
