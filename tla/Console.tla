------------------------------ MODULE Console ------------------------------
(***************************************************************************)
(* The screen, kernel/graphics/printf.c: video memory as a record of the   *)
(* characters, the cells that have the cursor's color and the cursor.  The *)
(* text color never changes while programs run, and a number or a string   *)
(* is printed as its characters.                                           *)
(***************************************************************************)
EXTENDS Integers, Sequences, SequencesExt

CONSTANTS SCREEN_WIDTH, SCREEN_HEIGHT, TAB_WIDTH

ASSUME ConsoleAssumption == /\ {SCREEN_WIDTH, SCREEN_HEIGHT, TAB_WIDTH} \subseteq Nat \ {0}
                            /\ SCREEN_WIDTH % TAB_WIDTH = 0

VARIABLE screen

EMPTY == "empty"
SIZE  == SCREEN_WIDTH * SCREEN_HEIGHT

\* a line feed on the last row moves the cursor to the row behind it before the screen scrolls
Cells == 0 .. SIZE + SCREEN_WIDTH - 1

Column(s) == s.cursor % SCREEN_WIDTH

\* the memory behind the screen keeps what it has
scroll(s) ==
    LET LastRow == SIZE - SCREEN_WIDTH .. SIZE - 1 IN
    [s EXCEPT !.char = [c \in Cells |-> CASE c \in LastRow -> EMPTY
                                          [] c < SIZE - SCREEN_WIDTH -> @[c + SCREEN_WIDTH]
                                          [] OTHER -> @[c]],
              !.lit = {c - SCREEN_WIDTH : c \in @ \cap (SCREEN_WIDTH .. SIZE - 1)} \cup (@ \ (0 .. SIZE - 1))]

move_cursor(s, delta) == [s EXCEPT !.lit = (@ \ {s.cursor}) \cup {s.cursor + delta},
                                   !.cursor = @ + delta]

printf_clear(s) == [s EXCEPT !.char = [c \in Cells |-> IF c < SIZE THEN EMPTY ELSE @[c]],
                             !.lit = @ \ (0 .. SIZE - 1),
                             !.cursor = 0]

\* a character without the cursor's color
Drawn(s, cell, c) == [s EXCEPT !.char[cell] = c, !.lit = @ \ {cell}]

newline(s) == LET down == move_cursor(s, SCREEN_WIDTH) IN move_cursor(down, -Column(down))

(* In column 0 the cursor goes back over empty cells, at most a row.  The  *)
(* step that takes back the overshoot is also taken when there was none:   *)
(* the row before is full, and nothing on it is erased.                    *)
backspace(s) ==
    LET filled == {c \in s.cursor - SCREEN_WIDTH .. s.cursor - 1 : c >= 0 /\ s.char[c] # EMPTY}
        first  == IF filled = {} THEN s.cursor - SCREEN_WIDTH ELSE Max(filled) + 1
        back   == IF Column(s) > 0 THEN s
                  ELSE [(IF first = s.cursor THEN s ELSE move_cursor(s, first - s.cursor))
                           EXCEPT !.cursor = @ + 1]
    IN  IF s.cursor = 0 THEN s ELSE move_cursor(Drawn(back, back.cursor - 1, EMPTY), -1)

tab(s) == LET right == move_cursor(s, TAB_WIDTH) IN move_cursor(right, -(right.cursor % TAB_WIDTH))

Printed(s, c) ==
    CASE c = "\n" -> newline(s)
      [] c = "bs" -> backspace(s)
      [] c = "\t" -> tab(s)
      [] c = "\r" -> move_cursor(s, -Column(s))
      [] OTHER    -> move_cursor(Drawn(s, s.cursor, c), 1)

\* mutant: the screen scrolls when the cursor has left it by more than a cell
OffLate(s) == s.cursor > SIZE

Off(s) == s.cursor >= SIZE

putc(s, c) ==
    LET p == Printed(s, c)
    IN  IF Off(p) THEN move_cursor(scroll(p), SIZE - SCREEN_WIDTH - p.cursor) ELSE p

\* puts without its line feed, putsn and printf, character by character
putsn(s, text) == FoldLeft(putc, s, text)

\* the loader has cleared the screen, and main prints a line
ConsoleInit ==
    screen = putsn([char |-> [c \in Cells |-> EMPTY], lit |-> {}, cursor |-> 0], <<"m", "\n">>)
=============================================================================
