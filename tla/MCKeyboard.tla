----------------------------- MODULE MCKeyboard -----------------------------
(* Keyboard with the scan codes of both shift keys and of 'a'.             *)
EXTENDS Keyboard

AsciiCodes  == {42, 54, 30}
AsciiLayout == [s \in BOOLEAN |-> [c \in AsciiCodes |-> IF c # 30 THEN 0 ELSE IF s THEN 65 ELSE 97]]
=============================================================================
