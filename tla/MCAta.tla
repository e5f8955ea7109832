------------------------------- MODULE MCAta -------------------------------
(* Two values of a sector are enough to tell an old one from a new one.   *)
EXTENDS Ata

CONSTANTS v, w

MCData == {v, w}
=============================================================================
