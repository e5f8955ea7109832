------------------------------ MODULE MCPath ------------------------------
(* One letter; the root, /a and /a/a exist, and /... which looks special. *)
EXTENDS Path

MCExisting == {<<>>, <<<<"a">>>>, <<<<"a">>, <<"a">>>>, <<<<".", ".", ".">>>>}
=============================================================================
