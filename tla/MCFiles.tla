------------------------------ MODULE MCFiles ------------------------------
(* Files are alike and so are handles.                                     *)
EXTENDS Files, TLC

Alike == Permutations(Names) \cup Permutations(Handles)
=============================================================================
