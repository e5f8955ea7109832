------------------------------ MODULE MCShell ------------------------------
(***************************************************************************)
(* A screen of three rows, commands of one letter, and programs that print *)
(* nothing, a part of a row, and characters that move the cursor.          *)
(***************************************************************************)
EXTENDS Shell

MCDirs    == {<<"/">>, <<"/", "a">>}
MCOutputs == {<<>>, <<"o">>, <<"\n", "bs">>, <<"\t", "o", "o", "\r">>, <<"o", "\n", "\n">>}
=============================================================================
