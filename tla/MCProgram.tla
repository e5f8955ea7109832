----------------------------- MODULE MCProgram -----------------------------
(* A program as the linker makes it, one with two symbol tables, and one   *)
(* that has relocations but no table for them.                             *)
EXTENDS Program

MCElfs == {[sections |-> <<"symtab", "strtab">>, relocs |-> TRUE],
           [sections |-> <<"symtab", "strtab", "symtab">>, relocs |-> FALSE],
           [sections |-> <<"symtab">>, relocs |-> TRUE]}

MCNames  == {"root", "f", "d", "new"}
MCKinds0 == [n \in MCNames |-> CASE n = "root" -> "root" [] n = "f" -> "file"
                                 [] n = "d" -> "dir" [] OTHER -> "none"]
=============================================================================
