------------------------------ MODULE MCPages ------------------------------
(* A heap of one page with its guard page in the second of two page tables.*)
EXTENDS Pages

MCHeap  == <<3, 1>>
MCGuard == <<4, 1>>
=============================================================================
