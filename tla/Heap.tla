-------------------------------- MODULE Heap --------------------------------
(***************************************************************************)
(* The block allocator kernel/memory/librmalloc.h, which manages the       *)
(* kernel's heap (rm_global_ctx) and, inside a block of it, each program's *)
(* own (malloc_context).  The list of blocks is a sequence in the order of *)
(* the `next` pointers; a block is known by the address of its header, a   *)
(* pointer a caller holds is that address plus HDR.  The two loops that    *)
(* merge blocks, in rm_combine_blocks and rm_try_grow_block, run one       *)
(* iteration per action.  Callers free and resize any pointer they hold,   *)
(* and may pass rm_free an address that is no block of theirs.             *)
(***************************************************************************)
EXTENDS Integers, Sequences, FiniteSets

CONSTANTS SIZE,      \* bytes given to rm_init_block
          CTX,       \* bytes of rm_ctx_t before its first block's header
          HDR,       \* sizeof(rm_block_t)
          ALIGNMENT,
          Requests   \* sizes callers ask for

ASSUME HeapAssumption ==
    /\ {SIZE, CTX, HDR, ALIGNMENT} \subseteq Nat \ {0}
    /\ SIZE > CTX + HDR
    /\ (SIZE - CTX - HDR) % ALIGNMENT = 0 /\ HDR % ALIGNMENT = 0
    /\ Requests \subseteq Nat  \* below 2^32 - ALIGNMENT, where ALIGN would wrap

VARIABLES
    blocks, \* the list: records of the header's address, size and free
    pc,     \* "idle", or the loop the allocator is in
    iter,   \* rm_combine_blocks: index of iter
    grown,  \* rm_realloc: address of the block it tries to grow
    want,   \* rm_realloc: new_size
    (*---------------------------------------------------------------------*)
    live    \* what the callers hold: address of the block |-> size asked for

callVars == <<iter, grown, want>>
vars     == <<blocks, pc, callVars, live>>

Addresses == CTX .. SIZE - 1

\* rm_init_block
Init == /\ blocks = <<[at |-> CTX, size |-> SIZE - CTX - HDR, free |-> TRUE]>>
        /\ pc = "idle"
        /\ iter = 0 /\ grown = 0 /\ want = 0
        /\ live = <<>>

-----------------------------------------------------------------------------
(* Operations on a list of blocks.                                         *)

ALIGN(n) == ((n + ALIGNMENT - 1) \div ALIGNMENT) * ALIGNMENT

HasNext(s, k)  == k < Len(s)
NextFree(s, k) == HasNext(s, k) /\ s[k + 1].free

\* mutant: the header of the block taken in is lost
AbsorbBytesOnly(s, k) ==
    SubSeq(s, 1, k - 1)
        \o <<[s[k] EXCEPT !.size = @ + s[k + 1].size]>>
        \o SubSeq(s, k + 2, Len(s))

\* block k takes in the block behind it
Absorb(s, k) ==
    SubSeq(s, 1, k - 1)
        \o <<[s[k] EXCEPT !.size = @ + HDR + s[k + 1].size]>>
        \o SubSeq(s, k + 2, Len(s))

\* block k keeps n bytes, a free block behind it gets the others
Cut(s, k, n) ==
    SubSeq(s, 1, k - 1)
        \o <<[s[k] EXCEPT !.size = n],
             [at |-> s[k].at + HDR + n, size |-> s[k].size - n - HDR, free |-> TRUE]>>
        \o SubSeq(s, k + 1, Len(s))

rm_try_split_block(s, k, size) ==
    IF s[k].size >= ALIGN(size) + HDR + ALIGNMENT
    THEN LET cut == Cut(s, k, ALIGN(size))
         IN IF NextFree(cut, k + 1) THEN Absorb(cut, k + 1) ELSE cut
    ELSE s

Fitting(s, size) == {k \in 1 .. Len(s) : s[k].free /\ s[k].size >= size}

\* the first of the smallest that fit
rm_find_best_block(s, size) ==
    CHOOSE k \in Fitting(s, size) :
        \A j \in Fitting(s, size) : s[k].size < s[j].size \/ (s[k].size = s[j].size /\ k <= j)

\* mutant: the block is left marked free
AllocStaysFree(s, size) ==
    LET k == rm_find_best_block(s, ALIGN(size)) IN rm_try_split_block(s, k, ALIGN(size))

\* the list after an rm_alloc that finds a block
Alloced(s, size) ==
    LET k == rm_find_best_block(s, ALIGN(size))
        t == rm_try_split_block(s, k, ALIGN(size))
    IN [t EXCEPT ![k].free = FALSE]
AllocedAt(s, size) == s[rm_find_best_block(s, ALIGN(size))].at

BlockStarts(s) == {s[k].at : k \in 1 .. Len(s)}
IndexOf(s, p)  == CHOOSE k \in 1 .. Len(s) : s[k].at = p
Freed(s, p)    == [s EXCEPT ![IndexOf(s, p)].free = TRUE]

Holding(f, p, n) == [q \in DOMAIN f \cup {p} |-> IF q = p THEN n ELSE f[q]]
Dropping(f, p)   == [q \in DOMAIN f \ {p} |-> f[q]]

-----------------------------------------------------------------------------
(* The calls.                                                              *)

rm_alloc(n) ==
    /\ pc = "idle"
    /\ Fitting(blocks, ALIGN(n)) # {}
    /\ blocks' = Alloced(blocks, n)
    /\ live' = Holding(live, AllocedAt(blocks, n), n)
    /\ UNCHANGED <<pc, callVars>>

\* NULL, errno = ENOMEM
AllocFails(n) ==
    /\ pc = "idle"
    /\ Fitting(blocks, ALIGN(n)) = {}
    /\ UNCHANGED vars

(* rm_is_ptr_valid looks for p among the blocks, free ones included: to    *)
(* free a pointer twice does no harm as long as nobody got the block anew. *)
rm_free(p) ==
    /\ pc = "idle"
    /\ p \in BlockStarts(blocks)
    /\ blocks' = Freed(blocks, p)
    /\ live' = Dropping(live, p)
    /\ pc' = "combine" /\ iter' = 1
    /\ UNCHANGED <<grown, want>>

\* "warning: invalid pointer"
FreeInvalid(p) ==
    /\ pc = "idle"
    /\ p \notin BlockStarts(blocks)
    /\ UNCHANGED vars

\* mutant: the list is left as it is behind a merge
CombineOnce ==
    /\ pc = "combine"
    /\ HasNext(blocks, iter)
    /\ iter' = iter + 1
    /\ blocks' = IF blocks[iter].free /\ blocks[iter + 1].free
                 THEN Absorb(blocks, iter) ELSE blocks
    /\ UNCHANGED <<pc, grown, want, live>>

\* one iteration of rm_combine_blocks
CombineStep ==
    /\ pc = "combine"
    /\ HasNext(blocks, iter)
    /\ IF blocks[iter].free /\ blocks[iter + 1].free
       THEN blocks' = Absorb(blocks, iter) /\ iter' = iter
       ELSE blocks' = blocks /\ iter' = iter + 1
    /\ UNCHANGED <<pc, grown, want, live>>

CombineEnd ==
    /\ pc = "combine"
    /\ ~HasNext(blocks, iter)
    /\ pc' = "idle" /\ iter' = 0
    /\ UNCHANGED <<blocks, grown, want, live>>

\* rm_realloc to a smaller size, or the block's own
Shrink(p, n) ==
    /\ pc = "idle"
    /\ p \in DOMAIN live
    /\ LET k == IndexOf(blocks, p)
       IN /\ n <= blocks[k].size
          /\ blocks' = IF n = blocks[k].size THEN blocks ELSE rm_try_split_block(blocks, k, n)
    /\ live' = [live EXCEPT ![p] = n]
    /\ UNCHANGED <<pc, callVars>>

\* rm_realloc to a larger one
Grow(p, n) ==
    /\ pc = "idle"
    /\ p \in DOMAIN live
    /\ n > blocks[IndexOf(blocks, p)].size
    /\ pc' = "grow" /\ grown' = p /\ want' = n
    /\ UNCHANGED <<blocks, iter, live>>

GrowIndex == IndexOf(blocks, grown)
Grows     == NextFree(blocks, GrowIndex) /\ blocks[GrowIndex].size < ALIGN(want)

\* one iteration of rm_try_grow_block
GrowStep ==
    /\ pc = "grow"
    /\ Grows
    /\ blocks' = Absorb(blocks, GrowIndex)
    /\ UNCHANGED <<pc, callVars, live>>

GrowEnd ==
    /\ pc = "grow" /\ ~Grows
    /\ blocks[GrowIndex].size >= ALIGN(want)
    /\ blocks' = rm_try_split_block(blocks, GrowIndex, want)
    /\ live' = [live EXCEPT ![grown] = want]
    /\ pc' = "idle" /\ grown' = 0 /\ want' = 0
    /\ UNCHANGED iter

\* rm_alloc, the copy, rm_free of the old block
Move ==
    /\ pc = "grow" /\ ~Grows
    /\ blocks[GrowIndex].size < ALIGN(want)
    /\ Fitting(blocks, ALIGN(want)) # {}
    /\ blocks' = Freed(Alloced(blocks, want), grown)
    /\ live' = Dropping(Holding(live, AllocedAt(blocks, want), want), grown)
    /\ pc' = "combine" /\ iter' = 1 /\ grown' = 0 /\ want' = 0

\* NULL; the block keeps what it has absorbed
MoveFails ==
    /\ pc = "grow" /\ ~Grows
    /\ blocks[GrowIndex].size < ALIGN(want)
    /\ Fitting(blocks, ALIGN(want)) = {}
    /\ pc' = "idle" /\ grown' = 0 /\ want' = 0
    /\ UNCHANGED <<blocks, iter, live>>

Next == \/ \E n \in Requests : rm_alloc(n) \/ AllocFails(n)
        \/ \E p \in Addresses : rm_free(p) \/ FreeInvalid(p)
        \/ \E p \in DOMAIN live, n \in Requests : Shrink(p, n) \/ Grow(p, n)
        \/ CombineStep \/ CombineEnd
        \/ GrowStep \/ GrowEnd \/ Move \/ MoveFails

Spec == Init /\ [][Next]_vars

-----------------------------------------------------------------------------
(* Properties.                                                             *)

(* Every variable has its type; a loop's block is in the list.             *)
TypeOK ==
    /\ blocks \in Seq([at : Addresses, size : Nat, free : BOOLEAN])
    /\ pc \in {"idle", "combine", "grow"}
    /\ iter \in 0 .. Len(blocks)
    /\ pc = "grow" => grown \in DOMAIN live
    /\ want \in Nat
    /\ DOMAIN live \subseteq Addresses
    /\ \A p \in DOMAIN live : live[p] \in Nat

(* The blocks cover the memory from the context's end to SIZE without gap  *)
(* or overlap, headers included, and every size is aligned: splitting,     *)
(* merging, growing and freeing anything in any order lose no byte and let *)
(* no block reach into the next (librmalloc.h:130-186).                    *)
BlocksTile ==
    /\ TypeOK
    /\ Len(blocks) > 0
    /\ blocks[1].at = CTX
    /\ \A k \in 1 .. Len(blocks) : blocks[k].size % ALIGNMENT = 0
    /\ \A k \in 1 .. Len(blocks) :
          blocks[k].at + HDR + blocks[k].size =
              IF HasNext(blocks, k) THEN blocks[k + 1].at ELSE SIZE

(* A pointer that rm_alloc or rm_realloc returned is that of a block in    *)
(* use with at least the bytes asked for, until it is freed, and every     *)
(* block in use is somebody's (librmalloc.h:288-373).                      *)
LiveBacked ==
    /\ \A p \in DOMAIN live :
          \E k \in 1 .. Len(blocks) : /\ blocks[k].at = p
                                      /\ ~blocks[k].free
                                      /\ blocks[k].size >= live[p]
    /\ \A k \in 1 .. Len(blocks) : ~blocks[k].free => blocks[k].at \in DOMAIN live

(* Between calls no two free blocks are neighbours, so that a request      *)
(* fails only if no run of free bytes could hold it: rm_try_split_block    *)
(* and rm_combine_blocks leave nothing unmerged, whatever was freed and    *)
(* resized before (librmalloc.h:159-163, 317-321).                         *)
NoFragments ==
    pc = "idle" => \A k \in 1 .. Len(blocks) - 1 : ~(blocks[k].free /\ blocks[k + 1].free)

=============================================================================
