------------------------------- MODULE Pages -------------------------------
(***************************************************************************)
(* Physical pages and the kernel's page tables: kernel/memory/kalloc.c and *)
(* virtmem.c, from kallocinit to the calls the running kernel makes.       *)
(* A frame is a physical page, numbered by its address; frame 0 is no      *)
(* frame (NULL, or an empty table entry).  The free list is the sequence   *)
(* of frames reached from freemem.  A loop over a range of virtual pages   *)
(* runs one page per action.  No interrupt handler allocates or maps, so   *)
(* the kernel is the only actor; its other parts, the clients, hold frames *)
(* they got from kalloc and ask for ranges to be mapped and unmapped.      *)
(***************************************************************************)
EXTENDS Integers, Sequences, FiniteSets

CONSTANTS FIRST,     \* the first frame behind the kernel's `end`
          FOURMB,    \* the frame at 4 MB, where entrypgdir's mapping stops
          PHYSTOP,   \* the frame behind the kernel's memory region
          KTABLES,   \* page tables kpginit fills for the addresses above KERNBASE
          VPAGES,    \* bound: virtual pages below KERNBASE, numbered from 0
          PGENTRIES, \* entries of a page table
          HEAP,      \* the range of kallocexpand's heap block, <<first, count>>
          GUARD,     \* the range of its non-writable page
          MaxHeld    \* bound: frames the clients hold at once

VirtPages == 0 .. VPAGES - 1
PDX(v)    == v \div PGENTRIES
Dirs      == {PDX(v) : v \in VirtPages}
Ranges    == {r \in VirtPages \X (1 .. VPAGES) : r[1] + r[2] <= VPAGES}

ASSUME PagesAssumption ==
    /\ {FIRST, FOURMB, PHYSTOP, KTABLES, VPAGES, MaxHeld} \subseteq Nat
    /\ PGENTRIES \in Nat \ {0}
    /\ 0 < FIRST /\ FIRST + KTABLES < FOURMB /\ FOURMB <= PHYSTOP
    /\ {HEAP, GUARD} \subseteq Ranges

Frames == FIRST .. PHYSTOP - 1
NoPage == 0

VARIABLES
    freemem, available, total, \* kalloc.c's list and counters
    kpgdir,      \* the page directory's frame
    ktables,     \* frames of the page tables above KERNBASE
    pde,         \* frame of the page table of each directory entry below KERNBASE
    pte,         \* frame each virtual page is mapped to (NoPage too where no table is)
    op,          \* "idle", or the loop pg_map_range or pg_unmap_range is in
    from, count, \* its arguments
    i,           \* its loop variable
    phase,       \* how far main.c is
    (*---------------------------------------------------------------------*)
    held,        \* frames the clients got from kalloc and have not freed
    regions      \* ranges pg_map_range has mapped and nobody has unmapped

listVars  == <<freemem, available, total>>
tableVars == <<kpgdir, ktables, pde, pte>>
callVars  == <<op, from, count, i>>
vars      == <<listVars, tableVars, callVars, phase, held, regions>>

Phases == {"kallocinit", "kpginit", "drivers", "heap", "guard", "up"}

Init == /\ freemem = <<>> /\ available = 0 /\ total = 0
        /\ kpgdir = NoPage
        /\ ktables = {}
        /\ pde = [d \in Dirs |-> NoPage]
        /\ pte = [v \in VirtPages |-> NoPage]
        /\ op = "idle" /\ from = 0 /\ count = 0 /\ i = 0
        /\ phase = "kallocinit"
        /\ held = {}
        /\ regions = {}

-----------------------------------------------------------------------------
(* The free list.                                                          *)

\* takes the list's first frame f
kalloc(f) == /\ freemem # <<>>
             /\ f = Head(freemem)
             /\ freemem' = Tail(freemem)
             /\ available' = available - 1
             /\ UNCHANGED total

\* of a frame the allocator may hold; kfree stops the machine for any other
kfree(f) == /\ freemem' = <<f>> \o freemem
            /\ available' = available + 1
            /\ UNCHANGED total

\* mutant: the loop runs once more
kfreerangePastEnd(start, end) ==
    /\ freemem' = [k \in 1 .. end + 1 - start |-> end + 1 - k] \o freemem
    /\ available' = available + (end + 1 - start)
    /\ total' = total + (end + 1 - start)

\* frees start, start + 1 and so on before end
kfreerange(start, end) ==
    /\ freemem' = [k \in 1 .. end - start |-> end - k] \o freemem
    /\ available' = available + (end - start)
    /\ total' = total + (end - start)

kallocinit ==
    /\ phase = "kallocinit"
    /\ kfreerange(FIRST, FOURMB)
    /\ phase' = "kpginit"
    /\ UNCHANGED <<tableVars, callVars, held, regions>>

\* the directory, then in mappages one table after the other
kpginit ==
    /\ phase = "kpginit"
    /\ kpgdir' = Head(freemem)
    /\ ktables' = {freemem[k] : k \in 2 .. KTABLES + 1}
    /\ freemem' = SubSeq(freemem, KTABLES + 2, Len(freemem))
    /\ available' = available - (KTABLES + 1)
    /\ phase' = "drivers"
    /\ UNCHANGED <<total, pde, pte, callVars, held, regions>>

\* a buffer of fatinit, fileinit or kbdinit, or of elfread
ClientAlloc(f) ==
    /\ op = "idle"
    /\ phase \in {"drivers", "up"}
    /\ Cardinality(held) < MaxHeld
    /\ kalloc(f)
    /\ held' = held \cup {f}
    /\ UNCHANGED <<tableVars, callVars, phase, regions>>

\* mutant: the list's head stays
ClientFreeLost(f) ==
    /\ op = "idle"
    /\ phase = "up"
    /\ f \in held
    /\ available' = available + 1
    /\ held' = held \ {f}
    /\ UNCHANGED <<freemem, total, tableVars, callVars, phase, regions>>

ClientFree(f) ==
    /\ op = "idle"
    /\ phase = "up"
    /\ f \in held
    /\ kfree(f)
    /\ held' = held \ {f}
    /\ UNCHANGED <<tableVars, callVars, phase, regions>>

-----------------------------------------------------------------------------
(* Ranges of virtual pages.                                                *)

Page == from + i

Call(loop, range) == /\ op' = loop
                     /\ from' = range[1] /\ count' = range[2] /\ i' = 0

\* the loop's variables are gone
Leave == /\ op' = "idle"
         /\ from' = 0 /\ count' = 0 /\ i' = 0

\* kallocexpand goes on whatever pg_map_range returns
Return(success) ==
    /\ Leave
    /\ regions' = IF success THEN regions \cup {<<from, count>>} ELSE regions
    /\ phase' = CASE phase = "heap" -> "guard"
                  [] OTHER -> "up"

\* the high memory, then the calls for the heap's block and for its guard page
kallocexpand ==
    /\ op = "idle"
    /\ \/ /\ phase = "drivers"
          /\ kfreerange(FOURMB, PHYSTOP)
          /\ Call("check", HEAP)
          /\ phase' = "heap"
       \/ /\ phase = "guard"
          /\ Call("check", GUARD)
          /\ UNCHANGED <<listVars, phase>>
    /\ UNCHANGED <<tableVars, held, regions>>

pg_map_range(range) ==
    /\ op = "idle"
    /\ phase = "up"
    /\ Call("check", range)
    /\ UNCHANGED <<listVars, tableVars, phase, held, regions>>

\* mutant: the first loop leaves out the range's last page
CheckPageButLast ==
    /\ op = "check" /\ i < count
    /\ i = count - 1 \/ pte[Page] = NoPage
    /\ i' = i + 1
    /\ \/ /\ pde[PDX(Page)] # NoPage
          /\ UNCHANGED <<listVars, pde>>
       \/ /\ pde[PDX(Page)] = NoPage
          /\ \E f \in Frames : kalloc(f) /\ pde' = [pde EXCEPT ![PDX(Page)] = f]
    /\ UNCHANGED <<kpgdir, ktables, pte, op, from, count, phase, held, regions>>

(* The first loop.  walkpgdir makes the page table that is missing; its    *)
(* entries are cleared, so they hold NoPage as they did without a table.   *)
CheckPage ==
    /\ op = "check" /\ i < count
    /\ pte[Page] = NoPage
    /\ i' = i + 1
    /\ \/ /\ pde[PDX(Page)] # NoPage
          /\ UNCHANGED <<listVars, pde>>
       \/ /\ pde[PDX(Page)] = NoPage
          /\ \E f \in Frames : kalloc(f) /\ pde' = [pde EXCEPT ![PDX(Page)] = f]
    /\ UNCHANGED <<kpgdir, ktables, pte, op, from, count, phase, held, regions>>

CheckFails ==
    /\ op = "check" /\ i < count
    /\ \/ pte[Page] # NoPage
       \/ pde[PDX(Page)] = NoPage /\ freemem = <<>>
    /\ Return(FALSE)
    /\ UNCHANGED <<listVars, tableVars, held>>

CheckDone ==
    /\ op = "check" /\ i = count
    /\ op' = "map"
    /\ i' = 0
    /\ UNCHANGED <<listVars, tableVars, from, count, phase, held, regions>>

\* mutant: pg_map gets the range's first address every time
MapFirstPage ==
    /\ op = "map" /\ i < count
    /\ \E f \in Frames : kalloc(f) /\ pte' = [pte EXCEPT ![from] = f]
    /\ i' = i + 1
    /\ UNCHANGED <<kpgdir, ktables, pde, op, from, count, phase, held, regions>>

(* The second loop: kalloc, then pg_map.  WalksSucceed says that pg_map    *)
(* finds the page's table there and its entry free, so its other branches  *)
(* (a table of its own, NULL dereferenced, FALSE) are not written here.    *)
MapPage ==
    /\ op = "map" /\ i < count
    /\ pde[PDX(Page)] # NoPage /\ pte[Page] = NoPage
    /\ \E f \in Frames : kalloc(f) /\ pte' = [pte EXCEPT ![Page] = f]
    /\ i' = i + 1
    /\ UNCHANGED <<kpgdir, ktables, pde, op, from, count, phase, held, regions>>

\* the pages mapped so far stay mapped
MapFails ==
    /\ op = "map" /\ i < count
    /\ freemem = <<>>
    /\ Return(FALSE)
    /\ UNCHANGED <<listVars, tableVars, held>>

MapDone ==
    /\ op = "map" /\ i = count
    /\ Return(TRUE)
    /\ UNCHANGED <<listVars, tableVars, held>>

\* of a range that its client has had mapped
pg_unmap_range(range) ==
    /\ op = "idle"
    /\ phase = "up"
    /\ range \in regions
    /\ Call("unmap", range)
    /\ regions' = regions \ {range}
    /\ UNCHANGED <<listVars, tableVars, phase, held>>

\* mutant: the entry is not cleared
UnmapPageStays ==
    /\ op = "unmap" /\ i < count
    /\ kfree(pte[Page])
    /\ i' = i + 1
    /\ UNCHANGED <<kpgdir, ktables, pde, pte, op, from, count, phase, held, regions>>

(* WalksSucceed says that the table is there and the entry is present;     *)
(* otherwise the code skips the page, or stops the machine in kfree.       *)
UnmapPage ==
    /\ op = "unmap" /\ i < count
    /\ pde[PDX(Page)] # NoPage /\ pte[Page] # NoPage
    /\ kfree(pte[Page])
    /\ pte' = [pte EXCEPT ![Page] = NoPage]
    /\ i' = i + 1
    /\ UNCHANGED <<kpgdir, ktables, pde, op, from, count, phase, held, regions>>

UnmapDone ==
    /\ op = "unmap" /\ i = count
    /\ Leave
    /\ UNCHANGED <<listVars, tableVars, phase, held, regions>>

Next == \/ kallocinit \/ kpginit \/ kallocexpand
        \/ \E f \in Frames : ClientAlloc(f) \/ ClientFree(f)
        \/ \E r \in Ranges : pg_map_range(r) \/ pg_unmap_range(r)
        \/ CheckPage \/ CheckFails \/ CheckDone
        \/ MapPage \/ MapFails \/ MapDone
        \/ UnmapPage \/ UnmapDone

Spec == Init /\ [][Next]_vars

-----------------------------------------------------------------------------
(* Properties.                                                             *)

(* Every variable has its type; the list holds frames, entries hold frames *)
(* or nothing, a loop stays in the virtual pages it was called for.        *)
TypeOK ==
    /\ freemem \in Seq(Frames)
    /\ {available, total} \subseteq Nat
    /\ kpgdir \in Frames \cup {NoPage}
    /\ ktables \subseteq Frames
    /\ pde \in [Dirs -> Frames \cup {NoPage}]
    /\ pte \in [VirtPages -> Frames \cup {NoPage}]
    /\ op \in {"idle", "check", "map", "unmap"}
    /\ from \in VirtPages /\ count \in Nat /\ i \in 0 .. count
    /\ from + count <= VPAGES
    /\ phase \in Phases
    /\ held \subseteq Frames
    /\ regions \subseteq Ranges

FreeFrames   == {freemem[k] : k \in 1 .. Len(freemem)}
TableFrames  == {pde[d] : d \in Dirs} \ {NoPage}
MappedFrames == {pte[v] : v \in VirtPages} \ {NoPage}
KernelFrames == ktables \cup ({kpgdir} \ {NoPage})

\* the frames the boot code has handed to the allocator
Donated == CASE phase = "kallocinit"            -> {}
             [] phase \in {"kpginit", "drivers"} -> FIRST .. FOURMB - 1
             [] OTHER                            -> Frames

(* No frame is lost and none is used twice: every frame the boot code gave *)
(* to kalloc is in the free list at one place, or is the directory or a    *)
(* table, or is mapped at one virtual page, or is held by a client, and    *)
(* only one of these (kalloc.c:25-71, virtmem.c:51-81 and 157-208).        *)
OneRole ==
    /\ \A j, k \in 1 .. Len(freemem) : freemem[j] = freemem[k] => j = k
    /\ \A c, d \in Dirs : pde[c] = pde[d] /\ pde[c] # NoPage => c = d
    /\ \A u, v \in VirtPages : pte[u] = pte[v] /\ pte[u] # NoPage => u = v
    /\ kpgdir \notin ktables
    /\ KernelFrames \cap (FreeFrames \cup TableFrames \cup MappedFrames \cup held) = {}
    /\ FreeFrames \cap (TableFrames \cup MappedFrames \cup held) = {}
    /\ TableFrames \cap (MappedFrames \cup held) = {}
    /\ MappedFrames \cap held = {}
    /\ FreeFrames \cup TableFrames \cup MappedFrames \cup KernelFrames \cup held = Donated

(* kallocavailable is the length of the list and kalloctotal the number of *)
(* frames there are, whatever sequence of calls ran (kalloc.c:34, 64, 69). *)
CountersHonest ==
    /\ available = Len(freemem)
    /\ total = Cardinality(Donated)

(* In pg_map_range's second loop the table made by the first is there and  *)
(* the entry is still free, so pg_map neither dereferences NULL nor loses  *)
(* the new frame by returning false (virtmem.c:159-162, 184); and          *)
(* pg_unmap_range never hands kfree an empty entry, for which it stops the *)
(* machine (virtmem.c:198-201, kalloc.c:47-50).                            *)
WalksSucceed ==
    /\ op = "map" => \A v \in from + i .. from + count - 1 :
                        pde[PDX(v)] # NoPage /\ pte[v] = NoPage
    /\ op = "unmap" => \A v \in from + i .. from + count - 1 :
                        pde[PDX(v)] # NoPage /\ pte[v] # NoPage

(* A range for which pg_map_range returned true has all its pages until it *)
(* is unmapped, and no page of it is in another such range, so that no     *)
(* call takes a page from under the heap (kalloc.c:95-109, virtmem.c:177). *)
RegionsStayMapped ==
    \A r \in regions :
        /\ \A v \in r[1] .. r[1] + r[2] - 1 : pte[v] # NoPage
        /\ \A q \in regions : q # r => q[1] + q[2] <= r[1] \/ r[1] + r[2] <= q[1]

(* A mapped page keeps its frame: only the unmapping of a range with the   *)
(* page in it changes the entry, and pages a failed call has mapped before *)
(* kalloc ran out stay (virtmem.c:162, 184-185, 206).                      *)
MappingsStable ==
    [][\A v \in VirtPages : pte[v] # NoPage /\ pte'[v] # pte[v]
                            => op = "unmap" /\ v \in from .. from + count - 1]_vars

=============================================================================
