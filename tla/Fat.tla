-------------------------------- MODULE Fat --------------------------------
(***************************************************************************)
(* The kernel's file allocation table, kernel/disk/fat.c: FATCOUNT copies  *)
(* of FATSIZE sectors on the disk, a window of at most CACHE sectors of it *)
(* in memory, and the calls that file.c makes:                             *)
(*   Create   dircreatefile: find a free cluster and make it a chain       *)
(*   Grow     fileresize:    fatallocclusters behind a chain's last cluster*)
(*   Shrink   fileresize:    fatdeallocclusters from a cluster of a chain  *)
(* each followed by fatcommit.  The loops run one iteration per action.    *)
(* The kernel is the only user of the table, and no interrupt handler      *)
(* touches it.                                                             *)
(***************************************************************************)
EXTENDS Integers, Sequences, FiniteSets

CONSTANTS EPS,       \* ENTRIES_PER_SECTOR
          FATSIZE,   \* _vbootsector->fatsize32: sectors of one copy
          FATCOUNT,  \* _vbootsector->fatcount
          CACHE,     \* FAT_CACHE_SIZE
          UINT,      \* 2^32, where uint32_t wraps (TLC's integers need it smaller)
          MaxUsed,   \* bound: with more clusters in use than this no call asks for more
          MaxCount   \* bound: clusters one Grow asks for

FREE == 0             \* FEFREE
END  == 268435448     \* FEEND32L, 0x0FFFFFF8
ROOT == 2             \* the root directory's cluster

ASSUME FatAssumption ==
    /\ {EPS, FATSIZE, FATCOUNT, CACHE} \subseteq Nat \ {0}
    /\ {MaxUsed, MaxCount} \subseteq Nat
    /\ EPS * FATSIZE \in 4 .. END - 1
    /\ UINT \in Nat /\ UINT > 4 * EPS * FATSIZE

EntryCount == EPS * FATSIZE
Entries    == 0 .. EntryCount - 1
Clusters   == 2 .. EntryCount - 1
Copies     == 1 .. FATCOUNT

IsEnd(v) == v >= END

VARIABLES
    disk,               \* the copies on the disk
    buf, win, nsec,     \* _fatcache.buffer, .startingsector, .sectorsbuffered
    dirty,              \* _fatcache.dirty
    search,             \* _fatsearch.start
    pc,                 \* the loop or call the kernel is in
    cur, left,          \* fatfindfreecluster: current, possible_entries_left
    found,              \* fatfindfreecluster: its result
    top, count,         \* fatallocclusters: top, clustersleft
    next, first,        \* fatdeallocclusters: nextcluster, start
    (*---------------------------------------------------------------------*)
    table,              \* every fatsetcluster applied to a plain array
    chains, work,       \* the chains the callers know; the one being changed
    torn                \* chains whose last cluster leads to one that is not theirs

cacheVars == <<disk, buf, win, nsec, dirty, search, table>>
findVars  == <<cur, left, found>>
allocVars == <<top, count>>
freeVars  == <<next, first>>
ghostVars == <<chains, work, torn>>
vars      == <<cacheVars, findVars, allocVars, freeVars, ghostVars, pc>>

\* mkfat's disk: the reserved entries 0 and 1, and a root directory of one cluster
EmptyTable == [e \in Entries |-> IF e \in 0 .. ROOT THEN END ELSE FREE]

SectorsFrom(sector) == IF FATSIZE - sector < CACHE THEN FATSIZE - sector ELSE CACHE
WindowAt(d, sector) == [i \in 0 .. EPS * SectorsFrom(sector) - 1 |-> d[1][sector * EPS + i]]

\* fatinit, ending in fatcache(0, 0)
Init == /\ disk = [k \in Copies |-> EmptyTable]
        /\ win = 0
        /\ nsec = SectorsFrom(0)
        /\ buf = WindowAt(disk, 0)
        /\ dirty = FALSE
        /\ search = 2
        /\ pc = "idle"
        /\ cur = 0 /\ left = 0 /\ found = 0
        /\ top = 0 /\ count = 0
        /\ next = 0 /\ first = 0
        /\ table = EmptyTable
        /\ chains = {<<ROOT>>}
        /\ work = <<>>
        /\ torn = {}

-----------------------------------------------------------------------------
(* The window.                                                             *)

FirstEntry == win * EPS
Held(e) == e >= FirstEntry /\ e < FirstEntry + EPS * nsec

(* fatclustervalue and fatsetcluster use the window if it holds the entry  *)
(* and if fatcache has refused to move it because the entry is behind the  *)
(* table's end.                                                            *)
Served(e) == Held(e) \/ e \div EPS >= FATSIZE

Slot(e) == e % (EPS * nsec)
fatclustervalue(e) == buf[Slot(e)]

\* the buffer is written to every copy at the window's place
Committed ==
    IF dirty
    THEN [k \in Copies |->
             [e \in Entries |-> IF Held(e) THEN buf[e - FirstEntry] ELSE disk[k][e]]]
    ELSE disk

fatcommit == /\ disk' = Committed
             /\ dirty' = FALSE
             /\ UNCHANGED <<buf, win, nsec, search, table>>

\* mutant: the dirty window is dropped instead of written back
fatcacheNoCommit(sector) ==
    /\ disk' = disk
    /\ win' = sector
    /\ nsec' = SectorsFrom(sector)
    /\ buf' = WindowAt(disk', sector)
    /\ dirty' = FALSE
    /\ UNCHANGED <<search, table>>

\* fatcache(0, sector), for a sector of the table
fatcache(sector) ==
    /\ disk' = Committed
    /\ win' = sector
    /\ nsec' = SectorsFrom(sector)
    /\ buf' = WindowAt(disk', sector)
    /\ dirty' = FALSE
    /\ UNCHANGED <<search, table>>

\* mutant: the search start stays behind a freed cluster
fatsetclusterKeepStart(e, v) ==
    /\ buf' = [buf EXCEPT ![Slot(e)] = v]
    /\ dirty' = TRUE
    /\ search' = search
    /\ table' = IF e \in Entries THEN [table EXCEPT ![e] = v] ELSE table
    /\ UNCHANGED <<disk, win, nsec>>

fatsetcluster(e, v) ==
    /\ buf' = [buf EXCEPT ![Slot(e)] = v]
    /\ dirty' = TRUE
    /\ search' = IF v = FREE /\ e < search THEN (e - 1) % UINT ELSE search
    /\ table' = IF e \in Entries THEN [table EXCEPT ![e] = v] ELSE table
    /\ UNCHANGED <<disk, win, nsec>>

\* the entry the kernel is about to read or write, if any
Wanted == CASE pc \in {"findForCreate", "findForGrow"} /\ left > 0 -> {cur}
            [] pc = "create" /\ found # 0                          -> {found}
            [] pc \in {"link", "sealGrown"}                        -> {top}
            [] pc = "freeing"                                      -> {next}
            [] pc \in {"shrink", "sealShrunk"}                     -> {first}
            [] OTHER                                               -> {}

MoveWindow == \E e \in Wanted :
                 /\ ~Served(e)
                 /\ fatcache(e \div EPS)
                 /\ UNCHANGED <<findVars, allocVars, freeVars, ghostVars, pc>>

-----------------------------------------------------------------------------
(* fatfindfreecluster.                                                     *)

Finding == pc \in {"findForCreate", "findForGrow"}
AfterFind == IF pc = "findForCreate" THEN "create" ELSE "link"

\* sizeof(fat_entry_t) is 4; the subtraction is unsigned
EntriesLeft(start) == (EntryCount - start * 4) % UINT

StartFind(label) == /\ pc' = label
                    /\ cur' = search
                    /\ left' = EntriesLeft(search)
                    /\ found' = 0

FindStep == /\ Finding /\ left > 0 /\ Served(cur)
            /\ left' = IF fatclustervalue(cur) = FREE THEN 0 ELSE left - 1
            /\ IF fatclustervalue(cur) = FREE
               THEN /\ search' = cur + 1
                    /\ found' = cur
                    /\ pc' = AfterFind
                    /\ cur' = 0
               ELSE /\ cur' = cur + 1
                    /\ UNCHANGED <<search, found, pc>>
            /\ UNCHANGED <<disk, buf, win, nsec, dirty, table>>
            /\ UNCHANGED <<allocVars, freeVars, ghostVars>>

\* errno = ENOSPC
FindFail == /\ Finding /\ left = 0
            /\ search' = EntryCount
            /\ found' = 0
            /\ pc' = AfterFind
            /\ cur' = 0
            /\ UNCHANGED <<disk, buf, win, nsec, dirty, table>>
            /\ UNCHANGED <<left, allocVars, freeVars, ghostVars>>

-----------------------------------------------------------------------------
(* The calls.                                                              *)

Used == {e \in Clusters : table[e] # FREE}

(* Nobody calls again after a refusal before something is freed: the       *)
(* search would then run off the end of the table.                         *)
Create == /\ pc = "idle" /\ Cardinality(Used) <= MaxUsed /\ search < EntryCount
          /\ StartFind("findForCreate")
          /\ UNCHANGED <<cacheVars, allocVars, freeVars, ghostVars>>

CreateEnd == /\ pc = "create" /\ found # 0 /\ Served(found)
             /\ fatsetcluster(found, END)
             /\ pc' = "commit"
             /\ work' = <<found>>
             /\ UNCHANGED <<findVars, allocVars, freeVars, chains, torn>>

\* dircreatefile returns -1
CreateFails == /\ pc = "create" /\ found = 0
               /\ pc' = "idle"
               /\ UNCHANGED <<cacheVars, findVars, allocVars, freeVars, ghostVars>>

\* fatallocclusters(file->lastcluster, n)
Grow(ch, n) == /\ pc = "idle" /\ Cardinality(Used) <= MaxUsed /\ search < EntryCount
               /\ top' = ch[Len(ch)]
               /\ count' = n
               /\ StartFind("findForGrow")
               /\ chains' = chains \ {ch}
               /\ work' = ch
               /\ UNCHANGED <<cacheVars, freeVars, torn>>

\* the clusters that are then the chain's
Linked == IF found = 0 THEN SubSeq(work, 1, Len(work) - 1) ELSE Append(work, found)

\* mutant: the new cluster is linked behind the chain's old end every time
LinkOldEnd == /\ pc = "link" /\ Served(top)
              /\ fatsetcluster(top, found)
              /\ top' = IF count > 1 THEN top ELSE found
              /\ count' = count - 1
              /\ work' = Linked
              /\ IF count > 1
                 THEN /\ pc' = "findForGrow"
                      /\ cur' = search'
                      /\ left' = EntriesLeft(search')
                      /\ found' = 0
                 ELSE /\ pc' = "sealGrown"
                      /\ UNCHANGED findVars
              /\ UNCHANGED <<freeVars, chains, torn>>

(* A search that has failed is not noticed: its 0 is the mark of a free    *)
(* entry, so top is freed, and the next search finds it again.             *)
Link == /\ pc = "link" /\ Served(top)
        /\ fatsetcluster(top, found)
        /\ top' = found
        /\ count' = count - 1
        /\ work' = Linked
        /\ IF count > 1
           THEN /\ pc' = "findForGrow"
                /\ cur' = search'
                /\ left' = EntriesLeft(search')
                /\ found' = 0
           ELSE /\ pc' = "sealGrown"
                /\ UNCHANGED findVars
        /\ UNCHANGED <<freeVars, chains, torn>>

\* after such a search, entry 0 gets the end mark
SealGrown == /\ pc = "sealGrown" /\ Served(top)
             /\ fatsetcluster(top, END)
             /\ pc' = "commit"
             /\ UNCHANGED <<findVars, allocVars, freeVars, ghostVars>>

\* fatdeallocclusters(c), c the k-th cluster of a chain
Shrink(ch, k) == /\ pc = "idle"
                 /\ first' = ch[k]
                 /\ pc' = "shrink"
                 /\ chains' = chains \ {ch}
                 /\ work' = SubSeq(ch, 1, k)
                 /\ UNCHANGED <<cacheVars, findVars, allocVars, next, torn>>

ShrinkFrom(v) == IF IsEnd(v) THEN pc' = "sealShrunk" /\ UNCHANGED next
                             ELSE pc' = "freeing" /\ next' = v

ShrinkStart == /\ pc = "shrink" /\ Served(first)
               /\ ShrinkFrom(fatclustervalue(first))
               /\ UNCHANGED <<cacheVars, findVars, allocVars, first, ghostVars>>

\* mutant: nextcluster = value is missing
FreeStepStuck == /\ pc = "freeing" /\ Served(next)
                 /\ fatsetcluster(next, FREE)
                 /\ ShrinkFrom(next)
                 /\ UNCHANGED <<findVars, allocVars, first, ghostVars>>

FreeStep == /\ pc = "freeing" /\ Served(next)
            /\ fatsetcluster(next, FREE)
            /\ ShrinkFrom(fatclustervalue(next))
            /\ UNCHANGED <<findVars, allocVars, first, ghostVars>>

SealShrunk == /\ pc = "sealShrunk" /\ Served(first)
              /\ fatsetcluster(first, END)
              /\ pc' = "commit"
              /\ UNCHANGED <<findVars, allocVars, freeVars, ghostVars>>

Commit == /\ pc = "commit"
          /\ fatcommit
          /\ pc' = "idle"
          /\ IF first = 0 /\ found = 0    \* an allocation that ended without a cluster
             THEN torn' = torn \cup {work} /\ UNCHANGED chains
             ELSE chains' = chains \cup {work} /\ UNCHANGED torn
          /\ work' = <<>>
          /\ found' = 0 /\ top' = 0 /\ next' = 0 /\ first' = 0    \* locals die
          /\ UNCHANGED <<cur, left, count>>

Call == \/ Create
        \/ \E ch \in chains :
              \/ \E n \in 1 .. MaxCount : Grow(ch, n)
              \/ \E k \in 1 .. Len(ch) : Shrink(ch, k)

Step == \/ MoveWindow \/ FindStep \/ FindFail
        \/ CreateEnd \/ CreateFails
        \/ Link \/ SealGrown
        \/ ShrinkStart \/ FreeStep \/ SealShrunk
        \/ Commit

Next == Call \/ Step

\* the kernel keeps executing the call it is in
Spec == Init /\ [][Next]_vars /\ WF_vars(Step)

-----------------------------------------------------------------------------
(* Properties.                                                             *)

(* The window is never more than a part of one table copy, and the loops   *)
(* only ever stand on entries of the table.                                *)
TypeOK ==
    /\ disk \in [Copies -> [Entries -> Nat]]
    /\ win \in 0 .. FATSIZE - 1
    /\ nsec = SectorsFrom(win)
    /\ buf \in [0 .. EPS * nsec - 1 -> Nat]
    /\ dirty \in BOOLEAN
    /\ search \in 1 .. EntryCount
    /\ pc \in {"idle", "findForCreate", "findForGrow", "create", "link", "sealGrown",
                "shrink", "freeing", "sealShrunk", "commit"}
    /\ {found, top, next, first} \subseteq Entries
    /\ {cur, left, count} \subseteq Nat
    /\ table \in [Entries -> Nat]

(* The window is transparent: whatever has been cached, written back and   *)
(* evicted, every entry reads as the value last given to fatsetcluster.    *)
(* After fatcommit, and whenever nothing is waiting to be written, every   *)
(* copy on the disk is the table (fat.c:64-100, 111-128).                  *)
Coherent == /\ \A e \in Entries :
                   table[e] = IF Held(e) THEN fatclustervalue(e) ELSE disk[1][e]
            /\ ~dirty => \A k \in Copies : disk[k] = table

\* the table that a set of chains makes, with some that do not end
Encodes(t, C, T) ==
    /\ \A ch \in C \cup T : \A i \in 1 .. Len(ch) - 1 : t[ch[i]] = ch[i + 1]
    /\ \A ch \in C : t[ch[Len(ch)]] = END
    /\ \A c \in Clusters :
          Cardinality({p \in (C \cup T) \X (1 .. EntryCount) : p[2] <= Len(p[1]) /\ p[1][p[2]] = c})
              = IF t[c] = FREE THEN 0 ELSE 1

(* Between calls the table holds exactly the chains the callers made, grew *)
(* and shrank: every chain ends, none shares a cluster with another or     *)
(* with itself, and no cluster is lost.  A search that fails inside        *)
(* fatallocclusters (fat.c:171) costs the chain it was for its last        *)
(* cluster, which is free and will be another file's, and costs no other   *)
(* chain anything.  The loops only ever stand on entries of the table.     *)
ChainsIntact == TypeOK /\ (pc = "idle" => Encodes(table, chains, torn))

\* the cluster fatfindfreecluster has handed out and nobody has marked yet
Promised == CASE pc \in {"create", "link"}           -> {found, top}
              [] pc \in {"findForGrow", "sealGrown"} -> {top}
              [] OTHER                               -> {}

(* fat.c:130, "start where we are certain there is nothing open behind":   *)
(* frees and searches keep the search start at or below every free cluster *)
(* unless the last search has failed.                                      *)
NothingFreeBehind ==
    search < EntryCount =>
        \A c \in Clusters : c < search /\ table[c] = FREE => c \in Promised

(* Every call ends: no chain the loops walk is a circle, and every search  *)
(* ends at a free cluster or with ENOSPC.                                  *)
CallsReturn == pc # "idle" ~> pc = "idle"

(* fat.h:39: fatdeallocclusters "sets start as the end of a chain and      *)
(* deallocates all after it".                                              *)
DeallocEndsChain == [][pc = "commit" /\ first # 0 => disk'[1][first] = END]_vars
=============================================================================
