------------------------------- MODULE Files -------------------------------
(***************************************************************************)
(* Open files, kernel/disk/file.c: the handles (struct file) through which *)
(* programs read, write, seek, flush, resize and close files of the root   *)
(* directory, over the FAT as a plain array (module Fat shows how fat.c    *)
(* keeps it).  One call is one action: the kernel runs one call at a time, *)
(* and what makes these calls hard is what one leaves in the handle for    *)
(* the next.                                                               *)
(*                                                                         *)
(* A unit stands for the bytes a caller moves together: a sector has S of  *)
(* them.  The directory is an array of entries; of the sectors behind it   *)
(* only this is kept: reading the last entry runs into the end of the      *)
(* directory's chain, where _fileread returns 0 and dirfindentry gives up. *)
(* A cluster number that is not a data cluster addresses sectors of the    *)
(* second FAT copy (fatclustertolba and atawrite's lba mask), called stray.*)
(* Devices do not fail here, and the disk has room (see Fat).              *)
(***************************************************************************)
EXTENDS Integers, Sequences, FiniteSets

CONSTANTS S,        \* SECTOR_SIZE in units
          SPC,      \* _vbootsector->sectorspercluster
          NC,       \* bound: the data clusters are 3 .. NC
          DIRSLOTS, \* entries the root directory's clusters hold
          Names,    \* formatted file names
          NoName,   \* the name of an entry never used (filename[0] = 0)
          Handles,  \* struct file variables of the programs
          Values,   \* unit values programs write
          Calls,    \* the calls that the programs make, of AllCalls
          MaxSize,  \* bound: units of a file
          MaxCount, \* bound: units of one read or write
          MaxMisuse \* bound: unsupported calls in a run (see Misuse)

AllCalls == {"read", "write", "seek", "rewind", "flush", "resize", "drop"}

ASSUME FilesAssumption ==
    /\ {S, SPC, DIRSLOTS} \subseteq Nat \ {0}
    /\ {NC, MaxSize, MaxCount, MaxMisuse} \subseteq Nat
    /\ 0 \notin Values
    /\ NoName \notin Names
    /\ Calls \subseteq AllCalls

FREE == 0
END  == NC + 1         \* FEEND32L
STALE == 0             \* what a unit holds that nobody wrote
JUNK  == -1            \* what a stray sector holds

Clusters == 3 .. NC
Units    == 0 .. S - 1
Sectors  == 0 .. SPC - 1
Slots    == 0 .. DIRSLOTS - 1
PerCluster == SPC * S  \* bytespercluster

NoEntry == [name |-> NoName, size |-> 0, first |-> 0]
Closed  == [opened |-> FALSE]

VARIABLES
    disk,    \* the table, the clusters' sectors, and whether a stray sector was written
    slots,   \* the root directory
    enoent,  \* errno = ENOENT
    handles, \* the struct files
    (*---------------------------------------------------------------------*)
    content, \* what each file should hold, by the calls made on it
    session, \* what a handle's user has done since opening it
    spoiled, \* files used in a way the code does not support
    misuses, \* how many such calls there were
    lost,    \* files whose entry was overwritten or never became visible
    got      \* the last call, if it was a read

use    == <<spoiled, misuses>>
ghosts == <<content, session, use, lost>>
vars   == <<disk, slots, enoent, handles, ghosts, got>>

NoRead == [name |-> NoName, at |-> 0, ret |-> 0, units |-> <<>>]

Init == /\ disk = [fat |-> [c \in Clusters |-> FREE],
                   data |-> [c \in Clusters |-> [s \in Sectors |-> [u \in Units |-> STALE]]],
                   stray |-> FALSE]
        /\ slots = [k \in Slots |-> NoEntry]
        /\ enoent = FALSE
        /\ handles = [h \in Handles |-> Closed]
        /\ content = [n \in Names |-> <<>>]
        /\ session = [h \in Handles |-> "none"]
        /\ spoiled = {}
        /\ misuses = 0
        /\ lost = {}
        /\ got = NoRead

-----------------------------------------------------------------------------
(* The table and the sectors of a disk d.                                  *)

Lesser(a, b)  == IF a < b THEN a ELSE b
Greater(a, b) == IF a > b THEN a ELSE b

(* Entry 0 marks the end of a chain; END is far behind the table, where    *)
(* the entry that fatclustervalue finds instead is one of a free cluster.  *)
fatclustervalue(d, c) == CASE c \in Clusters -> d.fat[c]
                           [] c = FREE       -> END
                           [] OTHER          -> FREE

\* the cluster k entries behind c
Behind(d, c, k) ==
    LET w[j \in 0 .. k] == IF j = 0 THEN c ELSE fatclustervalue(d, w[j - 1])
    IN w[k]

\* the entry behind c, or c if it is its chain's last
Onward(d, c) == IF fatclustervalue(d, c) = END THEN c ELSE fatclustervalue(d, c)
fattraverse(d, c, k) ==
    LET w[j \in 0 .. k] == IF j = 0 THEN c ELSE Onward(d, w[j - 1])
    IN w[k]

\* the clusters of the chain that starts with c, in order
ChainFrom(d, c) ==
    LET len == CHOOSE k \in 1 .. NC : /\ Behind(d, c, k) = END
                                      /\ \A j \in 1 .. k - 1 : Behind(d, c, j) # END
    IN [k \in 1 .. len |-> Behind(d, c, k - 1)]
fattotalclusters(d, c) == Len(ChainFrom(d, c))

FreeClusters(d) == {c \in Clusters : d.fat[c] = FREE}
fatfindfreecluster(d) == CHOOSE c \in FreeClusters(d) : \A e \in FreeClusters(d) : c <= e

\* mutant: the old last cluster is not linked to the new one
LinkLoose(a) ==
    LET new == fatfindfreecluster(a.d)
    IN [d |-> [a.d EXCEPT !.fat[new] = END], top |-> new]

\* a free cluster becomes the last, behind a.top
Link(a) ==
    LET new == fatfindfreecluster(a.d)
    IN [d |-> [a.d EXCEPT !.fat[a.top] = new, !.fat[new] = END], top |-> new]

\* the disk and the new last cluster after linking n clusters behind c
fatallocclusters(d, c, n) ==
    LET a[k \in 0 .. n] == IF k = 0 THEN [d |-> d, top |-> c] ELSE Link(a[k - 1])
    IN a[n]

\* c is made the last of its chain
fatdeallocclusters(d, c) ==
    LET chain == ChainFrom(d, c)
        tail  == {chain[k] : k \in 2 .. Len(chain)}
    IN [d EXCEPT !.fat = [e \in Clusters |-> IF e = c THEN END
                                             ELSE IF e \in tail THEN FREE ELSE @[e]]]

fatreadsector(d, c, s) == IF c \in Clusters THEN d.data[c][s] ELSE [u \in Units |-> JUNK]
fatwritesector(d, c, s, buffer) == IF c \in Clusters THEN [d EXCEPT !.data[c][s] = buffer]
                                                     ELSE [d EXCEPT !.stray = TRUE]

-----------------------------------------------------------------------------
(* The calls, on x: a disk x.d and a handle x.h.                           *)

filenew(d, entry, dirtied) ==
    LET chain == ChainFrom(d, entry.first)
    IN [opened |-> TRUE, dirty |-> dirtied, entry |-> entry,
        position |-> 0, totalclusters |-> Len(chain), lastcluster |-> chain[Len(chain)],
        currentcluster |-> entry.first, sectorincluster |-> 0,
        buffer |-> fatreadsector(d, entry.first, 0)]

\* mutant: rounded down
ClustersWithin(units) == units \div PerCluster

ClustersFor(units) == (units + PerCluster - 1) \div PerCluster

Capacity(h) == h.totalclusters * PerCluster

\* clusters are linked behind the last one
Grow(x, size) ==
    LET more  == ClustersFor(size - Capacity(x.h))
        grown == fatallocclusters(x.d, x.h.lastcluster, more)
    IN [d |-> grown.d,
        h |-> [x.h EXCEPT !.totalclusters = @ + more, !.lastcluster = grown.top,
                          !.entry.size = size, !.dirty = TRUE]]

\* the clusters behind the one found by counting are freed
Shrink(x, size) ==
    LET fewer == (Capacity(x.h) - size) \div PerCluster
        last  == fattraverse(x.d, x.h.entry.first, x.h.totalclusters - fewer)
    IN [d |-> fatdeallocclusters(x.d, last),
        h |-> [x.h EXCEPT !.totalclusters = @ - fewer, !.lastcluster = last,
                          !.entry.size = size, !.dirty = TRUE]]

fileresize(x, size) ==
    CASE size > Capacity(x.h) -> Grow(x, size)
      [] size < Capacity(x.h) -> Shrink(x, size)
      [] OTHER -> [x EXCEPT !.h.entry.size = size, !.h.dirty = TRUE]

\* the handle moves on to the next sector
NextSector(d, h) ==
    IF h.sectorincluster + 1 < SPC
    THEN [h EXCEPT !.sectorincluster = @ + 1]
    ELSE [h EXCEPT !.sectorincluster = 0,
                   !.currentcluster = fatclustervalue(d, h.currentcluster)]

\* mutant: the handle stays on the sector it has written
FlushInPlace(x) ==
    IF ~x.h.dirty THEN x
    ELSE [d |-> fatwritesector(x.d, x.h.currentcluster, x.h.sectorincluster, x.h.buffer),
          h |-> [x.h EXCEPT !.dirty = FALSE]]

fileflush(x) ==
    IF ~x.h.dirty THEN x
    ELSE [d |-> fatwritesector(x.d, x.h.currentcluster, x.h.sectorincluster, x.h.buffer),
          h |-> [NextSector(x.d, x.h) EXCEPT !.dirty = FALSE]]

\* k units from the buffer to the caller: y is the handle and what the caller has
Take(y, k) == [y EXCEPT
    !.units = @ \o [j \in 1 .. k |-> y.h.buffer[(y.h.position % S) + j - 1]],
    !.h.position = @ + k]

\* the rest of a sector, and the next one is loaded, until the chain has ended
ReadSector(d, y) ==
    LET z == Take(y, S - (y.h.position % S))
        g == NextSector(d, z.h)
    IN CASE y.eof -> y
         [] ~y.eof /\ g.sectorincluster = 0 /\ g.currentcluster = END ->
              [z EXCEPT !.h = [g EXCEPT !.position = g.entry.size], !.eof = TRUE, !.ret = 0]
         [] OTHER ->
              [z EXCEPT !.h = [g EXCEPT !.buffer =
                 fatreadsector(d, g.currentcluster, g.sectorincluster)]]

\* behind a shrunk file's end, the units left wrap to a huge number
Readable(h, n) ==
    LET held == Lesser(Capacity(h), h.entry.size)
    IN IF h.position > held THEN n ELSE Lesser(n, held - h.position)

FullSectors(h, n) == ((h.position % S) + n) \div S

\* the loop, over the sectors that are read to their ends
ReadLoop(x, size) ==
    LET run[k \in 0 .. FullSectors(x.h, size)] ==
          IF k = 0 THEN [h |-> x.h, units |-> <<>>, eof |-> FALSE, ret |-> size]
          ELSE ReadSector(x.d, run[k - 1])
    IN run

_fileread(x, n) ==
    LET size == Readable(x.h, n)
        end  == ReadLoop(x, size)[FullSectors(x.h, size)]
    IN IF end.eof THEN end ELSE Take(end, size - Len(end.units))

SizeAfter(size, position) == Greater(size, position)

\* units of value v to the buffer, and the sector to the disk if more are left
WriteSector(v, y) ==
    LET w == Lesser(y.left, S - y.pos)
        z == [d |-> y.d,
              h |-> [y.h EXCEPT
                      !.buffer = [u \in Units |-> IF u \in y.pos .. y.pos + w - 1 THEN v ELSE @[u]],
                      !.dirty = TRUE, !.position = @ + w]]
        f == IF y.left > w THEN fileflush(z) ELSE z
    IN [d |-> f.d, h |-> f.h, left |-> y.left - w, pos |-> 0]

WriteLoop(x, v, n) ==
    LET run[k \in 0 .. FullSectors(x.h, n) + 1] ==
          IF k = 0 THEN [d |-> x.d, h |-> x.h, left |-> n, pos |-> x.h.position % S]
          ELSE WriteSector(v, run[k - 1])
    IN run

_filewrite(x, v, n) ==
    LET behind == x.h.position + n
        x0  == IF behind > Capacity(x.h) THEN fileresize(x, behind) ELSE x
        end == WriteLoop(x0, v, n)[FullSectors(x.h, n) + 1]
    IN [d |-> end.d, h |-> [end.h EXCEPT !.entry.size = SizeAfter(@, end.h.position)]]

\* mutant: a seek never loads the sector
SeekNoLoad(x, seek) ==
    LET cluster == Behind(x.d, x.h.entry.first, seek \div PerCluster)
        sector  == (seek \div S) % SPC
    IN [x EXCEPT !.h.position = seek, !.h.currentcluster = cluster,
                 !.h.sectorincluster = sector]

fileseek(x, seek) ==
    LET cluster == Behind(x.d, x.h.entry.first, seek \div PerCluster)
        sector  == (seek \div S) % SPC
        moved   == x.h.currentcluster # cluster \/ x.h.sectorincluster # sector
    IN [x EXCEPT !.h.position = seek, !.h.currentcluster = cluster,
                 !.h.sectorincluster = sector,
                 !.h.buffer = IF moved THEN fatreadsector(x.d, cluster, sector) ELSE @]

filereset(x) ==
    [x EXCEPT !.h.position = 0, !.h.currentcluster = x.h.entry.first,
              !.h.sectorincluster = 0,
              !.h.buffer = IF x.h.position >= S THEN fatreadsector(x.d, x.h.entry.first, 0)
                                                ELSE @]

(* dirfindentry stops at the name, at an empty entry (errno = ENOENT) or   *)
(* at the last one, which it cannot read (errno as it was).                *)
SearchEnd(name) ==
    CHOOSE k \in Slots :
        /\ slots[k].name \in {name, NoName} \/ k = DIRSLOTS - 1
        /\ \A j \in 0 .. k - 1 : slots[j].name \notin {name, NoName}
InReach(k)     == k < DIRSLOTS - 1
Found(name)    == InReach(SearchEnd(name)) /\ slots[SearchEnd(name)].name = name
ErrnoAfter(name) == enoent \/ InReach(SearchEnd(name))  \* after a search that failed

\* dirsetentry at the place where the search has found the name
dirupdateentry(entry) ==
    IF Found(entry.name) THEN [slots EXCEPT ![SearchEnd(entry.name)] = entry] ELSE slots

-----------------------------------------------------------------------------
(* The programs' calls.                                                    *)

Users(n)   == {h \in Handles : handles[h].opened /\ handles[h].entry.name = n}

\* bound: the disk has room for a file made n units long
Room(clusters, n) == n <= PerCluster * (clusters + Cardinality(FreeClusters(disk)))

(* A call on h that the code does not support spoils the files in harmed.  *)
Misuse(harmed) == /\ misuses < MaxMisuse
                  /\ misuses' = misuses + 1
                  /\ spoiled' = spoiled \cup harmed
ProperUse == UNCHANGED use
Judge(proper, h) == IF proper THEN ProperUse ELSE Misuse({handles[h].entry.name})

X(h) == [d |-> disk, h |-> handles[h]]
Becomes(h, x) == /\ disk' = x.d
                 /\ handles' = [handles EXCEPT ![h] = x.h]

\* fileopen of a file that is there and that nobody has open; FAPPEND seeks to its end
Open(h, n, append) ==
    /\ ~handles[h].opened /\ Users(n) = {}
    /\ Found(n)
    /\ LET x == [d |-> disk, h |-> filenew(disk, slots[SearchEnd(n)], FALSE)]
       IN Becomes(h, IF append THEN fileseek(x, x.h.entry.size) ELSE x)
    /\ session' = [session EXCEPT ![h] = "reading"]
    /\ got' = NoRead
    /\ UNCHANGED <<slots, enoent, content, use, lost>>

\* fileopen(FCREATE) of a name that is there, or fileopen of one that is not
OpenFails(n) ==
    /\ \/ Found(n) /\ enoent' = FALSE
       \/ ~Found(n) /\ enoent' = TRUE
    /\ got' = NoRead
    /\ UNCHANGED <<disk, slots, handles, ghosts>>

(* fileopen(FCREATE): the cluster, then the entry where the search ended.  *)
(* In the last slot it stands if errno is ENOENT from an earlier call.     *)
Create(h, n) ==
    /\ ~handles[h].opened /\ Users(n) = {}
    /\ ~Found(n) /\ ErrnoAfter(n)
    /\ Room(0, 1)
    /\ LET c == fatfindfreecluster(disk)
           k == SearchEnd(n)
           entry == [name |-> n, size |-> 0, first |-> c]
           d == [disk EXCEPT !.fat[c] = END]
       IN /\ slots' = [slots EXCEPT ![k] = entry]
          /\ Becomes(h, [d |-> d, h |-> filenew(d, entry, TRUE)])
          /\ lost' = (lost \cup IF InReach(k) THEN {} ELSE {n, slots[k].name}) \ {NoName}
    /\ enoent' = TRUE
    /\ content' = [content EXCEPT ![n] = <<>>]
    /\ session' = [session EXCEPT ![h] = "writing"]
    /\ got' = NoRead
    /\ ProperUse

\* diraddentry refuses; the cluster stays taken
CreateFails(n) ==
    /\ Users(n) = {}
    /\ ~Found(n) /\ ~ErrnoAfter(n)
    /\ Room(0, 1)
    /\ disk' = [disk EXCEPT !.fat[fatfindfreecluster(disk)] = END]
    /\ got' = NoRead
    /\ UNCHANGED <<slots, enoent, handles, ghosts>>

Read(h, n) ==
    /\ "read" \in Calls /\ handles[h].opened
    /\ LET r == _fileread(X(h), n)
           name == handles[h].entry.name
       IN /\ handles' = [handles EXCEPT ![h] = r.h]
          /\ got' = [name |-> name, at |-> handles[h].position, ret |-> r.ret, units |-> r.units]
          /\ Judge(session[h] = "reading", h)
    /\ UNCHANGED <<disk, slots, enoent, content, session, lost>>

Overwritten(c, at, v, n) ==
    [k \in 1 .. Greater(Len(c), at + n) |-> IF k \in at + 1 .. at + n THEN v ELSE c[k]]

(* A write that the code does not support: behind one that ended at the    *)
(* end of a sector, at the end of a file whose clusters are full, or over  *)
(* the end of a sector and ending inside the file and inside a sector.     *)
Spoils(h, n) ==
    LET at  == handles[h].position
        len == Len(content[handles[h].entry.name])
    IN \/ session[h] = "full"
       \/ session[h] = "reading" /\ at > 0 /\ at = len /\ at % PerCluster = 0
       \/ /\ at \div S # (at + n) \div S
          /\ (at + n) % S # 0 /\ at + n < len

Write(h, v, n) ==
    /\ "write" \in Calls /\ handles[h].opened
    /\ handles[h].position + n <= MaxSize
    /\ Room(handles[h].totalclusters, handles[h].position + n)
    /\ Becomes(h, _filewrite(X(h), v, n))
    /\ LET name == handles[h].entry.name
           at   == handles[h].position
       IN /\ content' = IF at > Len(content[name]) THEN content
                        ELSE [content EXCEPT ![name] = Overwritten(@, at, v, n)]
          /\ Judge(~Spoils(h, n), h)
          /\ session' = [session EXCEPT ![h] = IF (at + n) % S = 0 THEN "full" ELSE "writing"]
    /\ got' = NoRead
    /\ UNCHANGED <<slots, enoent, lost>>

\* not supported if it leaves written units behind in the buffer
Abandons(h) == Judge(session[h] = "reading", h)

Seek(h, p) ==
    /\ "seek" \in Calls /\ handles[h].opened
    /\ p <= handles[h].entry.size
    /\ Becomes(h, fileseek(X(h), p))
    /\ Abandons(h)
    /\ got' = NoRead
    /\ UNCHANGED <<slots, enoent, content, session, lost>>

\* EINVAL
SeekFails(h) ==
    /\ "seek" \in Calls /\ handles[h].opened
    /\ enoent' = FALSE
    /\ got' = NoRead
    /\ UNCHANGED <<disk, slots, handles, ghosts>>

Rewind(h) ==
    /\ "rewind" \in Calls /\ handles[h].opened
    /\ Becomes(h, filereset(X(h)))
    /\ Abandons(h)
    /\ got' = NoRead
    /\ UNCHANGED <<slots, enoent, content, session, lost>>

Flush(h) ==
    /\ "flush" \in Calls /\ handles[h].opened
    /\ Becomes(h, fileflush(X(h)))
    /\ Abandons(h)
    /\ got' = NoRead
    /\ UNCHANGED <<slots, enoent, content, session, lost>>

(* A shrink may free the cluster that the handle is on, and another file   *)
(* may get it: from then on no file is safe.                               *)
Resize(h, size) ==
    /\ "resize" \in Calls /\ handles[h].opened
    /\ Room(handles[h].totalclusters, size)
    /\ Becomes(h, fileresize(X(h), size))
    /\ Misuse(IF handles[h].currentcluster \in FreeClusters(fileresize(X(h), size).d)
              THEN Names ELSE {handles[h].entry.name})
    /\ got' = NoRead
    /\ UNCHANGED <<slots, enoent, content, session, lost>>

\* fileclose: the entry, if the handle is dirty, then the sector
Close(h) ==
    /\ handles[h].opened
    /\ LET entry == handles[h].entry
           x     == fileflush(X(h))
       IN /\ slots' = IF handles[h].dirty THEN dirupdateentry(entry) ELSE slots
          /\ enoent' = IF handles[h].dirty /\ ~Found(entry.name)
                       THEN ErrnoAfter(entry.name) ELSE enoent
          /\ disk' = x.d
    /\ handles' = [handles EXCEPT ![h] = Closed]
    /\ session' = [session EXCEPT ![h] = "none"]
    /\ got' = NoRead
    /\ UNCHANGED <<content, use, lost>>

\* a program ends without closing (user_mode_end frees the handle)
Drop(h) ==
    /\ "drop" \in Calls /\ handles[h].opened
    /\ handles' = [handles EXCEPT ![h] = Closed]
    /\ session' = [session EXCEPT ![h] = "none"]
    /\ Abandons(h)
    /\ got' = NoRead
    /\ UNCHANGED <<disk, slots, enoent, content, lost>>

Next == \/ \E n \in Names : OpenFails(n) \/ CreateFails(n)
        \/ \E h \in Handles :
             \/ \E n \in Names : Create(h, n) \/ \E append \in BOOLEAN : Open(h, n, append)
             \/ \E n \in 1 .. MaxCount : Read(h, n) \/ \E v \in Values : Write(h, v, n)
             \/ \E p \in 0 .. MaxSize : Seek(h, p) \/ Resize(h, p)
             \/ SeekFails(h) \/ Rewind(h) \/ Flush(h) \/ Close(h) \/ Drop(h)

Spec == Init /\ [][Next]_vars

-----------------------------------------------------------------------------
(* Properties.                                                             *)

UnitValues == Values \cup {STALE, JUNK}
Buffers    == [Units -> UnitValues]
Entries    == [name : Names \cup {NoName}, size : Nat, first : Clusters \cup {0}]

(* Every variable has its type; a handle's position may pass its size only *)
(* after a resize.                                                         *)
TypeOK ==
    /\ disk.fat \in [Clusters -> Clusters \cup {FREE, END}]
    /\ disk.data \in [Clusters -> [Sectors -> Buffers]]
    /\ disk.stray \in BOOLEAN
    /\ slots \in [Slots -> Entries]
    /\ enoent \in BOOLEAN
    /\ \A h \in Handles : handles[h].opened =>
          /\ handles[h].entry \in Entries
          /\ handles[h].buffer \in Buffers
          /\ handles[h].sectorincluster \in Sectors
          /\ handles[h].currentcluster \in Clusters \cup {FREE, END}
          /\ handles[h].lastcluster \in Clusters
          /\ handles[h].position > handles[h].entry.size => handles[h].entry.name \in spoiled
    /\ \A n \in Names : content[n] \in Seq(Values)
    /\ session \in [Handles -> {"none", "reading", "writing", "full"}]
    /\ spoiled \subseteq Names /\ lost \subseteq Names

UsedSlots    == {k \in Slots : slots[k].name # NoName}
Occupied(c)  == {ChainFrom(disk, c)[k] : k \in DOMAIN ChainFrom(disk, c)}

(* Whatever the programs call, the files' chains end, hold no free cluster *)
(* and share none, and a handle that is open grows its file at the chain's *)
(* end: no file's data can get into another file (file.c:38-78, 165-194 of *)
(* fat.c).                                                                 *)
ChainsApart ==
    /\ TypeOK
    /\ \A k \in UsedSlots : Occupied(slots[k].first) \subseteq Clusters
    /\ \A j, k \in UsedSlots : j # k => Occupied(slots[j].first) \cap Occupied(slots[k].first) = {}
    /\ \A h \in Handles : handles[h].opened =>
          LET chain == ChainFrom(disk, handles[h].entry.first)
          IN handles[h].lastcluster = chain[Len(chain)]

\* what a reader of the closed file n finds on the disk
OnDisk(n) ==
    LET entry == slots[SearchEnd(n)]
        chain == ChainFrom(disk, entry.first)
    IN [k \in 1 .. entry.size |->
          disk.data[chain[(k - 1) \div PerCluster + 1]]
                   [((k - 1) \div S) % SPC][(k - 1) % S]]

Kept(n) == IF Found(n) THEN OnDisk(n) = content[n] ELSE content[n] = <<>>

(* What programs have written to a file is on the disk once it is closed,  *)
(* if they write it front to back: every session either only reads and     *)
(* seeks or ends in writes, no write of it meets one of the cases of       *)
(* Spoils, and nobody flushes, resizes or abandons it.  Whatever happens   *)
(* to other files meanwhile does not matter (file.c:478-515, 593-664).     *)
ContentsKept == \A n \in Names \ (spoiled \cup lost) : Users(n) = {} => Kept(n)

(* The bytes that fileread puts into a program's buffer are the file's, at *)
(* the position the handle had, after any seeks, rewinds and reads across  *)
(* sectors and clusters, and fileread returns their number, or 0 when it   *)
(* has met the end of the clusters (file.c:409-454, 538-591).              *)
ReadsHonest ==
    got.name \in Names \ spoiled =>
        /\ got.units = SubSeq(content[got.name], got.at + 1, got.at + Len(got.units))
        /\ got.ret \in {0, Len(got.units)}

(* Both hold where a read, a seek or a write crosses the sectors of a      *)
(* cluster and the ends of clusters (file.c:409-454, 538-591).             *)
HandlesHonest == ContentsKept /\ ReadsHonest

(* No sector outside the data clusters is written as long as no file has   *)
(* been used in one of the unsupported ways: a handle whose cluster is     *)
(* END, after a read or a seek to the end of full clusters, is not written *)
(* through (file.c:435-441, 575-588, 608, fat.c:44-47).                    *)
NoStrayWrites == disk.stray => spoiled # {}

=============================================================================
