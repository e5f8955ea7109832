-------------------------------- MODULE Boot --------------------------------
(***************************************************************************)
(* The way from the BIOS to the kernel: boot/stage1/boot.S reads stage 2   *)
(* with a BIOS call that it retries, and boot/stage2 finds the kernel in   *)
(* the root directory, reads its ELF headers and copies its segments to    *)
(* memory through one sector's buffer and one sector of the allocation     *)
(* table.  Nothing interrupts it, so a call is one action.                 *)
(*                                                                         *)
(* A unit is what is read at once: a directory entry, the ELF header, a    *)
(* program header, or bytes that segments are made of.                     *)
(***************************************************************************)
EXTENDS Integers, Sequences, FiniteSets

CONSTANTS S,        \* units of a sector
          SPC,      \* _bootsector->sectorspercluster
          PerFat,   \* ENTRIES_PER_SECTOR
          FatSize,  \* _bootsector->fatsize32
          END,      \* FEEND32L, above every cluster
          Images,   \* the disks to start from
          MemSize,  \* units of memory from KERNEL_LOAD on
          MaxList   \* bound: entries of stage 1's list

Numbers == 0 .. PerFat * FatSize - 1   \* of clusters

(* A disk: the clusters of the root directory and its entries in use, the  *)
(* kernel's entry, its clusters and size, whether it is an ELF file, and   *)
(* its program headers.  No cluster is in two places.                      *)
ASSUME BootAssumption ==
    /\ {S, SPC, PerFat, FatSize, END, MemSize, MaxList} \subseteq Nat \ {0}
    /\ END >= PerFat * FatSize
    /\ \A d \in Images :
          /\ d.slot < d.used /\ d.used <= Len(d.dir) * SPC * S
          /\ d.size \in Nat /\ d.size <= Len(d.kernel) * SPC * S
          /\ {d.dir, d.kernel} \subseteq Seq(Numbers) \ {<<>>}
          /\ \A i, j \in 1 .. Len(d.dir \o d.kernel) :
                (d.dir \o d.kernel)[i] = (d.dir \o d.kernel)[j] => i = j
          /\ 1 + Len(d.segs) < S              \* the headers lie in one sector
          /\ d.segs \in Seq([off : Nat, filesz : Nat, memsz : Nat, addr : Nat])
          /\ \A k \in 1 .. Len(d.segs) :      \* link.ld: one behind the other
                /\ d.segs[k].filesz <= d.segs[k].memsz
                /\ d.segs[k].off + d.segs[k].filesz <= d.size
                /\ d.segs[k].addr + d.segs[k].memsz <= MemSize
                /\ \A j \in k + 1 .. Len(d.segs) :
                      d.segs[k].addr + d.segs[k].memsz <= d.segs[j].addr

VARIABLES
    disk,        \* the disk started from
    bpc,         \* where the loader is
    list,        \* entries left in the list at S2LOC
    tries,       \* diskread's %di
    ah,          \* diskread's %ah: the service asked of the BIOS
    loaded,      \* stage 2 is in memory
    failed,      \* history: the BIOS has reported an error
    file,        \* struct file: the directory, then the kernel
    win,         \* _cachefirstentry
    left,        \* findentry's possibleentries
    seg,         \* number of the program header at hand
    mem          \* memory from KERNEL_LOAD on

stage1Vars == <<list, tries, ah, loaded, failed>>
fileVars   == <<file, win, left, seg, mem>>
bootVars   == <<disk, bpc, stage1Vars, fileVars>>

Places == {"stage1", "reset", "next", "start", "find", "elf", "headers", "segment",
           "kernel",            \* the kernel has been entered
           "halt", "wild"}      \* hlt; control or stack are garbage

JUNK  == -1     \* what lies behind the file's buffer in stage 2's memory
CLEAR == -2     \* zeroed
OLD   == -3     \* not written by the loader

GoTo(from, to) == bpc = from /\ bpc' = to

-----------------------------------------------------------------------------
(* The disk.                                                               *)

\* a cluster's entry in the allocation table
Entry(c) ==
    LET NextIn(chain) == {IF i = Len(chain) THEN END ELSE chain[i + 1] :
                             i \in {j \in 1 .. Len(chain) : chain[j] = c}}
        next == NextIn(disk.dir) \cup NextIn(disk.kernel)
    IN  IF next = {} THEN 0 ELSE CHOOSE e \in next : TRUE

\* the units of a sector, by their place in the chain it belongs to
UnitAt(held, u) ==
    LET In(chain) == {i \in 1 .. Len(chain) : chain[i] = held[1]}
        i == CHOOSE i \in In(disk.dir) \cup In(disk.kernel) : TRUE
    IN  IF In(disk.dir) \cup In(disk.kernel) = {} THEN JUNK
        ELSE ((i - 1) * SPC + held[2]) * S + u

\* mutant: the first entry behind the window is taken from it
CoversOneMore(w, c) == w <= c /\ c <= w + PerFat
Covers(w, c) == w <= c /\ c < w + PerFat

\* fatclustervalue(x.cluster): the window it leaves, and the entry it returns
fatclustervalue(x) ==
    LET w == IF Covers(x.win, x.cluster) \/ x.cluster \div PerFat >= FatSize THEN x.win
             ELSE (x.cluster \div PerFat) * PerFat
    IN  [win |-> w, cluster |-> Entry(w + (x.cluster % PerFat))]

(* fattotalclusters, and fileseek's walk: n steps along a chain.  This and *)
(* what follows gives the set of outcomes, of which there is one.          *)
Walk(w, c, n) ==
    LET at[k \in 0 .. n] == IF k = 0 THEN {[win |-> w, cluster |-> c]}
                            ELSE {fatclustervalue(x) : x \in at[k - 1]}
    IN  at[n]

-----------------------------------------------------------------------------
(* Files.                                                                  *)

Opened(chain, size, isdir) ==
    [isdir |-> isdir, size |-> size, total |-> Len(chain), first |-> chain[1],
     cluster |-> chain[1], sector |-> 0, position |-> 0, held |-> <<chain[1], 0>>]

FileTotal(f) == LET all == f.total * SPC * S
                IN  IF f.isdir \/ all <= f.size THEN all ELSE f.size

\* umin(size, filetotalbytes - position); the difference is unsigned
Wanted(f, n) == IF f.position <= FileTotal(f) /\ FileTotal(f) - f.position < n
                THEN FileTotal(f) - f.position ELSE n

\* n units of the buffer, and of what lies behind it
Units(held, from, n) ==
    [i \in 1 .. n |-> IF from + i - 1 < S THEN UnitAt(held, from + i - 1) ELSE JUNK]

\* mutant: a cluster has a sector more
LastSectorLate(s) == s + 1 > SPC
LastSector(s) == s + 1 >= SPC

\* one round of _fileread's loop, r.sp being sectorpos
NextSector(r) ==
    LET data == r.data \o Units(r.f.held, r.sp, S - r.sp)
        f    == [r.f EXCEPT !.position = @ + S - r.sp]
        next == fatclustervalue([win |-> r.win, cluster |-> f.cluster])
        To(c, s)    == [f EXCEPT !.cluster = c, !.sector = s, !.held = <<c, s>>]
        Round(g, w) == [r EXCEPT !.f = g, !.win = w, !.sp = 0, !.data = data]
    IN  IF ~LastSector(f.sector) THEN Round(To(f.cluster, f.sector + 1), r.win)
        ELSE IF next.cluster < END THEN Round(To(next.cluster, 0), next.win)
        ELSE [Round([f EXCEPT !.sector = 0, !.cluster = next.cluster, !.position = f.size],
                    next.win) EXCEPT !.eof = TRUE]

FullSectors(f, size) == ((f.position % S) + size) \div S

\* the loop, over the sectors that are read to their ends
ReadLoop(f, w, size) ==
    LET round[k \in 0 .. FullSectors(f, size)] ==
          IF k = 0 THEN {[f |-> f, win |-> w, sp |-> f.position % S, data |-> <<>>, eof |-> FALSE]}
          ELSE {IF r.eof THEN r ELSE NextSector(r) : r \in round[k - 1]}
    IN  round

\* the last copy takes all of `size`, not what the loop has left of it
LastCopy(r, size) ==
    IF r.eof THEN [file |-> r.f, win |-> r.win, data |-> r.data, result |-> 0]
    ELSE [file |-> [r.f EXCEPT !.position = @ + size], win |-> r.win,
          data |-> r.data \o Units(r.f.held, r.sp, size), result |-> size]

(* _fileread: the file and window afterwards, the units written to the     *)
(* caller's buffer and the result.                                         *)
FileRead(f, w, wanted) ==
    LET size == Wanted(f, wanted)
    IN  {LastCopy(r, size) : r \in ReadLoop(f, w, size)[FullSectors(f, size)]}

Seekable(f, seek) == seek < f.size

\* fileseek: the sector is read only if another one is at hand
FileSeek(f, w, seek) ==
    LET sector == (seek \div S) % SPC
        at(to) == [f EXCEPT !.position = seek, !.cluster = to.cluster, !.sector = sector,
                            !.held = IF f.cluster # to.cluster \/ f.sector # sector
                                     THEN <<to.cluster, sector>> ELSE @]
    IN  {[file |-> at(to), win |-> to.win] : to \in Walk(w, f.first, seek \div (SPC * S))}

-----------------------------------------------------------------------------
(* Stage 1.                                                                *)

BootInit ==
    /\ disk \in Images
    /\ bpc = "stage1"
    /\ list \in 1 .. MaxList
    /\ tries = 3
    /\ ah = "read"
    /\ loaded = FALSE
    /\ failed = FALSE
    /\ file = Opened(disk.dir, 0, TRUE)
    /\ win = 0
    /\ left = 0
    /\ seg = 1
    /\ mem = [a \in 0 .. MemSize - 1 |-> OLD]

\* int 0x13: only the read service reads; another may leave something else there
Diskread == /\ GoTo("stage1", "next")
            /\ loaded' \in IF ah = "read" THEN {TRUE} ELSE {loaded, FALSE}
            /\ UNCHANGED <<disk, list, tries, ah, failed, fileVars>>

\* %ah is then the BIOS's error code
DiskreadFails == /\ GoTo("stage1", "reset")
                 /\ ah' = "status"
                 /\ failed' = TRUE
                 /\ UNCHANGED <<disk, list, tries, loaded, fileVars>>

\* %ax was saved behind the call: the retry asks for whatever service the code names
DiskReset == /\ GoTo("reset", IF tries = 1 THEN "next" ELSE "stage1")
             /\ tries' = tries - 1
             /\ UNCHANGED <<disk, list, ah, loaded, failed, fileVars>>

DiskResetFails == /\ GoTo("reset", "halt")
                  /\ UNCHANGED <<disk, stage1Vars, fileVars>>

\* the list is memory at S2LOC; the packet is the same for each of its entries
NextEntry == /\ list > 1
             /\ GoTo("next", "stage1")
             /\ list' = list - 1
             /\ tries' = 3
             /\ ah' = "read"
             /\ UNCHANGED <<disk, loaded, failed, fileVars>>

EnterStage2 == /\ list = 1
               /\ GoTo("next", IF loaded THEN "start" ELSE "wild")
               /\ UNCHANGED <<disk, stage1Vars, fileVars>>

-----------------------------------------------------------------------------
(* Stage 2.                                                                *)

\* atainit, fatinit, fileinit, and fileopen's copy of root
OpenRoot == /\ GoTo("start", "find")
            /\ file' = Opened(disk.dir, 0, TRUE)
            /\ \E to \in Walk(0, disk.dir[1], Len(disk.dir)) : win' = to.win
            /\ left' = Len(disk.dir) * SPC * S
            /\ UNCHANGED <<disk, stage1Vars, seg, mem>>

(* One round of findentry.  An entry at the end of a sector that is not    *)
(* the last is followed by an entry of the next one, written behind        *)
(* `entry` on the stack: the build decides what that hits.                 *)
FindEntry ==
    /\ bpc = "find"
    /\ \E r \in FileRead(file, win, 1) :
          \/ /\ r.data[1] = disk.slot
             /\ bpc' = "elf"
             /\ file' = Opened(disk.kernel, disk.size, FALSE)
             /\ \E to \in Walk(r.win, disk.kernel[1], Len(disk.kernel)) : win' = to.win
             /\ UNCHANGED left
          \/ /\ r.data[1] # disk.slot
             /\ bpc' = IF r.data[1] < disk.used /\ left > 0 THEN "find" ELSE "halt"
             /\ file' = r.file
             /\ win' = r.win
             /\ left' = left - 1
          \/ /\ Len(r.data) > 1
             /\ bpc' = "wild"
             /\ UNCHANGED <<file, win, left>>
    /\ UNCHANGED <<disk, stage1Vars, seg, mem>>

ReadElf ==
    /\ bpc = "elf"
    /\ \E r \in FileRead(file, win, 1) :
          /\ bpc' = IF r.result = 0 \/ ~disk.elf THEN "halt" ELSE "headers"
          /\ file' = r.file
          /\ win' = r.win
    /\ UNCHANGED <<disk, stage1Vars, left, seg, mem>>

\* a header is used if it is the one that was to be read
ReadHeaders ==
    LET n == Len(disk.segs) IN
    /\ bpc = "headers"
    /\ \E r \in FileRead(file, win, n) :
          /\ bpc' = IF SubSeq(r.data, 1, n) = [k \in 1 .. n |-> k] THEN "segment" ELSE "wild"
          /\ file' = r.file
          /\ win' = r.win
    /\ UNCHANGED <<disk, stage1Vars, left, seg, mem>>

Written(m, addr, data) ==
    [a \in DOMAIN m |-> IF a - addr + 1 \in 1 .. Len(data) THEN data[a - addr + 1] ELSE m[a]]

\* mutant: bss is left as it is
ClearedNever(m, p) == m
\* memset of what the file does not hold of a segment
Cleared(m, p) ==
    [a \in DOMAIN m |-> IF p.addr + p.filesz <= a /\ a < p.addr + p.memsz THEN CLEAR ELSE m[a]]

\* one round of stage2_elfread's loop
LoadSegment ==
    /\ bpc = "segment"
    /\ seg <= Len(disk.segs)
    /\ LET p == disk.segs[seg] IN
       IF ~Seekable(file, p.off)
       THEN bpc' = "halt" /\ UNCHANGED <<file, win, seg, mem>>
       ELSE \E s \in FileSeek(file, win, p.off) : \E r \in FileRead(s.file, s.win, p.filesz) :
               /\ bpc' = IF r.result = 0 THEN "halt" ELSE "segment"
               /\ file' = r.file
               /\ win' = r.win
               /\ seg' = seg + 1
               /\ mem' = IF r.result = 0 THEN Written(mem, p.addr, r.data)
                         ELSE Cleared(Written(mem, p.addr, r.data), p)
    /\ UNCHANGED <<disk, stage1Vars, left>>

EnterKernel == /\ seg > Len(disk.segs)
               /\ GoTo("segment", "kernel")
               /\ UNCHANGED <<disk, stage1Vars, fileVars>>

Stage1 == Diskread \/ DiskreadFails \/ DiskReset \/ DiskResetFails \/ NextEntry \/ EnterStage2
Stage2 == FindEntry \/ ReadElf \/ ReadHeaders \/ LoadSegment \/ EnterKernel

-----------------------------------------------------------------------------
(* Properties.                                                             *)

(* When the kernel is entered, memory holds every segment as the file has  *)
(* it, with zeros where the file has nothing, although each read of whole  *)
(* sectors writes junk behind its segment: the segments ascend, and the    *)
(* next one and its bss come later (elf.c:29-37, file.c:114-142).          *)
KernelLoaded ==
    bpc = "kernel" =>
        \A k \in 1 .. Len(disk.segs) : LET p == disk.segs[k] IN
            \A i \in 0 .. p.memsz - 1 :
                mem[p.addr + i] = IF i < p.filesz THEN p.off + i ELSE CLEAR

(* The disks the loader can start: the kernel's entry is found before one  *)
(* at a sector's end that is not the directory's; no segment is empty in   *)
(* the file, or ends with the last cluster, where a read returns 0.        *)
Bootable ==
    /\ disk.elf
    /\ \/ disk.slot < S - 1
       \/ disk.slot = S - 1 /\ Len(disk.dir) * SPC = 1
    /\ \A k \in 1 .. Len(disk.segs) :
          /\ disk.segs[k].filesz > 0
          /\ disk.segs[k].off + disk.segs[k].filesz < Len(disk.kernel) * SPC * S

(* From such a disk the kernel is started, if the BIOS reports no error:   *)
(* after an error the retry does not read (boot.S:136-152).                *)
KernelStarts == (bpc = "stage1" /\ Bootable) ~> (bpc = "kernel" \/ failed)
=============================================================================
