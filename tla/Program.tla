------------------------------ MODULE Program ------------------------------
(***************************************************************************)
(* The programs of the shell: kernel/user/program.c, elf.c and the file    *)
(* functions of user_functions.c.  One program is loaded and run at a      *)
(* time; shell_exec_args waits for it.                                     *)
(* A page is one of kalloc's; only their number matters, and which of      *)
(* elfread's pointers has one.  The program_data block comes from rm_alloc *)
(* each time at the place where the last program's was (the heap is empty  *)
(* between programs, see Heap) and is not cleared: its file table is a     *)
(* variable of the kernel.  Pages come from kalloc cleared, so that the    *)
(* first program finds the table empty.                                    *)
(***************************************************************************)
EXTENDS Integers, Sequences, FiniteSets

CONSTANTS PROGRAM_MAX_FILES,
          PAGES,     \* kalloc's pages when the shell starts
          Elfs,      \* the programs on the disk: [sections, relocs]
          Names,     \* the other paths that programs name
          Kinds0     \* what is at each of them when the shell starts

Fds   == 0 .. PROGRAM_MAX_FILES - 1
Kinds == {"none", "file", "dir", "root"}

ASSUME ProgramAssumption ==
    /\ PROGRAM_MAX_FILES \in Nat \ {0}
    /\ PAGES \in Nat
    /\ Elfs \subseteq [sections : Seq({"symtab", "strtab"}), relocs : BOOLEAN]
    /\ Kinds0 \in [Names -> Kinds]

VARIABLES
    pc,                 \* the shell, a step of elfread, or the program's
    elf,                \* the program that is loaded or runs
    s,                  \* elfread's loop: sections it has looked at
    proghdr, sechdr, symtab, strtab, \* whether each of its pointers has a page
    freepages,          \* kallocavailable
    blocks,             \* the loader's blocks of rm_global_ctx
    opened,             \* user_data->files[fd].opened
    kind,               \* what is at each path
    (*---------------------------------------------------------------------*)
    files,              \* how many files the program has open in each slot
    before,             \* the pages free when the program was called
    kept                \* the pages with a section of it that are not freed

pointers == <<proghdr, sechdr, symtab, strtab>>
loadVars == <<elf, s, pointers, freepages, before, kept>>
fileVars == <<opened, kind, files>>
vars     == <<pc, loadVars, blocks, fileVars>>

NoElf == [sections |-> <<>>, relocs |-> FALSE]

Init == /\ pc = "shell" /\ elf = NoElf /\ s = 0
        /\ proghdr = FALSE /\ sechdr = FALSE /\ symtab = FALSE /\ strtab = FALSE
        /\ freepages = PAGES
        /\ blocks = {}
        /\ opened = [fd \in Fds |-> FALSE]
        /\ kind = Kinds0
        /\ files = [fd \in Fds |-> 0]
        /\ before = PAGES /\ kept = 0

-----------------------------------------------------------------------------
(* user_mode_start and elfread.                                            *)

(* The block for program_data, the path and the file.  When one of them    *)
(* fails the block is given back and nothing has changed.                  *)
user_mode_start(e) ==
    /\ pc = "shell"
    /\ blocks' = {"program_data"}
    /\ pc' = "headers"
    /\ elf' = e /\ s' = 0
    /\ before' = freepages /\ kept' = 0
    /\ UNCHANGED <<pointers, freepages, fileVars>>

One(b) == IF b THEN 1 ELSE 0

\* mutant: the failing caller keeps the block
ReturnKeepingData(result) ==
    /\ \/ /\ result
          /\ pc' = "running"
          /\ blocks' = blocks \cup {"malloc_context"}
       \/ /\ pc' = "shell"
          /\ blocks' = IF result THEN {} ELSE blocks
    /\ elf' = NoElf /\ s' = 0
    /\ UNCHANGED <<before, fileVars>>

(* Back in user_mode_start: if elfread has failed, or if there is no block *)
(* for the program's own heap, program_data is given back.                 *)
Return(result) ==
    /\ \/ /\ result
          /\ pc' = "running"
          /\ blocks' = blocks \cup {"malloc_context"}
       \/ /\ pc' = "shell"
          /\ blocks' = blocks \ {"program_data"}
    /\ elf' = NoElf /\ s' = 0
    /\ UNCHANGED <<before, fileVars>>

\* mutant: the symbol table's page is freed twice
DoneTwice(result, prog, sec, sym, free, sections) ==
    /\ proghdr' = FALSE /\ sechdr' = FALSE /\ symtab' = FALSE /\ strtab' = FALSE
    /\ freepages' = free + One(prog) + One(sec) + One(sym) + One(sym)
    /\ kept' = sections - One(sym)
    /\ Return(result)

\* mutant: the section headers' page stays
DoneKeepingHeaders(result, prog, sec, sym, free, sections) ==
    /\ proghdr' = FALSE /\ sechdr' = FALSE /\ symtab' = FALSE /\ strtab' = FALSE
    /\ freepages' = free + One(prog) + One(sym)
    /\ kept' = sections - One(sym)
    /\ Return(result)

(* done: with the pointers, the free pages and the pages read from         *)
(* sections at the goto.  kfree does nothing for NULL; strtab's page, and  *)
(* that of a symtab that was replaced, are not freed.                      *)
Done(result, prog, sec, sym, free, sections) ==
    /\ proghdr' = FALSE /\ sechdr' = FALSE /\ symtab' = FALSE /\ strtab' = FALSE
    /\ freepages' = free + One(prog) + One(sec) + One(sym)
    /\ kept' = sections - One(sym)
    /\ Return(result)

\* from here on, with what is held now
Fails == Done(FALSE, proghdr, sechdr, symtab, freepages, kept)

\* the ELF header, then one kalloc for each kind of header, then their contents
ReadHeaders ==
    /\ pc = "headers"
    /\ freepages >= 2
    /\ proghdr' = TRUE /\ sechdr' = TRUE
    /\ freepages' = freepages - 2
    /\ pc' = "sections"
    /\ UNCHANGED <<elf, s, symtab, strtab, before, kept, blocks, fileVars>>

\* no ELF file, or more headers than fit into a page; no page; an error reading them
HeadersFail ==
    /\ pc = "headers"
    /\ \/ Done(FALSE, FALSE, FALSE, FALSE, freepages, 0)
       \/ freepages = 1 /\ Done(FALSE, TRUE, FALSE, FALSE, 0, 0)
       \/ freepages >= 2 /\ Done(FALSE, TRUE, TRUE, FALSE, freepages - 2, 0)

\* read_section gives the section's pointer a new page
ReadSection ==
    /\ pc = "sections" /\ s < Len(elf.sections)
    /\ freepages > 0
    /\ \/ elf.sections[s + 1] = "symtab" /\ symtab' = TRUE /\ UNCHANGED strtab
       \/ elf.sections[s + 1] = "strtab" /\ strtab' = TRUE /\ UNCHANGED symtab
    /\ freepages' = freepages - 1
    /\ kept' = kept + 1
    /\ s' = s + 1
    /\ UNCHANGED <<pc, elf, proghdr, sechdr, before, blocks, fileVars>>

(* A section larger than a page, no page, or an error reading it: the      *)
(* pointer is NULL, whatever it was.                                       *)
SectionFails ==
    /\ pc = "sections" /\ s < Len(elf.sections)
    /\ Done(FALSE, proghdr, sechdr, symtab /\ elf.sections[s + 1] # "symtab", freepages, kept)

\* the program headers' segments are read to their addresses
LoadSegments ==
    /\ pc = "sections" /\ s = Len(elf.sections)
    /\ pc' = "patch"
    /\ UNCHANGED <<loadVars, blocks, fileVars>>

SegmentsFail ==
    /\ pc = "sections" /\ s = Len(elf.sections)
    /\ Fails

\* without relocations there is nothing to patch
Patch ==
    /\ pc = "patch"
    /\ elf.relocs => symtab /\ strtab
    /\ Done(TRUE, proghdr, sechdr, symtab, freepages, kept)

\* no tables to patch with, an error reading an entry, a symbol nobody defines
PatchFails ==
    /\ pc = "patch"
    /\ elf.relocs
    /\ Fails

\* main returns; what the program has left open stays so in the file table
user_mode_end ==
    /\ pc = "running"
    /\ pc' = "shell"
    /\ blocks' = {}
    /\ files' = [fd \in Fds |-> 0]
    /\ UNCHANGED <<loadVars, opened, kind>>

-----------------------------------------------------------------------------
(* fopen and fclose.                                                       *)

\* FCREATE and FDIRECTORY; a program has no name for FEXISTS (std/stdlib.h:67-72)
Flags == [create : BOOLEAN, directory : BOOLEAN]

IsDir(k) == k \in {"dir", "root"}

Created(f) == IF f.directory THEN "dir" ELSE "file"

(* fileopen of a path with a k at its end.  A file system error and a full *)
(* disk look like EIO.                                                     *)
Results(k, f) ==
    CASE k = "none" /\ f.create               -> {"created", "EIO"}
      [] k = "none" /\ ~ f.create             -> {"ENOENT"}
      [] k \in {"file", "dir"} /\ f.create    -> {"EEXIST"}
      [] f.directory /\ ~ IsDir(k)            -> {"ENOTDIR"}
      [] IsDir(k) /\ ~ f.directory            -> {"EISDIR"}
      [] OTHER                                -> {"opened"}

\* mutant: the last slot, in use or not
LastFreeAny(fd) == fd = PROGRAM_MAX_FILES - 1

\* fopen looks at all slots and takes the last free one
LastFree(fd) == ~ opened[fd] /\ \A g \in Fds : ~ opened[g] => g <= fd

\* filenew has set opened for the root; only these results clear the handle again
Cleared(result) == result \in {"ENOENT", "EEXIST", "EIO"}

fopen(n, f, result) ==
    /\ pc = "running"
    /\ result \in Results(kind[n], f)
    /\ \E fd \in Fds :
           /\ LastFree(fd)
           /\ opened' = [opened EXCEPT ![fd] = ~ Cleared(result)]
           /\ files' = IF result \in {"opened", "created"}
                       THEN [files EXCEPT ![fd] = @ + 1] ELSE files
    /\ kind' = IF result = "created" THEN [kind EXCEPT ![n] = Created(f)] ELSE kind
    /\ UNCHANGED <<pc, loadVars, blocks>>

(* EPATH: the path is not absolute, since the program's directory is not   *)
(* (after a cd that left the root twice, see Path).                        *)
FopenAstray ==
    /\ pc = "running"
    /\ \E fd \in Fds : LastFree(fd) /\ opened' = [opened EXCEPT ![fd] = TRUE]
    /\ UNCHANGED <<pc, loadVars, blocks, kind, files>>

\* of a file the program has open
fclose(fd) ==
    /\ pc = "running"
    /\ files[fd] > 0 /\ opened[fd]
    /\ opened' = [opened EXCEPT ![fd] = FALSE]
    /\ files' = [files EXCEPT ![fd] = @ - 1]
    /\ UNCHANGED <<pc, loadVars, blocks, kind>>

Next == \/ \E e \in Elfs : user_mode_start(e)
        \/ ReadHeaders \/ HeadersFail
        \/ ReadSection \/ SectionFails
        \/ LoadSegments \/ SegmentsFail
        \/ Patch \/ PatchFails
        \/ user_mode_end
        \/ \E n \in Names, f \in Flags : \E result \in Results(kind[n], f) : fopen(n, f, result)
        \/ FopenAstray
        \/ \E fd \in Fds : fclose(fd)

Spec == Init /\ [][Next]_vars

-----------------------------------------------------------------------------
(* Properties.                                                             *)

(* Every variable has its type; no more pages are free than there are.     *)
TypeOK ==
    /\ pc \in {"shell", "headers", "sections", "patch", "running"}
    /\ elf \in Elfs \cup {NoElf} /\ s \in 0 .. Len(elf.sections)
    /\ {proghdr, sechdr, symtab, strtab} \subseteq BOOLEAN
    /\ {freepages, before} \subseteq 0 .. PAGES /\ kept \in Nat
    /\ blocks \subseteq {"program_data", "malloc_context"}
    /\ opened \in [Fds -> BOOLEAN]
    /\ kind \in [Names -> Kinds]
    /\ files \in [Fds -> Nat]

(* Whichever step of loading a program fails, the pages of its headers and *)
(* of its last symbol table come back: only string tables, and symbol      *)
(* tables that another replaced, stay away (elf.c:188-196, 214-230,        *)
(* 257-260).                                                               *)
PagesAccounted ==
    /\ freepages + One(proghdr) + One(sechdr) + kept = before
    /\ pc \in {"shell", "running"} => ~ (proghdr \/ sechdr \/ symtab \/ strtab)

(* The loader's blocks are on the heap while a program is loaded or runs,  *)
(* and never after, on whatever way user_mode_start returned               *)
(* (program.c:22-59).                                                      *)
BlocksMatch ==
    /\ pc = "shell" => blocks = {}
    /\ pc \in {"headers", "sections", "patch"} => blocks = {"program_data"}
    /\ pc = "running" => blocks = {"program_data", "malloc_context"}

(* fopen never gives a program a slot in which it has a file open, in any  *)
(* order of opens that succeed or fail and closes, after programs that     *)
(* left the table in any state (user_functions.c:53-77).                   *)
FilesApart == \A fd \in Fds : files[fd] <= 1 /\ (files[fd] = 1 => opened[fd])
=============================================================================
