--------------------------- MODULE ProgramProofs ---------------------------
(***************************************************************************)
(* Proofs about Program for any number of pages and slots and any programs *)
(* and paths.  GInv adds to the properties where elfread's pointers can    *)
(* have pages, and that a held symbol table is one of the kept pages.      *)
(***************************************************************************)
EXTENDS Program, TLAPS

PointersInv ==
    /\ pc \in {"shell", "headers", "running"} => ~ (proghdr \/ sechdr \/ symtab \/ strtab)
    /\ pc \in {"headers", "sections", "patch"} => kept >= One(symtab)
    /\ pc = "headers" => kept = 0 /\ freepages = before

GInv == TypeOK /\ PagesAccounted /\ BlocksMatch /\ FilesApart /\ PointersInv

-----------------------------------------------------------------------------
LEMMA NoElfIsEmpty == Len(NoElf.sections) = 0 /\ 0 \in 0 .. Len(NoElf.sections)
<1>1. NoElf.sections = <<>>
  BY DEF NoElf
<1> QED BY <1>1

LEMMA ProgramInit == Init => GInv
<1> SUFFICES ASSUME Init PROVE GInv
  OBVIOUS
<1>1. TypeOK
  <2>1. s \in 0 .. Len(elf.sections)
    BY NoElfIsEmpty DEF Init
  <2>2. freepages \in 0 .. PAGES /\ before \in 0 .. PAGES /\ kept \in Nat
    BY ProgramAssumption DEF Init
  <2> QED BY <2>1, <2>2, ProgramAssumption DEF Init, TypeOK
<1>2. PagesAccounted /\ BlocksMatch /\ FilesApart /\ PointersInv
  BY ProgramAssumption DEF Init, PagesAccounted, BlocksMatch, FilesApart, PointersInv, One
<1> QED BY <1>1, <1>2 DEF GInv

(* elfread's only exit, with what the pointers hold at the goto.           *)
LEMMA DoneStep ==
    ASSUME GInv, pc \in {"headers", "sections", "patch"},
           NEW result \in BOOLEAN, NEW prog \in BOOLEAN, NEW sec \in BOOLEAN,
           NEW sym \in BOOLEAN, NEW free \in Nat, NEW sections \in Nat,
           free + One(prog) + One(sec) + sections = before,
           One(sym) <= sections,
           Done(result, prog, sec, sym, free, sections)
    PROVE  GInv'
<1> USE DEF GInv
<1>1. /\ proghdr' = FALSE /\ sechdr' = FALSE /\ symtab' = FALSE /\ strtab' = FALSE
      /\ freepages' = free + One(prog) + One(sec) + One(sym)
      /\ kept' = sections - One(sym)
      /\ elf' = NoElf /\ s' = 0
      /\ UNCHANGED <<before, opened, kind, files>>
  BY DEF Done, Return, fileVars
<1>2. \/ pc' = "running" /\ blocks' = {"program_data", "malloc_context"}
      \/ pc' = "shell" /\ blocks' = {}
  BY DEF Done, Return, BlocksMatch
<1>3. freepages' + kept' = before /\ kept' \in Nat /\ freepages' \in 0 .. PAGES
  BY <1>1, ProgramAssumption DEF One, TypeOK
<1>4. TypeOK'
  <2>1. s' \in 0 .. Len(elf'.sections)
    BY <1>1, NoElfIsEmpty
  <2>2. freepages' \in 0 .. PAGES /\ before' \in 0 .. PAGES /\ kept' \in Nat
    BY <1>1, <1>3 DEF TypeOK
  <2>3. pc' \in {"running", "shell"} /\ blocks' \subseteq {"program_data", "malloc_context"}
    BY <1>2
  <2> QED BY <1>1, <2>1, <2>2, <2>3 DEF TypeOK
<1>5. PagesAccounted'
  BY <1>1, <1>3 DEF PagesAccounted, One, TypeOK
<1>6. BlocksMatch'
  BY <1>2 DEF BlocksMatch
<1>7. FilesApart'
  BY <1>1 DEF FilesApart
<1>8. PointersInv'
  BY <1>1, <1>2 DEF PointersInv
<1> QED BY <1>4, <1>5, <1>6, <1>7, <1>8

LEMMA FailsStep ==
    ASSUME GInv, pc \in {"sections", "patch"},
           NEW result \in BOOLEAN, NEW sym \in BOOLEAN, sym => symtab,
           Done(result, proghdr, sechdr, sym, freepages, kept)
    PROVE  GInv'
<1>1. /\ freepages \in Nat /\ kept \in Nat
      /\ freepages + One(proghdr) + One(sechdr) + kept = before
      /\ One(sym) <= kept
      /\ proghdr \in BOOLEAN /\ sechdr \in BOOLEAN
  BY ProgramAssumption DEF GInv, TypeOK, PagesAccounted, PointersInv, One
<1> QED BY <1>1, DoneStep

LEMMA HeadersFailStep == GInv /\ HeadersFail => GInv'
<1> SUFFICES ASSUME GInv, HeadersFail PROVE GInv'
  OBVIOUS
<1>1. pc = "headers" /\ freepages \in Nat /\ freepages = before
  BY ProgramAssumption DEF GInv, TypeOK, PointersInv, HeadersFail
<1>2. CASE Done(FALSE, FALSE, FALSE, FALSE, freepages, 0)
  <2>1. freepages + One(FALSE) + One(FALSE) + 0 = before /\ One(FALSE) <= 0
    BY <1>1 DEF One
  <2> QED BY <1>1, <1>2, <2>1, DoneStep
<1>3. CASE freepages = 1 /\ Done(FALSE, TRUE, FALSE, FALSE, 0, 0)
  <2>1. 0 + One(TRUE) + One(FALSE) + 0 = before /\ One(FALSE) <= 0
    BY <1>1, <1>3 DEF One
  <2> QED BY <1>1, <1>3, <2>1, DoneStep
<1>4. CASE freepages >= 2 /\ Done(FALSE, TRUE, TRUE, FALSE, freepages - 2, 0)
  <2>1. /\ freepages - 2 \in Nat
        /\ (freepages - 2) + One(TRUE) + One(TRUE) + 0 = before /\ One(FALSE) <= 0
    BY <1>1, <1>4 DEF One
  <2> QED BY <1>1, <1>4, <2>1, DoneStep
<1> QED BY <1>2, <1>3, <1>4 DEF HeadersFail

(* The steps of loading a program that go on.                              *)
LEMMA LoadStep ==
    ASSUME GInv,
           \/ \E e \in Elfs : user_mode_start(e)
           \/ ReadHeaders \/ ReadSection \/ LoadSegments
    PROVE  GInv'
<1> USE DEF GInv
<1>1. ASSUME NEW e \in Elfs, user_mode_start(e) PROVE GInv'
  <2>1. /\ pc = "shell" /\ pc' = "headers" /\ blocks' = {"program_data"}
        /\ elf' = e /\ s' = 0 /\ before' = freepages /\ kept' = 0
        /\ UNCHANGED <<proghdr, sechdr, symtab, strtab, freepages, opened, kind, files>>
    BY <1>1 DEF user_mode_start, pointers, fileVars
  <2>2. TypeOK'
    <3>1. s' \in 0 .. Len(elf')
      BY <2>1, ProgramAssumption
    <3> QED BY <2>1, <3>1 DEF TypeOK
  <2>3. (PagesAccounted /\ BlocksMatch /\ FilesApart /\ PointersInv)'
    BY <2>1, ProgramAssumption DEF TypeOK, PagesAccounted, BlocksMatch, FilesApart, PointersInv, One
  <2> QED BY <2>2, <2>3
<1>2. CASE ReadHeaders
  <2>1. /\ pc = "headers" /\ pc' = "sections" /\ freepages >= 2
        /\ proghdr' = TRUE /\ sechdr' = TRUE /\ freepages' = freepages - 2
        /\ UNCHANGED <<elf, s, symtab, strtab, before, kept, blocks, opened, kind, files>>
    BY <1>2 DEF ReadHeaders, fileVars
  <2> QED BY <2>1, ProgramAssumption
          DEF TypeOK, PagesAccounted, BlocksMatch, FilesApart, PointersInv, One
<1>3. CASE ReadSection
  <2>1. /\ pc = "sections" /\ pc' = "sections" /\ freepages > 0 /\ s < Len(elf.sections)
        /\ symtab' \in BOOLEAN /\ strtab' \in BOOLEAN
        /\ freepages' = freepages - 1 /\ kept' = kept + 1 /\ s' = s + 1
        /\ UNCHANGED <<elf, proghdr, sechdr, before, blocks, opened, kind, files>>
    BY <1>3 DEF ReadSection, fileVars, TypeOK
  <2>2. TypeOK'
    BY <2>1, ProgramAssumption DEF TypeOK
  <2>3. PagesAccounted'
    <3>1. /\ freepages \in Int /\ kept \in Int /\ One(proghdr) \in Int /\ One(sechdr) \in Int
          /\ freepages + One(proghdr) + One(sechdr) + kept = before
      BY DEF TypeOK, PagesAccounted, One
    <3>2. (freepages - 1) + One(proghdr) + One(sechdr) + (kept + 1) = before
      BY <3>1
    <3> QED BY <2>1, <3>2 DEF PagesAccounted, One
  <2>4. BlocksMatch' /\ FilesApart'
    BY <2>1 DEF BlocksMatch, FilesApart
  <2>5. PointersInv'
    <3>1. kept' >= One(symtab')
      BY <2>1 DEF TypeOK, One
    <3> QED BY <2>1, <3>1 DEF PointersInv
  <2> QED BY <2>2, <2>3, <2>4, <2>5
<1>4. CASE LoadSegments
  <2>1. /\ pc = "sections" /\ pc' = "patch"
        /\ UNCHANGED <<elf, s, proghdr, sechdr, symtab, strtab, freepages, before, kept,
                       blocks, opened, kind, files>>
    BY <1>4 DEF LoadSegments, loadVars, pointers, fileVars
  <2> QED BY <2>1 DEF TypeOK, PagesAccounted, BlocksMatch, FilesApart, PointersInv
<1> QED BY <1>1, <1>2, <1>3, <1>4

-----------------------------------------------------------------------------
(* A slot that is not in the table as opened has no file of the program, so *)
(* that the one fopen takes has none.                                       *)
LEMMA FreeSlotHasNoFile ==
    ASSUME GInv, NEW fd \in Fds, ~ opened[fd]
    PROVE  files[fd] = 0
BY DEF GInv, TypeOK, FilesApart

(* What fopen, fclose and the end of a program leave alone, and what they   *)
(* owe for the rest.                                                        *)
LEMMA FilesStep ==
    ASSUME GInv, pc = "running", UNCHANGED <<pc, loadVars, blocks>>,
           opened' \in [Fds -> BOOLEAN], kind' \in [Names -> Kinds], files' \in [Fds -> Nat],
           FilesApart'
    PROVE  GInv'
<1>1. UNCHANGED <<elf, s, proghdr, sechdr, symtab, strtab, freepages, before, kept>>
  BY DEF loadVars, pointers
<1>2. TypeOK'
  BY <1>1 DEF GInv, TypeOK
<1>3. PagesAccounted' /\ BlocksMatch' /\ PointersInv'
  BY <1>1 DEF GInv, PagesAccounted, BlocksMatch, PointersInv
<1> QED BY <1>2, <1>3 DEF GInv

LEMMA FopenStep ==
    ASSUME GInv, NEW n \in Names, NEW f \in Flags, NEW result, fopen(n, f, result)
    PROVE  GInv'
<1>1. PICK fd \in Fds :
          /\ LastFree(fd)
          /\ opened' = [opened EXCEPT ![fd] = ~ Cleared(result)]
          /\ files' = IF result \in {"opened", "created"}
                      THEN [files EXCEPT ![fd] = @ + 1] ELSE files
  BY DEF fopen
<1>2. files[fd] = 0
  BY <1>1, FreeSlotHasNoFile DEF LastFree
<1>3. opened' \in [Fds -> BOOLEAN] /\ files' \in [Fds -> Nat]
  BY <1>1 DEF GInv, TypeOK, Cleared
<1>4. kind' \in [Names -> Kinds]
  BY DEF GInv, TypeOK, fopen, Created, Kinds
<1>5. FilesApart'
  <2>1. CASE result \in {"opened", "created"}
    <3>1. ~ Cleared(result)
      BY <2>1 DEF Cleared
    <3>2. opened'[fd] /\ files'[fd] = 1
      <4>1. fd \in DOMAIN opened /\ opened'[fd] = ~ Cleared(result)
        BY <1>1 DEF GInv, TypeOK
      <4>2. files'[fd] = files[fd] + 1
        BY <1>1, <2>1 DEF GInv, TypeOK
      <4>3. files'[fd] = 1
        BY <1>2, <4>2
      <4>4. opened'[fd]
        BY <3>1, <4>1
      <4> QED BY <4>3, <4>4
    <3>3. \A g \in Fds : g # fd => opened'[g] = opened[g] /\ files'[g] = files[g]
      BY <1>1, <2>1 DEF GInv, TypeOK
    <3> QED BY <3>2, <3>3 DEF GInv, FilesApart
  <2>2. CASE result \notin {"opened", "created"}
    BY <1>1, <1>2, <2>2 DEF GInv, TypeOK, FilesApart
  <2> QED BY <2>1, <2>2
<1>6. pc = "running" /\ UNCHANGED <<pc, loadVars, blocks>>
  BY DEF fopen
<1> QED BY <1>3, <1>4, <1>5, <1>6, FilesStep

LEMMA FopenAstrayStep == GInv /\ FopenAstray => GInv'
<1> SUFFICES ASSUME GInv, FopenAstray PROVE GInv'
  OBVIOUS
<1>1. PICK fd \in Fds : opened' = [opened EXCEPT ![fd] = TRUE]
  BY DEF FopenAstray
<1>2. pc = "running" /\ UNCHANGED <<pc, loadVars, blocks, kind, files>>
  BY DEF FopenAstray
<1>3. opened' \in [Fds -> BOOLEAN] /\ kind' \in [Names -> Kinds] /\ files' \in [Fds -> Nat]
  BY <1>1, <1>2 DEF GInv, TypeOK
<1>4. FilesApart'
  BY <1>1, <1>2 DEF GInv, TypeOK, FilesApart
<1> QED BY <1>2, <1>3, <1>4, FilesStep

LEMMA FcloseStep == ASSUME GInv, NEW fd \in Fds, fclose(fd) PROVE GInv'
<1>1. /\ pc = "running" /\ UNCHANGED <<pc, loadVars, blocks, kind>>
      /\ files[fd] > 0
      /\ opened' = [opened EXCEPT ![fd] = FALSE]
      /\ files' = [files EXCEPT ![fd] = @ - 1]
  BY DEF fclose
<1>2. files[fd] = 1
  BY <1>1 DEF GInv, TypeOK, FilesApart
<1>3. opened' \in [Fds -> BOOLEAN] /\ kind' \in [Names -> Kinds] /\ files' \in [Fds -> Nat]
  BY <1>1, <1>2 DEF GInv, TypeOK
<1>4. FilesApart'
  BY <1>1, <1>2 DEF GInv, TypeOK, FilesApart
<1> QED BY <1>1, <1>3, <1>4, FilesStep

LEMMA EndStep == GInv /\ user_mode_end => GInv'
<1> SUFFICES ASSUME GInv, user_mode_end PROVE GInv'
  OBVIOUS
<1>1. /\ pc = "running" /\ pc' = "shell" /\ blocks' = {} /\ files' = [fd \in Fds |-> 0]
      /\ UNCHANGED <<elf, s, proghdr, sechdr, symtab, strtab, freepages, before, kept,
                     opened, kind>>
  BY DEF user_mode_end, loadVars, pointers
<1>2. TypeOK'
  BY <1>1 DEF GInv, TypeOK
<1>3. PagesAccounted' /\ BlocksMatch' /\ FilesApart' /\ PointersInv'
  BY <1>1 DEF GInv, PagesAccounted, BlocksMatch, FilesApart, PointersInv
<1> QED BY <1>2, <1>3 DEF GInv

-----------------------------------------------------------------------------
(* GInv holds in every state: on every way through user_mode_start and      *)
(* elfread, and through any program's opens and closes.                     *)
THEOREM ProgramInvariant == Spec => []GInv
<1>1. Init => GInv
  BY ProgramInit
<1>2. GInv /\ [Next]_vars => GInv'
  <2> SUFFICES ASSUME GInv, [Next]_vars PROVE GInv'
    OBVIOUS
  <2>1. CASE \E e \in Elfs : user_mode_start(e)
    BY <2>1, LoadStep
  <2>2. CASE ReadHeaders \/ ReadSection \/ LoadSegments
    BY <2>2, LoadStep
  <2>3. CASE HeadersFail
    BY <2>3, HeadersFailStep
  <2>4. CASE SectionFails
    <3>1. /\ pc = "sections"
          /\ Done(FALSE, proghdr, sechdr, symtab /\ elf.sections[s + 1] # "symtab",
                  freepages, kept)
      BY <2>4 DEF SectionFails
    <3> QED BY <3>1, FailsStep DEF GInv, TypeOK
  <2>5. CASE SegmentsFail
    BY <2>5, FailsStep DEF SegmentsFail, Fails, GInv, TypeOK
  <2>6. CASE Patch
    BY <2>6, FailsStep DEF Patch, GInv, TypeOK
  <2>7. CASE PatchFails
    BY <2>7, FailsStep DEF PatchFails, Fails, GInv, TypeOK
  <2>8. CASE user_mode_end
    BY <2>8, EndStep
  <2>9. CASE \E n \in Names, f \in Flags : \E result \in Results(kind[n], f) : fopen(n, f, result)
    BY <2>9, FopenStep
  <2>10. CASE FopenAstray
    BY <2>10, FopenAstrayStep
  <2>11. CASE \E fd \in Fds : fclose(fd)
    BY <2>11, FcloseStep
  <2>12. CASE UNCHANGED vars
    BY <2>12 DEF vars, loadVars, fileVars, pointers, GInv, TypeOK, PagesAccounted,
             BlocksMatch, FilesApart, PointersInv
  <2> QED BY <2>1, <2>2, <2>3, <2>4, <2>5, <2>6, <2>7, <2>8, <2>9, <2>10, <2>11, <2>12 DEF Next
<1> QED BY <1>1, <1>2, PTL DEF Spec

(* Every variable keeps its type: kfree never makes more pages than kalloc  *)
(* gave (elf.c:150-264).                                                    *)
THEOREM ProgramTypeOK == Spec => []TypeOK
BY ProgramInvariant, PTL DEF GInv

(* Every failing exit of elfread gives back the pages of its headers and of *)
(* its last symbol table (elf.c:256-262).                                   *)
THEOREM LoadsAreAccounted == Spec => []PagesAccounted
BY ProgramInvariant, PTL DEF GInv

(* The loader's blocks are given back on every way out (program.c:22-59).   *)
THEOREM BlocksAreReturned == Spec => []BlocksMatch
BY ProgramInvariant, PTL DEF GInv

(* fopen never hands out a slot with an open file                           *)
(* (user_functions.c:53-77), for any number of slots and any programs.      *)
THEOREM FilesStayApart == Spec => []FilesApart
BY ProgramInvariant, PTL DEF GInv
=============================================================================
