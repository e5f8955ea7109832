--------------------------- MODULE StartupProofs ---------------------------
(***************************************************************************)
(* Proofs about Startup, the machine from the BIOS to programs.            *)
(*                                                                         *)
(* Of Interrupts, for every choice of request lines, exceptions, waits and *)
(* size of the tick counter: no request and no exception ever meets a      *)
(* missing gate or handler, and timer_wait does not return early.          *)
(*                                                                         *)
(* Of Boot, for every size of sectors, clusters, table and memory and all  *)
(* disks with any segments: what the kernel is entered with is in memory.  *)
(***************************************************************************)
EXTENDS Startup, FiniteSetTheorems, WellFoundedInduction, TLAPS

Words  == {"flags", "cs", "ip", "code", "zero", "number"}
Stages == {"bios", "stage2", "kernel", "isrinit", "irqinit", "kbdinit", "timerinit",
           "cli", "handler", "irqenable", "idtenable", "sti",
           "shell", "check", "hlt", "returned"}

\* where the kernel leaves interrupts on
Open == at \in {"timerinit", "shell", "check", "hlt", "returned"} \/ (at = "cli" /\ inst = 0)

BeforeIsrinit == {"bios", "stage2", "kernel", "isrinit"}
BeforeIrqinit == BeforeIsrinit \cup {"irqinit"}

-----------------------------------------------------------------------------
(* The invariant.                                                          *)

\* what has been set up by the time the kernel has come this far
Tables ==
    /\ at \in Stages /\ inst \in {0, 1}
    /\ at \notin BeforeIsrinit =>
          \A v \in Vectors : v < 32 => v \in gates /\ isrs[v] = "exception"
    /\ at \notin BeforeIrqinit =>
          /\ remapped
          /\ \A v \in Vectors : v - 32 \in 0 .. 15 => isrs[v] = "irqstub"
          /\ \A i \in Lines \ imr : /\ i \in irqs \cap ready
                                    /\ 32 + i \in gates \/ (at = "idtenable" /\ i = inst)
    /\ at \in {"cli", "handler", "irqenable", "idtenable"} => inst \in ready
    /\ at \in {"irqenable", "idtenable"} => inst \in irqs

\* what the processor is at, with what it has pushed
Processor ==
    /\ cpu \in {"run", "stub", "handler", "eoi", "iret", "stopped"}
    /\ stack \in Seq(Words)
    /\ cpu = "run" => stack = <<>> /\ (iflag <=> Open \/ at = "bios")
    /\ cpu # "run" => /\ Open /\ ~iflag
                      /\ vec \in Vectors /\ (vec < 32 \/ vec - 32 \in Lines \ imr)
    /\ cpu = "stub" => /\ Len(stack) = IF vec \in CpuPushesCode THEN 4 ELSE 3
                       /\ stack[3] = "ip"
    /\ cpu \in {"handler", "eoi", "iret"} => Len(stack) = 5 /\ stack[3] = "ip"

\* how far the wait is
Wait ==
    /\ ticks \in Nat /\ ticks < Ticks
    /\ asked \in Nat /\ since \in Nat /\ since <= asked /\ target \in Nat
    /\ at \in {"check", "hlt"} /\ ~wrapped =>
          target < Ticks /\ (since = asked \/ ticks + (asked - since) = target)
    /\ at = "returned" => since = asked \/ wrapped

IInv == Tables /\ Processor /\ Wait

-----------------------------------------------------------------------------
(* The constants, and sequences of words.                                  *)

LEMMA VectorsAre ==
    /\ \A v \in Vectors : v \in Nat /\ v < 256 /\ v \in isrfillstubs /\ (v < 32 => v \in 0 .. 31)
    /\ \A v \in Faults : v \in Vectors /\ v < 32
<1>1. Vectors \subseteq 0 .. 255 /\ Faults \subseteq Vectors \cap (0 .. 31)
  BY InterruptsAssumption
<1> QED
  BY <1>1 DEF isrfillstubs

LEMMA LinesAre ==
    /\ \A i \in Lines : /\ i \in Nat /\ i \in 0 .. 15 /\ 32 + i - 32 = i
                        /\ 32 + i \in Vectors /\ ~(32 + i < 32) /\ 32 + i \notin CpuPushesCode
    /\ 0 \in Lines /\ 1 \in Lines
<1>1. Lines \subseteq 0 .. 15 /\ {0, 1} \subseteq Lines /\ \A i \in Lines : 32 + i \in Vectors
  BY InterruptsAssumption
<1> QED
  BY <1>1 DEF CpuPushesCode

LEMMA TicksAre == Ticks \in Nat /\ Ticks > 0 /\ \A n \in Waits : n \in Nat /\ n < Ticks
<1>1. Ticks \in Nat \ {0} /\ Waits \subseteq 0 .. Ticks - 1
  BY InterruptsAssumption
<1> QED
  BY <1>1

(* Words pushed on top of others.                                          *)
LEMMA Pushed ==
    ASSUME NEW s \in Seq(Words), NEW t \in Seq(Words)
    PROVE  /\ s \o t \in Seq(Words) /\ Len(s \o t) = Len(s) + Len(t)
           /\ \A k \in 1 .. Len(s) : (s \o t)[k] = s[k]
           /\ s = <<>> => s \o t = t
OBVIOUS

\* the frame that the processor pushes
LEMMA Frame ==
    /\ <<"flags", "cs", "ip">> \in Seq(Words) /\ Len(<<"flags", "cs", "ip">>) = 3
    /\ <<"flags", "cs", "ip">>[3] = "ip"
    /\ <<"code">> \in Seq(Words) /\ Len(<<"code">>) = 1
    /\ <<"number">> \in Seq(Words) /\ Len(<<"number">>) = 1
    /\ <<"zero", "number">> \in Seq(Words) /\ Len(<<"zero", "number">>) = 2
    /\ <<>> \in Seq(Words) /\ Len(<<>>) = 0
BY DEF Words

-----------------------------------------------------------------------------
(* An instruction of the kernel.                                           *)

(* An instruction that leaves the processor to itself keeps Processor if   *)
(* it turns interrupts on and off as it should.                            *)
LEMMA StepKeepsProcessor ==
    ASSUME NEW from, NEW to, IInv, Step(from, to), iflag' <=> Open' \/ at' = "bios"
    PROVE  Processor'
BY DEF IInv, Processor, Step

(* The instructions before the shell runs programs do not touch a wait.    *)
LEMMA StepKeepsWait ==
    ASSUME NEW from, NEW to, IInv, Step(from, to), to \notin {"check", "hlt", "returned"},
           UNCHANGED <<ticks, since, waitVars>>
    PROVE  Wait'
BY DEF IInv, Wait, Step, waitVars

LEMMA EntryKeeps == ASSUME IInv, _entry PROVE IInv'
<1>1. Tables'
  BY DEF IInv, Tables, _entry, Step, BeforeIsrinit, BeforeIrqinit, Stages
<1>2. Processor'
  BY StepKeepsProcessor DEF _entry, Open, Step
<1>3. Wait'
  BY StepKeepsWait DEF _entry
<1> QED
  BY <1>1, <1>2, <1>3 DEF IInv

LEMMA KernelentryKeeps == ASSUME IInv, kernelentry PROVE IInv'
<1>1. /\ Step("stage2", "kernel") /\ iflag' = iflag /\ inst' = inst
      /\ UNCHANGED <<ticks, since, waitVars>>
  BY DEF kernelentry
<1>2. Tables'
  BY <1>1 DEF IInv, Tables, Step, BeforeIsrinit, BeforeIrqinit, Stages
<1>3. Processor'
  BY <1>1, StepKeepsProcessor DEF IInv, Processor, Open, Step
<1>4. Wait'
  BY <1>1, StepKeepsWait
<1> QED
  BY <1>2, <1>3, <1>4 DEF IInv

LEMMA IdtinitKeeps == ASSUME IInv, idtinit PROVE IInv'
<1>1. Tables'
  BY DEF IInv, Tables, idtinit, Step, BeforeIsrinit, BeforeIrqinit, Stages
<1>2. Processor'
  BY StepKeepsProcessor DEF IInv, Processor, idtinit, Open, Step
<1>3. Wait'
  BY StepKeepsWait DEF idtinit
<1> QED
  BY <1>1, <1>2, <1>3 DEF IInv

LEMMA IsrinitKeeps == ASSUME IInv, isrinit PROVE IInv'
<1>1. Tables'
  <2>1. ASSUME NEW v \in Vectors, v < 32 PROVE v \in gates' /\ isrs'[v] = "exception"
    BY <2>1, VectorsAre DEF isrinit
  <2> QED
    BY <2>1 DEF IInv, Tables, isrinit, Step, BeforeIsrinit, BeforeIrqinit, Stages
<1>2. Processor'
  BY StepKeepsProcessor DEF IInv, Processor, isrinit, Open, Step
<1>3. Wait'
  BY StepKeepsWait DEF isrinit
<1> QED
  BY <1>1, <1>2, <1>3 DEF IInv

LEMMA IrqinitKeeps == ASSUME IInv, irqinit PROVE IInv'
<1>1. Tables'
  <2>1. /\ at = "irqinit" /\ at' = "kbdinit" /\ inst' = inst /\ gates' = gates /\ remapped' = TRUE
        /\ imr' = Lines
        /\ isrs' = [v \in Vectors |-> IF v - 32 \in 0 .. 15 THEN "irqstub" ELSE isrs[v]]
    BY DEF irqinit, Step, PIC_REMAP_OFFSET
  <2>2. \A v \in Vectors : v < 32 => v \in gates /\ isrs[v] = "exception"
    BY <2>1 DEF IInv, Tables, BeforeIsrinit
  <2>3. \A v \in Vectors : v < 32 => v \in gates' /\ isrs'[v] = "exception"
    BY <2>1, <2>2, VectorsAre
  <2>4. \A v \in Vectors : v - 32 \in 0 .. 15 => isrs'[v] = "irqstub"
    BY <2>1
  <2> QED
    BY <2>1, <2>3, <2>4 DEF IInv, Tables, BeforeIsrinit, BeforeIrqinit, Stages
<1>2. Processor'
  BY StepKeepsProcessor DEF IInv, Processor, irqinit, Open, Step
<1>3. Wait'
  BY StepKeepsWait DEF irqinit
<1> QED
  BY <1>1, <1>2, <1>3 DEF IInv

\* kbdinit and timerinit
LEMMA DriverInitKeeps ==
    ASSUME IInv, NEW from, NEW i \in {0, 1}, DriverInit(from, i),
           \/ from = "kbdinit" /\ i = 1
           \/ from = "timerinit" /\ i = 0
    PROVE  IInv'
<1>1. Tables'
  <2>1. /\ at = from /\ at' = "cli" /\ inst' = i /\ ready' = ready \cup {i}
        /\ gates' = gates /\ isrs' = isrs /\ irqs' = irqs /\ remapped' = remapped /\ imr' = imr
    BY DEF DriverInit, Step, picVars
  <2>2. at \notin BeforeIrqinit /\ at \notin BeforeIsrinit /\ at # "idtenable"
    BY <2>1 DEF BeforeIsrinit, BeforeIrqinit
  <2>3. /\ \A v \in Vectors : v < 32 => v \in gates /\ isrs[v] = "exception"
        /\ remapped /\ \A v \in Vectors : v - 32 \in 0 .. 15 => isrs[v] = "irqstub"
        /\ \A j \in Lines \ imr : j \in irqs \cap ready /\ 32 + j \in gates
    BY <2>2 DEF IInv, Tables
  <2> QED
    BY <2>1, <2>3 DEF Tables, Stages
<1>2. Processor'
  BY StepKeepsProcessor DEF IInv, Processor, DriverInit, Open, Step
<1>3. Wait'
  BY StepKeepsWait DEF DriverInit
<1> QED
  BY <1>1, <1>2, <1>3 DEF IInv

(* irqinstall: between the line's unmasking and its gate no interrupt is   *)
(* taken.                                                                  *)
LEMMA IrqinstallKeeps == ASSUME IInv, irqinstall PROVE IInv'
<1>1. CASE InstallCli
  <2>1. Tables'
    BY <1>1 DEF IInv, Tables, InstallCli, Step, BeforeIsrinit, BeforeIrqinit, Stages, idtVars, picVars
  <2>2. Processor'
    BY <1>1, StepKeepsProcessor DEF InstallCli, Open, Step
  <2>3. Wait'
    BY <1>1, StepKeepsWait DEF InstallCli
  <2> QED
    BY <2>1, <2>2, <2>3 DEF IInv
<1>2. CASE InstallHandler
  <2>1. Tables'
    BY <1>2 DEF IInv, Tables, InstallHandler, Step, BeforeIsrinit, BeforeIrqinit, Stages, picVars
  <2>2. Processor'
    BY <1>2, StepKeepsProcessor DEF IInv, Processor, InstallHandler, Open, Step
  <2>3. Wait'
    BY <1>2, StepKeepsWait DEF InstallHandler
  <2> QED
    BY <2>1, <2>2, <2>3 DEF IInv
<1>3. CASE irqenable
  <2>1. Tables'
    BY <1>3 DEF IInv, Tables, irqenable, Step, BeforeIsrinit, BeforeIrqinit, Stages, idtVars
  <2>2. Processor'
    BY <1>3, StepKeepsProcessor DEF IInv, Processor, irqenable, Open, Step
  <2>3. Wait'
    BY <1>3, StepKeepsWait DEF irqenable
  <2> QED
    BY <2>1, <2>2, <2>3 DEF IInv
<1>4. CASE idtenable
  <2>1. Tables'
    <3>1. /\ at = "idtenable" /\ at' = "sti" /\ inst' = inst /\ gates' = gates \cup {inst + 32}
          /\ remapped' = remapped /\ imr' = imr /\ isrs' = isrs /\ irqs' = irqs /\ ready' = ready
      BY <1>4 DEF idtenable, Step, picVars, PIC_REMAP_OFFSET
    <3>2. inst + 32 = 32 + inst
      BY DEF IInv, Tables
    <3> QED
      BY <3>1, <3>2 DEF IInv, Tables, BeforeIsrinit, BeforeIrqinit, Stages
  <2>2. Processor'
    BY <1>4, StepKeepsProcessor DEF IInv, Processor, idtenable, Open, Step
  <2>3. Wait'
    BY <1>4, StepKeepsWait DEF idtenable
  <2> QED
    BY <2>1, <2>2, <2>3 DEF IInv
<1>5. CASE InstallSti
  <2>1. at' = (IF inst = 1 THEN "timerinit" ELSE "shell") /\ at = "sti"
    BY <1>5 DEF InstallSti, Step
  <2>2. Tables'
    BY <1>5, <2>1 DEF IInv, Tables, InstallSti, Step, BeforeIsrinit, BeforeIrqinit, Stages, idtVars, picVars
  <2>3. Processor'
    BY <1>5, <2>1, StepKeepsProcessor DEF InstallSti, Open, Step
  <2>4. Wait'
    BY <1>5, StepKeepsWait DEF InstallSti
  <2> QED
    BY <2>2, <2>3, <2>4 DEF IInv
<1> QED
  BY <1>1, <1>2, <1>3, <1>4, <1>5 DEF irqinstall

-----------------------------------------------------------------------------
(* Waiting.                                                                *)

(* A step between the places of the shell and a wait that leaves the       *)
(* tables alone.                                                           *)
LEMMA WaitingKeeps ==
    ASSUME IInv, NEW from, NEW to, Step(from, to),
           {from, to} \subseteq {"shell", "check", "hlt", "returned"},
           iflag' = iflag, inst' = inst, UNCHANGED picVars, UNCHANGED idtVars
    PROVE  Tables' /\ Processor'
<1>1. Tables'
  BY DEF IInv, Tables, Step, BeforeIsrinit, BeforeIrqinit, Stages, idtVars, picVars
<1>2. Processor'
  BY StepKeepsProcessor DEF IInv, Processor, Open, Step
<1> QED
  BY <1>1, <1>2

LEMMA TimerWaitKeeps == ASSUME IInv, NEW n \in Waits, timer_wait(n) PROVE IInv'
<1>1. /\ Step("shell", "check") /\ iflag' = iflag /\ inst' = inst
      /\ UNCHANGED picVars /\ UNCHANGED idtVars
      /\ target' = (ticks + n) % Ticks /\ asked' = n /\ since' = 0 /\ ticks' = ticks
      /\ wrapped' = (ticks + n >= Ticks) /\ at' = "check"
  BY DEF timer_wait, Step
<1>2. Tables' /\ Processor'
  BY <1>1, WaitingKeeps
<1>3. n \in Nat /\ n < Ticks /\ Ticks \in Nat /\ Ticks > 0 /\ ticks \in Nat /\ ticks < Ticks
  BY TicksAre DEF IInv, Wait
<1>4. (ticks + n) % Ticks \in Nat /\ (ticks + n) % Ticks < Ticks
      /\ (ticks + n < Ticks => (ticks + n) % Ticks = ticks + n)
  BY <1>3
<1>5. ~wrapped' => ticks + n < Ticks
  <2>1. ~wrapped' => ~(ticks + n >= Ticks)
    BY <1>1, Zenon
  <2> QED
    BY <1>3, <2>1
<1>6. Wait'
  <2>1. ~wrapped' => target' < Ticks /\ ticks' + (asked' - since') = target'
    BY <1>1, <1>3, <1>4, <1>5
  <2> QED
    BY <1>1, <1>3, <1>4, <2>1 DEF Wait
<1> QED
  BY <1>2, <1>6 DEF IInv

LEMMA TimerCheckKeeps == ASSUME IInv, TimerCheck PROVE IInv'
<1>1. /\ Step("check", IF ticks < target THEN "hlt" ELSE "returned")
      /\ iflag' = iflag /\ inst' = inst /\ UNCHANGED picVars /\ UNCHANGED idtVars
      /\ ticks' = ticks /\ since' = since /\ target' = target /\ asked' = asked /\ wrapped' = wrapped
      /\ at = "check" /\ at' = IF ticks < target THEN "hlt" ELSE "returned"
  BY DEF TimerCheck, Step, waitVars
<1>2. Tables' /\ Processor'
  BY <1>1, WaitingKeeps
<1>3. Wait'
  BY <1>1 DEF IInv, Wait
<1> QED
  BY <1>2, <1>3 DEF IInv

LEMMA HltKeeps == ASSUME IInv, Hlt PROVE IInv'
<1>1. /\ Step("hlt", "check") /\ iflag' = iflag /\ inst' = inst
      /\ UNCHANGED picVars /\ UNCHANGED idtVars
      /\ ticks' = ticks /\ since' = since /\ target' = target /\ asked' = asked /\ wrapped' = wrapped
      /\ at = "hlt" /\ at' = "check"
  BY DEF Hlt, Step, waitVars
<1>2. Tables' /\ Processor'
  BY <1>1, WaitingKeeps
<1>3. Wait'
  BY <1>1 DEF IInv, Wait
<1> QED
  BY <1>2, <1>3 DEF IInv

LEMMA ReturnedKeeps == ASSUME IInv, Returned PROVE IInv'
<1>1. /\ Step("returned", "shell") /\ iflag' = iflag /\ inst' = inst
      /\ UNCHANGED picVars /\ UNCHANGED idtVars
      /\ ticks' = ticks /\ since' = 0 /\ target' = 0 /\ asked' = 0 /\ at' = "shell"
  BY DEF Returned, Step
<1>2. Tables' /\ Processor'
  BY <1>1, WaitingKeeps
<1>3. Wait'
  BY <1>1 DEF IInv, Wait
<1> QED
  BY <1>2, <1>3 DEF IInv

-----------------------------------------------------------------------------
(* From a request to iret.                                                 *)

LEMMA TablesStay ==
    ASSUME IInv, at' = at, inst' = inst, remapped' = remapped, imr' = imr, UNCHANGED idtVars
    PROVE  Tables'
BY DEF IInv, Tables, idtVars

LEMMA WaitStays ==
    ASSUME IInv, at' = at, UNCHANGED <<ticks, since, waitVars>>
    PROVE  Wait'
BY DEF IInv, Wait, waitVars

LEMMA RequestKeeps == ASSUME IInv, NEW i \in Lines, Request(i) PROVE IInv'
<1>1. /\ at' = at /\ inst' = inst /\ remapped' = remapped /\ imr' = imr /\ UNCHANGED idtVars
      /\ UNCHANGED <<ticks, since, waitVars>> /\ cpu' = cpu /\ stack' = stack /\ iflag' = iflag
      /\ vec' = vec
  BY DEF Request, mainVars
<1>2. Tables' /\ Wait'
  BY <1>1, TablesStay, WaitStays
<1>3. Processor'
  BY <1>1 DEF IInv, Processor, Open
<1> QED
  BY <1>2, <1>3 DEF IInv

(* An interrupt for which there is a gate gets to its stub with the frame  *)
(* on the stack.                                                           *)
LEMMA GateKeeps ==
    ASSUME IInv, cpu = "run", Open, NEW v \in Vectors, v \in gates, Gate(v),
           v < 32 \/ v - 32 \in Lines \ imr, at' = at, inst' = inst, imr' = imr
    PROVE  Processor'
<1>1. v \in isrfillstubs
  BY VectorsAre
<1>2. /\ vec' = v /\ cpu' = "stub" /\ iflag' = FALSE
      /\ stack' = stack \o <<"flags", "cs", "ip">>
                        \o (IF v \in CpuPushesCode THEN <<"code">> ELSE <<>>)
  BY <1>1 DEF Gate
<1> DEFINE f == <<"flags", "cs", "ip">>
           c == IF v \in CpuPushesCode THEN <<"code">> ELSE <<>>
<1>3. /\ f \in Seq(Words) /\ Len(f) = 3 /\ f[3] = "ip"
      /\ c \in Seq(Words) /\ Len(c) = (IF v \in CpuPushesCode THEN 1 ELSE 0)
  BY Frame
<1>4. stack = <<>> /\ stack \in Seq(Words)
  BY DEF IInv, Processor
<1>5. stack' = (stack \o f) \o c
  BY <1>2
<1> HIDE DEF f, c
<1>6. stack \o f = f
  BY <1>3, <1>4, Pushed
<1>7. /\ stack' \in Seq(Words) /\ Len(stack') = 3 + Len(c)
      /\ 3 \in 1 .. Len(f) /\ stack'[3] = "ip"
  <2>1. stack' = f \o c /\ 3 \in 1 .. Len(f)
    BY <1>3, <1>5, <1>6
  <2>2. /\ f \o c \in Seq(Words) /\ Len(f \o c) = Len(f) + Len(c)
        /\ \A k \in 1 .. Len(f) : (f \o c)[k] = f[k]
    BY <1>3, Pushed
  <2> QED
    BY <1>3, <2>1, <2>2
<1>8. Len(stack') = IF v \in CpuPushesCode THEN 4 ELSE 3
  BY <1>3, <1>7
<1>9. Open'
  BY DEF Open
<1> QED
  BY <1>2, <1>7, <1>8, <1>9 DEF Processor

LEMMA TakeKeeps == ASSUME IInv, NEW i \in Lines, Take(i) PROVE IInv'
<1>1. /\ cpu = "run" /\ iflag /\ at # "bios" /\ Deliverable(i) /\ Gate(Vector(i))
      /\ at' = at /\ inst' = inst /\ remapped' = remapped /\ imr' = imr /\ UNCHANGED idtVars
      /\ UNCHANGED <<ticks, since, waitVars>>
  BY DEF Take
<1>2. Tables' /\ Wait'
  BY <1>1, TablesStay, WaitStays
<1>3. Open /\ i \in Lines \ imr
  BY <1>1 DEF IInv, Processor, Deliverable
<1>4. at \notin BeforeIrqinit /\ at # "idtenable"
  BY <1>3 DEF Open, BeforeIrqinit, BeforeIsrinit
<1>5. remapped /\ 32 + i \in gates
  BY <1>3, <1>4 DEF IInv, Tables
<1>6. Vector(i) = 32 + i /\ 32 + i \in Vectors /\ i \in Nat
  BY <1>5, LinesAre DEF Vector, PIC_REMAP_OFFSET
<1>7. Processor'
  <2> DEFINE v == 32 + i
  <2>1. v \in Vectors /\ v \in gates
    BY <1>5, <1>6
  <2>2. Gate(v)
    BY <1>1, <1>6
  <2>3. v - 32 = i
    BY <1>6
  <2> HIDE DEF v
  <2> QED
    BY <1>1, <1>3, <2>1, <2>2, <2>3, GateKeeps
<1> QED
  BY <1>2, <1>7 DEF IInv

LEMMA FaultKeeps == ASSUME IInv, NEW v \in Faults, Fault(v) PROVE IInv'
<1>1. /\ cpu = "run" /\ at = "shell" /\ Gate(v)
      /\ at' = at /\ inst' = inst /\ remapped' = remapped /\ imr' = imr /\ UNCHANGED idtVars
      /\ UNCHANGED <<ticks, since, waitVars>>
  BY DEF Fault, picVars
<1>2. Tables' /\ Wait'
  BY <1>1, TablesStay, WaitStays
<1>3. v \in Vectors /\ v < 32
  BY VectorsAre
<1>4. v \in gates
  BY <1>1, <1>3 DEF IInv, Tables, BeforeIsrinit
<1>5. Open
  BY <1>1 DEF Open
<1>6. Processor'
  BY <1>1, <1>3, <1>4, <1>5, GateKeeps
<1> QED
  BY <1>2, <1>6 DEF IInv

(* The stub makes the frames alike: ISR_ERR has the vectors for which the  *)
(* processor pushes a code.                                                *)
LEMMA StubKeeps == ASSUME IInv, Stub PROVE IInv'
<1> DEFINE w == IF vec \in ISR_ERR THEN <<"number">> ELSE <<"zero", "number">>
<1>1. /\ cpu = "stub" /\ cpu' = "handler" /\ stack' = stack \o w
      /\ at' = at /\ inst' = inst /\ remapped' = remapped /\ imr' = imr /\ UNCHANGED idtVars
      /\ UNCHANGED <<ticks, since, waitVars>> /\ iflag' = iflag /\ vec' = vec
  BY DEF Stub, mainVars, picVars
<1>2. Tables' /\ Wait'
  BY <1>1, TablesStay, WaitStays
<1>3. w \in Seq(Words) /\ Len(w) = IF vec \in ISR_ERR THEN 1 ELSE 2
  BY Frame
<1> HIDE DEF w
<1>4. /\ stack \in Seq(Words) /\ stack[3] = "ip"
      /\ Len(stack) = IF vec \in CpuPushesCode THEN 4 ELSE 3
  BY <1>1 DEF IInv, Processor
<1>5. CpuPushesCode = ISR_ERR
  BY DEF CpuPushesCode, ISR_ERR
<1>6. /\ stack' \in Seq(Words) /\ Len(stack') = 5 /\ stack'[3] = "ip"
  <2>1. /\ stack \o w \in Seq(Words) /\ Len(stack \o w) = Len(stack) + Len(w)
        /\ \A k \in 1 .. Len(stack) : (stack \o w)[k] = stack[k]
    BY <1>3, <1>4, Pushed
  <2>2. 3 \in 1 .. Len(stack) /\ Len(stack) + Len(w) = 5
    BY <1>3, <1>4, <1>5
  <2> QED
    BY <1>1, <1>4, <2>1, <2>2
<1>7. Processor'
  BY <1>1, <1>6 DEF IInv, Processor, Open
<1> QED
  BY <1>2, <1>7 DEF IInv

LEMMA IsrhandlerKeeps == ASSUME IInv, isrhandler PROVE IInv'
<1>1. /\ cpu = "handler"
      /\ cpu' = CASE isrs[vec] = "exception" -> "stopped"
                  [] isrs[vec] = "irqstub" /\ vec - 32 \in irqs \cap ready -> "eoi"
                  [] OTHER -> "astray"
      /\ \/ ticks' = (ticks + 1) % Ticks /\ since' = IF since < asked THEN since + 1 ELSE since
         \/ ticks' = ticks /\ since' = since
      /\ at' = at /\ inst' = inst /\ remapped' = remapped /\ imr' = imr /\ UNCHANGED idtVars
      /\ UNCHANGED waitVars /\ iflag' = iflag /\ vec' = vec /\ stack' = stack
  BY DEF isrhandler, mainVars, picVars, PIC_REMAP_OFFSET
<1>2. Tables'
  BY <1>1, TablesStay
<1>3. Open /\ vec \in Vectors /\ (vec < 32 \/ vec - 32 \in Lines \ imr)
  BY <1>1 DEF IInv, Processor
<1>4. at \notin BeforeIrqinit /\ at \notin BeforeIsrinit
  BY <1>3 DEF Open, BeforeIrqinit, BeforeIsrinit
<1>5. cpu' \in {"stopped", "eoi"}
  <2>1. CASE vec < 32
    <3>1. isrs[vec] = "exception"
      BY <1>3, <1>4, <2>1 DEF IInv, Tables
    <3> QED
      BY <1>1, <3>1
  <2>2. CASE vec - 32 \in Lines \ imr
    <3>1. vec - 32 \in 0 .. 15
      BY <2>2, LinesAre
    <3>2. isrs[vec] = "irqstub" /\ vec - 32 \in irqs \cap ready
      BY <1>3, <1>4, <2>2, <3>1 DEF IInv, Tables
    <3> QED
      BY <1>1, <3>2
  <2> QED
    BY <1>3, <2>1, <2>2
<1>6. Processor'
  BY <1>1, <1>5 DEF IInv, Processor, Open
<1>7. Wait'
  <2>1. CASE ticks' = ticks /\ since' = since
    BY <1>1, <2>1, WaitStays
  <2>2. CASE ticks' = (ticks + 1) % Ticks /\ since' = IF since < asked THEN since + 1 ELSE since
    <3>1. /\ ticks \in Nat /\ ticks < Ticks /\ Ticks \in Nat
          /\ asked \in Nat /\ since \in Nat /\ since <= asked /\ target \in Nat
      BY TicksAre DEF IInv, Wait
    <3>2. ticks' \in Nat /\ ticks' < Ticks /\ (ticks + 1 < Ticks => ticks' = ticks + 1)
      BY <2>2, <3>1
    <3>3. since' \in Nat /\ since' <= asked /\ (since = asked => since' = asked)
      BY <2>2, <3>1
    <3>4. ASSUME since < asked, target < Ticks, ticks + (asked - since) = target
          PROVE  since' = asked \/ ticks' + (asked - since') = target
      BY <2>2, <3>1, <3>2, <3>4
    <3>5. since = asked \/ since < asked
      BY <3>1
    <3>6. asked' = asked /\ target' = target /\ wrapped' = wrapped
      BY <1>1 DEF waitVars
    <3> QED
      BY <1>1, <3>1, <3>2, <3>3, <3>4, <3>5, <3>6 DEF IInv, Wait
  <2> QED
    BY <1>1, <2>1, <2>2
<1> QED
  BY <1>2, <1>6, <1>7 DEF IInv

LEMMA EoiKeeps == ASSUME IInv, Eoi PROVE IInv'
<1>1. /\ cpu = "eoi" /\ cpu' = "iret" /\ stack' = stack
      /\ at' = at /\ inst' = inst /\ remapped' = remapped /\ imr' = imr /\ UNCHANGED idtVars
      /\ UNCHANGED <<ticks, since, waitVars>> /\ iflag' = iflag /\ vec' = vec
  BY DEF Eoi, mainVars
<1>2. Tables' /\ Wait'
  BY <1>1, TablesStay, WaitStays
<1>3. Processor'
  BY <1>1 DEF IInv, Processor, Open
<1> QED
  BY <1>2, <1>3 DEF IInv

(* iret finds the frame, and nothing is left on the stack.                 *)
LEMMA IretKeeps == ASSUME IInv, Iret PROVE IInv'
<1> DEFINE frame == SubSeq(stack, 1, Len(stack) - 2)
<1>1. /\ cpu = "iret"
      /\ IF Len(frame) >= 3 /\ frame[Len(frame)] = "ip"
         THEN cpu' = "run" /\ iflag' = TRUE /\ stack' = SubSeq(frame, 1, Len(frame) - 3)
         ELSE cpu' = "astray" /\ UNCHANGED <<iflag, stack>>
      /\ at' = at /\ inst' = inst /\ remapped' = remapped /\ imr' = imr /\ UNCHANGED idtVars
      /\ UNCHANGED <<ticks, since, waitVars>> /\ vec' = vec
  BY DEF Iret, mainVars, picVars
<1>2. Tables' /\ Wait'
  BY <1>1, TablesStay, WaitStays
<1>3. stack \in Seq(Words) /\ Len(stack) = 5 /\ stack[3] = "ip" /\ Open
  BY <1>1 DEF IInv, Processor
<1>4. frame \in Seq(Words) /\ Len(frame) = 3 /\ frame[3] = "ip"
  BY <1>3
<1> HIDE DEF frame
<1>5. SubSeq(frame, 1, Len(frame) - 3) = <<>>
  BY <1>4
<1>6. cpu' = "run" /\ iflag' = TRUE /\ stack' = <<>>
  BY <1>1, <1>4, <1>5
<1>7. Processor'
  BY <1>1, <1>3, <1>6, Frame DEF Processor, Open
<1> QED
  BY <1>2, <1>7 DEF IInv

-----------------------------------------------------------------------------
(* The theorems.                                                           *)

LEMMA InitHolds == ASSUME Init PROVE IInv
<1>1. /\ at = "bios" /\ inst = 0 /\ iflag = TRUE /\ cpu = "run" /\ stack = <<>>
      /\ ticks = 0 /\ target = 0 /\ asked = 0 /\ since = 0
  BY DEF Init, InterruptsInit
<1>2. Tables
  BY <1>1 DEF Tables, BeforeIrqinit, BeforeIsrinit, Stages
<1>3. Processor
  BY <1>1, Frame DEF Processor, Open
<1>4. Wait
  BY <1>1, TicksAre DEF Wait
<1> QED
  BY <1>2, <1>3, <1>4 DEF IInv

LEMMA StayKeeps == ASSUME IInv, UNCHANGED cpuVars PROVE IInv'
<1>1. /\ at' = at /\ inst' = inst /\ remapped' = remapped /\ imr' = imr /\ UNCHANGED idtVars
      /\ UNCHANGED <<ticks, since, waitVars>> /\ cpu' = cpu /\ stack' = stack /\ iflag' = iflag
      /\ vec' = vec
  BY DEF cpuVars, mainVars, picVars
<1>2. Tables' /\ Wait'
  BY <1>1, TablesStay, WaitStays
<1>3. Processor'
  BY <1>1 DEF IInv, Processor, Open
<1> QED
  BY <1>2, <1>3 DEF IInv

LEMMA NextKeeps == ASSUME IInv, [Next]_vars PROVE IInv'
<1>1. CASE Load
  BY <1>1, StayKeeps DEF Load
<1>2. CASE Stage2Main
  BY <1>2, EntryKeeps DEF Stage2Main
<1>3. CASE kernelentry
  BY <1>3, KernelentryKeeps
<1>4. CASE Devices
  BY <1>4, RequestKeeps DEF Devices
<1>5. CASE Machine
  <2>1. CASE Kernel
    <3>1. CASE kbdinit
      BY <3>1, DriverInitKeeps DEF kbdinit
    <3>2. CASE timerinit
      BY <3>2, DriverInitKeeps DEF timerinit
    <3> QED
      BY <2>1, <3>1, <3>2, IdtinitKeeps, IsrinitKeeps, IrqinitKeeps, IrqinstallKeeps,
         TimerCheckKeeps, HltKeeps, ReturnedKeeps DEF Kernel
  <2>2. CASE Interrupt
    BY <2>2, StubKeeps, IsrhandlerKeeps, EoiKeeps, IretKeeps, TakeKeeps DEF Interrupt
  <2> QED
    BY <1>5, <2>1, <2>2 DEF Machine
<1>6. CASE Users
  BY <1>6, TimerWaitKeeps, FaultKeeps DEF Users, Program
<1>7. CASE vars' = vars
  BY <1>7, StayKeeps DEF vars
<1> QED
  BY <1>1, <1>2, <1>3, <1>4, <1>5, <1>6, <1>7 DEF Next

(* As far as the kernel has come, what it will be interrupted for is set   *)
(* up, and the stack has the frames that handlers and iret expect          *)
(* (main.c:31-38, irq.c:43-63, x86.S:127-150).                             *)
THEOREM InterruptsInvariant == Spec => []IInv
<1>1. Init => IInv
  BY InitHolds
<1>2. IInv /\ [Next]_vars => IInv'
  BY NextKeeps
<1> QED
  BY <1>1, <1>2, PTL DEF Spec

(* No interrupt or exception meets a missing gate, handler or frame, from  *)
(* the BIOS on.                                                            *)
THEOREM InterruptsNoneAstray == Spec => []NoneAstray
<1>1. IInv => NoneAstray
  BY DEF IInv, Processor, NoneAstray
<1> QED
  BY <1>1, InterruptsInvariant, PTL

(* timer_wait does not return before the ticks asked for, unless the sum   *)
(* wraps (timer.c:27-36).                                                  *)
THEOREM InterruptsWaitsAsAsked == Spec => []WaitsAsAsked
<1>1. IInv => WaitsAsAsked
  BY DEF IInv, Wait, WaitsAsAsked
<1> QED
  BY <1>1, InterruptsInvariant, PTL

-----------------------------------------------------------------------------
(* The loader.  First what its loops rest on: induction over 0 .. K, and   *)
(* quotients.                                                              *)

(* A bounded set of numbers has a least one.                               *)
LEMMA Least ==
    ASSUME NEW K \in Nat, NEW T, T \subseteq 0 .. K, T # {}
    PROVE  \E m \in T : \A k \in T : m <= k
<1> DEFINE U == 0 .. K
           Below(k) == 0 .. k
           B == {Below(k) : k \in T}
<1>1. IsFiniteSet(U)
  BY FS_Interval
<1>2. \A k \in T : Below(k) \in SUBSET U
  OBVIOUS
<1>3. FiniteSubsetsOf(U) = SUBSET U
  <2> HIDE DEF U
  <2> QED BY <1>1, FS_FiniteSubsetsOfFinite
<1>4. B \subseteq FiniteSubsetsOf(U) /\ B # {}
  <2>1. B # {}
    OBVIOUS
  <2> HIDE DEF Below, U
  <2> QED BY <1>2, <1>3, <2>1
<1>5. \E V \in B : \A W \in B : ~ (<<W, V>> \in StrictSubsetOrdering(U))
  <2> HIDE DEF B, U
  <2> QED BY <1>1, <1>4, FS_StrictSubsetOrderingWellFounded, WFMin
<1>6. PICK m \in T : \A k \in T : ~ (<<Below(k), Below(m)>> \in StrictSubsetOrdering(U))
  <2> HIDE DEF Below
  <2> QED BY <1>5
<1>7. ASSUME NEW k \in T, k < m PROVE FALSE
  <2>1. Below(k) \subseteq Below(m) /\ Below(k) # Below(m)
    <3>1. m \in Below(m) /\ m \notin Below(k)
      BY <1>7
    <3>2. Below(k) \subseteq Below(m)
      BY <1>7
    <3> HIDE DEF Below
    <3> QED BY <3>1, <3>2
  <2> HIDE DEF Below, U
  <2>2. <<Below(k), Below(m)>> \in StrictSubsetOrdering(U)
    BY <1>2, <1>3, <2>1 DEF StrictSubsetOrdering
  <2> QED BY <1>6, <2>2
<1>8. \A k \in T : m <= k
  BY <1>7
<1> QED BY <1>8

(* What holds at 0 and goes from n to n + 1 holds up to K.                 *)
LEMMA Induction ==
    ASSUME NEW K \in Nat, NEW T, 0 \in T, \A n \in 0 .. K - 1 : n \in T => n + 1 \in T
    PROVE  \A n \in 0 .. K : n \in T
<1> DEFINE R == {n \in 0 .. K : n \notin T}
<1> SUFFICES ASSUME R # {} PROVE FALSE
  OBVIOUS
<1>1. R \subseteq 0 .. K
  OBVIOUS
<1>2. \E m \in R : \A k \in R : m <= k
  <2> HIDE DEF R
  <2> QED BY <1>1, Least
<1>3. PICK m \in R : \A k \in R : m <= k
  BY <1>2
<1>4. m # 0 /\ m - 1 \in 0 .. K - 1
  OBVIOUS
<1>5. m - 1 \in T
  BY <1>3, <1>4
<1> QED BY <1>4, <1>5

(* A loop that starts with x and iterates F, and goes from Good[k - 1] to  *)
(* Good[k] in its k-th iteration.                                          *)
Runs(f, K, Good, x, F) ==
    /\ f = [k \in 0 .. K |-> f[k]]
    /\ f[0] = x /\ x \in Good[0]
    /\ \A k \in 1 .. K : f[k] = F[f[k - 1]]
    /\ \A k \in 0 .. K : f[k] \in Good[k]

(* There is a function that a loop computes, and it keeps Good[k] after k  *)
(* rounds.                                                                 *)
LEMMA Recursion ==
    ASSUME NEW K \in Nat, NEW Good, NEW F, NEW x \in Good[0],
           \A k \in 1 .. K : \A s \in Good[k - 1] : F[s] \in Good[k]
    PROVE  \E f : Runs(f, K, Good, x, F)
<1> DEFINE T == {n \in 0 .. K : \E f : Runs(f, n, Good, x, F)}
<1>1. 0 \in T
  <2> DEFINE g == [k \in 0 .. 0 |-> x]
  <2>1. Runs(g, 0, Good, x, F)
    BY DEF Runs
  <2> QED BY <2>1
<1>2. ASSUME NEW n \in 0 .. K - 1, n \in T PROVE n + 1 \in T
  <2>1. PICK f : Runs(f, n, Good, x, F)
    BY <1>2
  <2> DEFINE g == [k \in 0 .. n + 1 |-> IF k = n + 1 THEN F[f[n]] ELSE f[k]]
  <2>2. g[0] = x /\ g = [k \in 0 .. n + 1 |-> g[k]]
    BY <2>1 DEF Runs
  <2>3. ASSUME NEW k \in 1 .. n + 1 PROVE g[k] = F[g[k - 1]]
    <3>1. CASE k = n + 1
      BY <3>1
    <3>2. CASE k # n + 1
      <4>1. k \in 1 .. n /\ g[k] = f[k] /\ g[k - 1] = f[k - 1]
        BY <3>2
      <4> HIDE DEF g
      <4> QED BY <2>1, <4>1 DEF Runs
    <3> QED BY <3>1, <3>2
  <2>4. ASSUME NEW k \in 0 .. n + 1 PROVE g[k] \in Good[k]
    <3>1. CASE k = n + 1
      <4>1. f[n] \in Good[n] /\ g[k] = F[f[n]]
        BY <2>1, <3>1 DEF Runs
      <4>2. n + 1 \in 1 .. K /\ n + 1 - 1 = n
        OBVIOUS
      <4> HIDE DEF g
      <4> QED BY <3>1, <4>1, <4>2
    <3>2. CASE k # n + 1
      <4>1. k \in 0 .. n /\ g[k] = f[k]
        BY <3>2
      <4> HIDE DEF g
      <4> QED BY <2>1, <4>1 DEF Runs
    <3> QED BY <3>1, <3>2
  <2> HIDE DEF g
  <2>5. Runs(g, n + 1, Good, x, F)
    BY <2>2, <2>3, <2>4 DEF Runs
  <2> QED BY <2>5
<1>3. K \in T
  <2> HIDE DEF T
  <2> QED BY <1>1, <1>2, Induction
<1> QED BY <1>3

(* Two functions that begin alike and go on alike are the same.            *)
LEMMA SameRun ==
    ASSUME NEW K \in Nat, NEW f, NEW g, f[0] = g[0],
           \A k \in 1 .. K : f[k - 1] = g[k - 1] => f[k] = g[k]
    PROVE  \A k \in 0 .. K : f[k] = g[k]
<1> DEFINE T == {k \in 0 .. K : f[k] = g[k]}
<1>1. 0 \in T
  OBVIOUS
<1>2. ASSUME NEW n \in 0 .. K - 1, n \in T PROVE n + 1 \in T
  <2>1. n + 1 \in 1 .. K /\ n + 1 - 1 = n
    OBVIOUS
  <2> QED BY <1>2, <2>1
<1>3. \A n \in 0 .. K : n \in T
  <2> HIDE DEF T
  <2> QED BY <1>1, <1>2, Induction
<1> QED BY <1>3

(* A quotient and a remainder are known from any division.                 *)
LEMMA Division ==
    ASSUME NEW b \in Nat, b > 0, NEW q \in Int, NEW r \in 0 .. b - 1, NEW x \in Int, x = b * q + r
    PROVE  x \div b = q /\ x % b = r
<1> DEFINE p == x \div b
           s == x % b
<1>2. x = b * p + s /\ s \in 0 .. b - 1 /\ p \in Int
  OBVIOUS
<1> HIDE DEF p, s
<1>3. CASE p >= q + 1
  <2>1. b * p >= b * (q + 1)
    BY <1>2, <1>3
  <2>2. b * (q + 1) = b * q + b
    OBVIOUS
  <2> QED BY <1>2, <2>1, <2>2
<1>4. CASE q >= p + 1
  <2>1. b * q >= b * (p + 1)
    BY <1>2, <1>4
  <2>2. b * (p + 1) = b * p + b
    BY <1>2
  <2> QED BY <1>2, <2>1, <2>2
<1>5. CASE p = q
  BY <1>2, <1>5 DEF p, s
<1> QED BY <1>2, <1>3, <1>4, <1>5

(* Quotient and remainder.                                                 *)
LEMMA Divided ==
    ASSUME NEW b \in Nat, b > 0, NEW x \in Nat
    PROVE  x = b * (x \div b) + (x % b) /\ x % b \in 0 .. b - 1 /\ x \div b \in Nat
<1> DEFINE q == x \div b
           r == x % b
<1>1. x = b * q + r /\ r \in 0 .. b - 1 /\ q \in Int
  OBVIOUS
<1> HIDE DEF q, r
<1>2. q >= 0
  <2> SUFFICES ASSUME q <= -1 PROVE FALSE
    BY <1>1
  <2>1. b * q <= b * (-1)
    BY <1>1
  <2> QED BY <1>1, <2>1
<1>3. x = b * q + r /\ r \in 0 .. b - 1 /\ q \in Nat
  BY <1>1, <1>2
<1> QED BY <1>3 DEF q, r

(* Rounding down gives the greatest number of whole blocks in x.           *)
LEMMA FloorIs ==
    ASSUME NEW b \in Nat, b > 0, NEW x \in Nat, NEW n \in Nat
    PROVE  /\ x <= n * b => x \div b <= n
           /\ x < n * b <=> x \div b < n
           /\ x \div b \in Nat
<1> DEFINE k == x \div b
           r == x % b
<1>1. x = b * k + r /\ r \in 0 .. b - 1 /\ k \in Nat
  BY Divided
<1> HIDE DEF k, r
<1>2. ASSUME k >= n + 1 PROVE x >= n * b + b
  <2>1. b * k >= b * (n + 1)
    BY <1>1, <1>2
  <2>2. b * (n + 1) = n * b + b
    OBVIOUS
  <2> QED BY <1>1, <2>1, <2>2
<1>3. ASSUME n >= k + 1 PROVE x < n * b
  <2>1. b * n >= b * (k + 1)
    BY <1>1, <1>3
  <2>2. b * (k + 1) = b * k + b /\ b * n = n * b
    BY <1>1
  <2> QED BY <1>1, <2>1, <2>2
<1>4. ASSUME k = n PROVE x >= n * b
  <2>1. b * k = n * b
    BY <1>1, <1>4
  <2> QED BY <1>1, <2>1
<1>5. n * b \in Nat
  OBVIOUS
<1>6. k \in Nat /\ (x <= n * b => k <= n) /\ (x < n * b <=> k < n)
  BY <1>1, <1>2, <1>3, <1>4, <1>5
<1> QED BY <1>6 DEF k
-----------------------------------------------------------------------------
(* The disk and the table.                                                 *)

LEMMA BootConstants ==
    /\ S \in Nat /\ S > 0 /\ SPC \in Nat /\ SPC > 0 /\ PerFat \in Nat /\ PerFat > 0
    /\ FatSize \in Nat /\ END \in Nat /\ MemSize \in Nat /\ MaxList \in Nat /\ MaxList > 0
    /\ PerFat * FatSize \in Nat /\ SPC * S \in Nat /\ SPC * S > 0
    /\ Numbers \subseteq Nat /\ \A c \in Numbers : c < END
<1>1. /\ {S, SPC, PerFat, FatSize, END, MemSize, MaxList} \subseteq Nat \ {0}
      /\ END >= PerFat * FatSize
  BY BootAssumption
<1>2. PerFat * FatSize \in Nat /\ SPC * S \in Nat /\ SPC * S > 0
  <2>1. {S, SPC, PerFat, FatSize} \subseteq Nat \ {0}
    BY <1>1
  <2> QED BY <2>1
<1> QED BY <1>1, <1>2 DEF Numbers

(* The disk that the machine starts from.                                  *)
LEMMA DiskIs ==
    ASSUME disk \in Images
    PROVE  /\ disk.dir \in Seq(Numbers) /\ Len(disk.dir) \in Nat /\ Len(disk.dir) > 0
           /\ disk.kernel \in Seq(Numbers) /\ Len(disk.kernel) \in Nat /\ Len(disk.kernel) > 0
           /\ \A i \in 1 .. Len(disk.dir) : disk.dir[i] \in Numbers
           /\ \A i \in 1 .. Len(disk.kernel) : disk.kernel[i] \in Numbers
           /\ \A i, j \in 1 .. Len(disk.kernel) : disk.kernel[i] = disk.kernel[j] => i = j
           /\ \A i \in 1 .. Len(disk.dir), j \in 1 .. Len(disk.kernel) : disk.dir[i] # disk.kernel[j]
           /\ disk.size \in Nat /\ disk.size <= (Len(disk.kernel) * SPC) * S
<1> DEFINE a == disk.dir
           b == disk.kernel
<1>1. /\ {a, b} \subseteq Seq(Numbers) \ {<<>>}
      /\ disk.size \in Nat /\ disk.size <= (Len(b) * SPC) * S
      /\ \A i, j \in 1 .. Len(a \o b) : (a \o b)[i] = (a \o b)[j] => i = j
  BY BootAssumption
<1> HIDE DEF a, b
<1>2. a \in Seq(Numbers) /\ b \in Seq(Numbers) /\ a # <<>> /\ b # <<>>
  BY <1>1
<1>3. Len(a) \in Nat /\ Len(a) > 0 /\ Len(b) \in Nat /\ Len(b) > 0
  BY <1>2
<1>4. \A i \in 1 .. Len(a) : a[i] \in Numbers /\ (a \o b)[i] = a[i] /\ i \in 1 .. Len(a \o b)
  BY <1>2
<1>5. \A i \in 1 .. Len(b) : /\ b[i] \in Numbers /\ (a \o b)[Len(a) + i] = b[i]
                             /\ Len(a) + i \in 1 .. Len(a \o b)
  BY <1>2
<1>6. ASSUME NEW i \in 1 .. Len(b), NEW j \in 1 .. Len(b), b[i] = b[j] PROVE i = j
  <2>1. Len(a) + i = Len(a) + j
    BY <1>1, <1>5, <1>6
  <2> QED BY <1>3, <2>1
<1>7. ASSUME NEW i \in 1 .. Len(a), NEW j \in 1 .. Len(b) PROVE a[i] # b[j]
  <2>1. i # Len(a) + j
    BY <1>3
  <2> QED BY <1>1, <1>4, <1>5, <2>1
<1> QED BY <1>1, <1>2, <1>3, <1>4, <1>5, <1>6, <1>7 DEF a, b

(* Its segments.                                                           *)
LEMMA SegmentsAre ==
    ASSUME disk \in Images
    PROVE  /\ Len(disk.segs) \in Nat
           /\ \A k \in 1 .. Len(disk.segs) :
                LET p == disk.segs[k]
                IN  /\ p.off \in Nat /\ p.filesz \in Nat /\ p.memsz \in Nat /\ p.addr \in Nat
                    /\ p.filesz <= p.memsz /\ p.off + p.filesz <= disk.size
                    /\ p.addr + p.memsz <= MemSize
                    /\ \A j \in 1 .. Len(disk.segs) : k < j => p.addr + p.memsz <= disk.segs[j].addr
<1> DEFINE t == disk.segs
           R == [off : Nat, filesz : Nat, memsz : Nat, addr : Nat]
<1>1. /\ t \in Seq(R)
      /\ \A k \in 1 .. Len(t) :
            /\ t[k].filesz <= t[k].memsz
            /\ t[k].off + t[k].filesz <= disk.size
            /\ t[k].addr + t[k].memsz <= MemSize
            /\ \A j \in k + 1 .. Len(t) : t[k].addr + t[k].memsz <= t[j].addr
  BY BootAssumption
<1> HIDE DEF t
<1>2. Len(t) \in Nat /\ \A k \in 1 .. Len(t) : t[k] \in R
  <2> HIDE DEF R
  <2> QED BY <1>1
<1>3. ASSUME NEW k \in 1 .. Len(t), NEW j \in 1 .. Len(t), k < j PROVE j \in k + 1 .. Len(t)
  BY <1>2, <1>3
<1> QED BY <1>1, <1>2, <1>3 DEF t

(* The entry of a cluster of the kernel.                                   *)
LEMMA EntryIs ==
    ASSUME disk \in Images, NEW c
    PROVE  /\ Entry(c) \in Nat
           /\ \A i \in 1 .. Len(disk.kernel) : c = disk.kernel[i] =>
                 Entry(c) = IF i = Len(disk.kernel) THEN END ELSE disk.kernel[i + 1]
<1> DEFINE NextIn(chain) == {IF i = Len(chain) THEN END ELSE chain[i + 1] :
                                i \in {j \in 1 .. Len(chain) : chain[j] = c}}
           a == disk.dir
           b == disk.kernel
           next == NextIn(a) \cup NextIn(b)
<1>1. Entry(c) = IF next = {} THEN 0 ELSE CHOOSE e \in next : TRUE
  BY DEF Entry
<1>2. /\ Len(a) \in Nat /\ Len(b) \in Nat /\ END \in Nat
      /\ \A i \in 1 .. Len(a) : a[i] \in Nat
      /\ \A i \in 1 .. Len(b) : b[i] \in Nat
      /\ \A i, j \in 1 .. Len(b) : b[i] = b[j] => i = j
      /\ \A i \in 1 .. Len(a), j \in 1 .. Len(b) : a[i] # b[j]
  BY DiskIs, BootConstants
<1> HIDE DEF a, b
<1>3. NextIn(a) \subseteq Nat /\ NextIn(b) \subseteq Nat
  BY <1>2
<1>4. ASSUME NEW i \in 1 .. Len(b), c = b[i]
      PROVE  next = {IF i = Len(b) THEN END ELSE b[i + 1]}
  <2>1. {j \in 1 .. Len(a) : a[j] = c} = {}
    BY <1>2, <1>4
  <2>2. {j \in 1 .. Len(b) : b[j] = c} = {i}
    BY <1>2, <1>4
  <2> QED BY <2>1, <2>2
<1> HIDE DEF next
<1>5. Entry(c) \in Nat
  <2>1. next \subseteq Nat
    BY <1>3 DEF next
  <2>2. CASE next = {}
    BY <1>1, <2>2
  <2>3. CASE next # {}
    <3>1. (CHOOSE e \in next : TRUE) \in next
      BY <2>3
    <3> QED BY <1>1, <2>1, <2>3, <3>1
  <2> QED BY <2>2, <2>3
<1>6. ASSUME NEW i \in 1 .. Len(b), c = b[i]
      PROVE  Entry(c) = IF i = Len(b) THEN END ELSE b[i + 1]
  <2> DEFINE e == IF i = Len(b) THEN END ELSE b[i + 1]
  <2>1. next = {e}
    BY <1>4, <1>6
  <2> HIDE DEF e
  <2>2. Entry(c) = e
    BY <1>1, <2>1
  <2> QED BY <2>2 DEF e
<1> QED BY <1>5, <1>6 DEF b

(* The units of a sector of the kernel are numbered as in the file.        *)
LEMMA UnitIs ==
    ASSUME disk \in Images, NEW held \in Nat \X Nat, NEW u \in Nat
    PROVE  /\ UnitAt(held, u) \in Int
           /\ \A i \in 1 .. Len(disk.kernel) : held[1] = disk.kernel[i] =>
                 UnitAt(held, u) = (((i - 1) * SPC) + held[2]) * S + u
<1> DEFINE In(chain) == {i \in 1 .. Len(chain) : chain[i] = held[1]}
           a == disk.dir
           b == disk.kernel
           both == In(a) \cup In(b)
           i0 == CHOOSE i \in both : TRUE
<1>1. UnitAt(held, u) = IF both = {} THEN JUNK ELSE (((i0 - 1) * SPC) + held[2]) * S + u
  BY DEF UnitAt
<1>2. /\ Len(a) \in Nat /\ Len(b) \in Nat
      /\ \A i, j \in 1 .. Len(b) : b[i] = b[j] => i = j
      /\ \A i \in 1 .. Len(a), j \in 1 .. Len(b) : a[i] # b[j]
  BY DiskIs
<1> HIDE DEF a, b
<1>3. both \subseteq Nat /\ (both # {} => i0 \in Nat)
  <2>1. both \subseteq Nat
    BY <1>2
  <2> HIDE DEF both
  <2> QED BY <2>1
<1>4. ASSUME NEW i \in 1 .. Len(b), held[1] = b[i] PROVE both = {i}
  <2>1. In(a) = {}
    BY <1>2, <1>4
  <2>2. In(b) = {i}
    BY <1>2, <1>4
  <2> QED BY <2>1, <2>2
<1> HIDE DEF both
<1>5. \A i \in Int : (((i - 1) * SPC) + held[2]) * S + u \in Int
  BY BootConstants
<1>6. UnitAt(held, u) \in Int
  <2>1. JUNK \in Int
    BY DEF JUNK
  <2> HIDE DEF i0
  <2> QED BY <1>1, <1>3, <1>5, <2>1
<1>7. ASSUME NEW i \in 1 .. Len(b), held[1] = b[i]
      PROVE  UnitAt(held, u) = (((i - 1) * SPC) + held[2]) * S + u
  <2>1. both = {i}
    BY <1>4, <1>7
  <2>2. i0 = i /\ both # {}
    BY <2>1
  <2> HIDE DEF i0
  <2> QED BY <1>1, <2>2
<1> QED BY <1>6, <1>7 DEF b

(* The window begins with a sector.                                        *)
Window(w) == w \in Nat /\ w % PerFat = 0

(* fatclustervalue finds the entry of a cluster, whatever the window.      *)
LEMMA ValueIs ==
    ASSUME disk \in Images, NEW x, Window(x.win), x.cluster \in Nat
    PROVE  LET y == fatclustervalue(x)
           IN  /\ Window(y.win) /\ y.cluster \in Nat
               /\ y = [win |-> y.win, cluster |-> y.cluster]
               /\ x.cluster \in Numbers => y.cluster = Entry(x.cluster)
<1> DEFINE c == x.cluster
           q == c \div PerFat
           r == c % PerFat
           w == IF Covers(x.win, c) \/ q >= FatSize THEN x.win ELSE q * PerFat
           e == Entry(w + r)
<1>1. fatclustervalue(x) = [win |-> w, cluster |-> e]
  BY DEF fatclustervalue
<1>2. PerFat \in Nat /\ PerFat > 0 /\ FatSize \in Nat /\ c \in Nat
  BY BootConstants
<1>3. c = PerFat * q + r /\ r \in 0 .. PerFat - 1 /\ q \in Nat
  BY <1>2, Divided
<1>4. e \in Nat
  <2> HIDE DEF w, r
  <2> QED BY EntryIs
<1> HIDE DEF q, r, e
<1>5. Window(q * PerFat)
  <2>1. q * PerFat \in Nat /\ q * PerFat = PerFat * q + 0 /\ 0 \in 0 .. PerFat - 1 /\ q \in Int
    BY <1>2, <1>3
  <2>2. (q * PerFat) % PerFat = 0
    BY <1>2, <2>1, Division
  <2> QED BY <2>1, <2>2 DEF Window
<1>6. Window(w)
  BY <1>5
<1>7. ASSUME c \in Numbers PROVE w + r = c
  <2>1. CASE Covers(x.win, c)
    <3> DEFINE v == x.win
               m == v \div PerFat
               n == c - v
    <3>1. v \in Nat /\ v % PerFat = 0 /\ v <= c /\ c < v + PerFat
      BY <2>1 DEF Covers, Window
    <3>2. v = PerFat * m + (v % PerFat) /\ m \in Nat
      BY <1>2, <3>1, Divided
    <3> HIDE DEF m, v
    <3>3. c = PerFat * m + n /\ n \in 0 .. PerFat - 1
      BY <1>2, <3>1, <3>2
    <3> HIDE DEF n
    <3>4. c % PerFat = n
      <4> HIDE DEF c
      <4>1. c \in Int /\ m \in Int
        BY <1>2, <3>2
      <4> QED BY <1>2, <3>3, <4>1, Division
    <3>5. r = c - v
      BY <3>4 DEF r, n
    <3> QED BY <1>2, <2>1, <3>1, <3>5 DEF v
  <2>2. CASE ~Covers(x.win, c)
    <3>1. c < FatSize * PerFat
      <4>1. FatSize * PerFat = PerFat * FatSize
        BY <1>2
      <4> QED BY <1>2, <1>7, <4>1, BootConstants DEF Numbers
    <3>2. c \div PerFat < FatSize
      BY <1>2, <3>1, FloorIs
    <3>3. w = q * PerFat
      BY <1>2, <1>3, <2>2, <3>2 DEF q
    <3> QED BY <1>2, <1>3, <3>3
  <2> QED BY <2>1, <2>2
<1> HIDE DEF w, c
<1>8. c \in Numbers => e = Entry(c)
  BY <1>7 DEF e
<1> QED BY <1>1, <1>4, <1>6, <1>8 DEF c

-----------------------------------------------------------------------------
(* Loops over chains and sectors.  Each goes from a set of outcomes to the *)
(* next.                                                                   *)

Points == [win : Nat, cluster : Nat]

(* Where a walk from c is after k steps.                                   *)
WalkOn(c, k, x) ==
    /\ Window(x.win)
    /\ c = disk.kernel[1] /\ k < Len(disk.kernel) => x.cluster = disk.kernel[k + 1]

LEMMA WalkIs ==
    ASSUME disk \in Images, NEW w, Window(w), NEW c \in Nat, NEW n \in Nat
    PROVE  \A x \in Walk(w, c, n) : x \in Points /\ WalkOn(c, n, x)
<1> DEFINE Good == [k \in 0 .. n |-> SUBSET {x \in Points : WalkOn(c, k, x)}]
           After(R) == {fatclustervalue(x) : x \in R}
           F == [R \in SUBSET Points |-> After(R)]
           R0 == {[win |-> w, cluster |-> c]}
<1>1. R0 \in Good[0]
  BY DEF Window, Points, WalkOn
<1>2. ASSUME NEW k \in 1 .. n, NEW R \in Good[k - 1]
      PROVE  R \in SUBSET Points /\ F[R] \in Good[k]
  <2>1. k - 1 \in 0 .. n /\ k \in 0 .. n /\ (k - 1) + 1 = k
    OBVIOUS
  <2>2. \A x \in R : x \in Points /\ WalkOn(c, k - 1, x)
    BY <2>1
  <2>3. ASSUME NEW x \in R
        PROVE  fatclustervalue(x) \in Points /\ WalkOn(c, k, fatclustervalue(x))
    <3> DEFINE y == fatclustervalue(x)
    <3>1. x.cluster \in Nat /\ Window(x.win)
      BY <2>2 DEF Points, WalkOn
    <3>2. /\ Window(y.win) /\ y.cluster \in Nat
          /\ y = [win |-> y.win, cluster |-> y.cluster]
          /\ x.cluster \in Numbers => y.cluster = Entry(x.cluster)
      BY <3>1, ValueIs
    <3> HIDE DEF y
    <3>3. ASSUME c = disk.kernel[1], k < Len(disk.kernel)
          PROVE  y.cluster = disk.kernel[k + 1]
      <4>1. k \in 1 .. Len(disk.kernel) /\ k - 1 < Len(disk.kernel) /\ k # Len(disk.kernel)
        BY <3>3, DiskIs
      <4>2. x.cluster = disk.kernel[k]
        BY <2>1, <2>2, <3>3, <4>1 DEF WalkOn
      <4>3. x.cluster \in Numbers
        BY <4>1, <4>2, DiskIs
      <4> QED BY <3>2, <4>1, <4>2, <4>3, EntryIs
    <3>4. y \in Points
      BY <3>2 DEF Points, Window
    <3> QED BY <3>2, <3>3, <3>4 DEF WalkOn, y
  <2> HIDE DEF Good
  <2>4. F[R] = After(R)
    BY <2>2
  <2>5. After(R) \in SUBSET {x \in Points : WalkOn(c, k, x)}
    BY <2>3
  <2> HIDE DEF F, After
  <2> QED BY <2>1, <2>2, <2>4, <2>5 DEF Good
<1>3. PICK f : Runs(f, n, Good, R0, F)
  <2> HIDE DEF Good, F, R0
  <2> QED BY <1>1, <1>2, Recursion
<1>4. f = [k \in 0 .. n |-> IF k = 0 THEN R0 ELSE After(f[k - 1])]
  <2>1. ASSUME NEW k \in 1 .. n PROVE f[k] = After(f[k - 1])
    <3>1. k - 1 \in 0 .. n
      OBVIOUS
    <3>2. f[k - 1] \in Good[k - 1] /\ f[k] = F[f[k - 1]]
      BY <1>3, <3>1 DEF Runs
    <3>3. f[k - 1] \in SUBSET Points
      BY <1>2, <3>2
    <3> HIDE DEF Good, After
    <3> QED BY <3>2, <3>3
  <2> HIDE DEF Good, F, R0, After
  <2>2. ASSUME NEW k \in 0 .. n PROVE f[k] = IF k = 0 THEN R0 ELSE After(f[k - 1])
    <3>1. f[0] = R0
      BY <1>3 DEF Runs
    <3>2. k # 0 => k \in 1 .. n
      OBVIOUS
    <3> QED BY <2>1, <3>1, <3>2
  <2>3. f = [k \in 0 .. n |-> f[k]]
    BY <1>3 DEF Runs
  <2> QED BY <2>2, <2>3
<1> DEFINE run[k \in 0 .. n] == IF k = 0 THEN R0 ELSE After(run[k - 1])
<1>5. run = [k \in 0 .. n |-> IF k = 0 THEN R0 ELSE After(run[k - 1])]
  <2> HIDE DEF R0, After
  <2> QED BY <1>4
<1>6. Walk(w, c, n) = run[n]
  BY DEF Walk
<1> HIDE DEF run, R0, F, After
<1>7. run[n] = f[n]
  <2>1. run[0] = f[0] /\ \A k \in 1 .. n : run[k - 1] = f[k - 1] => run[k] = f[k]
    BY <1>4, <1>5
  <2> QED BY <2>1, SameRun
<1>8. f[n] \in Good[n]
  BY <1>3 DEF Runs
<1> QED BY <1>6, <1>7, <1>8

(* An open file, and the loop of a read.                                   *)
FileRecs == [isdir : BOOLEAN, size : Nat, total : Nat, first : Nat, cluster : Nat, sector : Nat,
             position : Int, held : Nat \X Nat]
Rounds == [f : FileRecs, win : Nat, sp : 0 .. S - 1, data : Seq(Int), eof : BOOLEAN]

\* f and g are open on the same file
SameFile(f, g) == /\ g.isdir = f.isdir /\ g.size = f.size
                  /\ g.total = f.total /\ g.first = f.first
\* the buffer holds the sector that the file is at, or it is behind its last
Steady(f) == f.held = <<f.cluster, f.sector>> \/ f.cluster >= END

\* f is at the sector q of the kernel
Aligned(f, q) ==
    /\ q \in Nat /\ q < Len(disk.kernel) * SPC
    /\ f.cluster = disk.kernel[(q \div SPC) + 1] /\ f.sector = q % SPC
    /\ f.held = <<f.cluster, f.sector>>

\* the data are the kernel's units from p on
Copied(data, p) == \A j \in 1 .. Len(data) : data[j] = p + j - 1

LEMMA UnitsAre ==
    ASSUME disk \in Images, NEW held \in Nat \X Nat, NEW from \in Nat, NEW n \in Nat
    PROVE  Units(held, from, n) \in Seq(Int) /\ Len(Units(held, from, n)) = n
<1>1. ASSUME NEW i \in 1 .. n
      PROVE  (IF from + i - 1 < S THEN UnitAt(held, from + i - 1) ELSE JUNK) \in Int
  <2>1. from + i - 1 \in Nat
    OBVIOUS
  <2> QED BY <2>1, UnitIs DEF JUNK
<1> QED BY <1>1 DEF Units

(* The units of the sector q of the kernel.                                *)
LEMMA UnitsAt ==
    ASSUME disk \in Images, NEW f \in FileRecs, NEW q, Aligned(f, q), NEW from \in Nat, NEW n \in Nat
    PROVE  \A i \in 1 .. n : from + i - 1 < S => Units(f.held, from, n)[i] = S * q + from + i - 1
<1> SUFFICES ASSUME NEW i \in 1 .. n, from + i - 1 < S
             PROVE  Units(f.held, from, n)[i] = S * q + from + i - 1
  OBVIOUS
<1> DEFINE u == from + i - 1
           c == q \div SPC
<1>1. Units(f.held, from, n)[i] = UnitAt(f.held, u)
  BY DEF Units
<1>2. u \in Nat /\ f.held \in Nat \X Nat
  BY DEF FileRecs
<1>3. q \in Nat /\ SPC \in Nat /\ SPC > 0 /\ S \in Nat /\ Len(disk.kernel) \in Nat
  BY BootConstants, DiskIs DEF Aligned
<1>4. q = SPC * c + (q % SPC) /\ c \in Nat /\ q % SPC \in Nat
  <2>1. q % SPC \in 0 .. SPC - 1
    BY <1>3, Divided
  <2> QED BY <1>3, <2>1, Divided
<1>5. c < Len(disk.kernel)
  BY <1>3, FloorIs DEF Aligned
<1>6. f.held[1] = disk.kernel[c + 1] /\ f.held[2] = q % SPC /\ c + 1 \in 1 .. Len(disk.kernel)
  BY <1>3, <1>4, <1>5 DEF Aligned
<1> HIDE DEF c, u
<1>7. UnitAt(f.held, u) = ((((c + 1) - 1) * SPC) + (q % SPC)) * S + u
  BY <1>2, <1>6, UnitIs
<1>8. (((c + 1) - 1) * SPC) + (q % SPC) = q
  BY <1>3, <1>4
<1>9. q * S = S * q /\ S * q \in Nat
  BY <1>3
<1>10. UnitAt(f.held, u) = S * q + u
  BY <1>7, <1>8, <1>9
<1> QED BY <1>1, <1>2, <1>9, <1>10 DEF u

LEMMA Concatenated ==
    ASSUME NEW a \in Seq(Int), NEW b \in Seq(Int)
    PROVE  /\ a \o b \in Seq(Int) /\ Len(a) \in Nat /\ Len(b) \in Nat
           /\ Len(a \o b) = Len(a) + Len(b)
           /\ \A i \in 1 .. Len(a) : (a \o b)[i] = a[i]
           /\ \A i \in 1 .. Len(b) : (a \o b)[Len(a) + i] = b[i]
  OBVIOUS

(* Records of the loop after an assignment to some of their fields.        *)
LEMMA FileEnds ==
    ASSUME NEW f \in FileRecs, NEW c \in Nat, NEW p \in Int
    PROVE  LET g == [f EXCEPT !.sector = 0, !.cluster = c, !.position = p]
           IN  g \in FileRecs /\ SameFile(f, g) /\ g.cluster = c /\ g.sector = 0 /\ g.held = f.held
  BY DEF FileRecs, SameFile

LEMMA FileMoves ==
    ASSUME NEW f \in FileRecs, NEW p \in Int
    PROVE  LET g == [f EXCEPT !.position = p]
           IN  /\ g \in FileRecs /\ SameFile(f, g) /\ g.cluster = f.cluster /\ g.sector = f.sector
               /\ g.held = f.held /\ g.position = p
  BY DEF FileRecs, SameFile

LEMMA RoundTo ==
    ASSUME NEW r \in Rounds, NEW g \in FileRecs, NEW w \in Nat, NEW data \in Seq(Int)
    PROVE  LET y == [r EXCEPT !.f = g, !.win = w, !.sp = 0, !.data = data]
               z == [y EXCEPT !.eof = TRUE]
           IN  /\ y \in Rounds /\ y.f = g /\ y.win = w /\ y.sp = 0 /\ y.data = data /\ y.eof = r.eof
               /\ z \in Rounds /\ z.f = g /\ z.win = w /\ z.sp = 0 /\ z.data = data /\ z.eof
<1>1. 0 \in 0 .. S - 1
  BY BootConstants
<1> QED BY <1>1 DEF Rounds

(* One round keeps the file's shape, and the buffer is again the sector's. *)
LEMMA NextSectorKeeps ==
    ASSUME disk \in Images, NEW r \in Rounds, Window(r.win)
    PROVE  LET y == NextSector(r)
           IN  /\ y \in Rounds /\ Window(y.win) /\ SameFile(r.f, y.f) /\ Steady(y.f)
               /\ y.data = r.data \o Units(r.f.held, r.sp, S - r.sp) /\ y.sp = 0
               /\ ~y.eof /\ ~r.eof =>
                     IF r.f.sector + 1 < SPC
                     THEN y.f.cluster = r.f.cluster /\ y.f.sector = r.f.sector + 1
                          /\ y.f.held = <<y.f.cluster, y.f.sector>>
                     ELSE /\ y.f.sector = 0 /\ y.f.cluster < END
                          /\ r.f.cluster \in Numbers => y.f.cluster = Entry(r.f.cluster)
                          /\ y.f.held = <<y.f.cluster, y.f.sector>>
<1> DEFINE f == [r.f EXCEPT !.position = @ + S - r.sp]
           next == fatclustervalue([win |-> r.win, cluster |-> f.cluster])
           data == r.data \o Units(r.f.held, r.sp, S - r.sp)
           To(c, s) == [f EXCEPT !.cluster = c, !.sector = s, !.held = <<c, s>>]
           Round(g, w) == [r EXCEPT !.f = g, !.win = w, !.sp = 0, !.data = data]
           end == [f EXCEPT !.sector = 0, !.cluster = next.cluster, !.position = f.size]
           y == NextSector(r)
<1>1. r.f \in FileRecs /\ r.win \in Nat /\ r.sp \in 0 .. S - 1 /\ r.data \in Seq(Int)
  BY DEF Rounds
<1>2. S \in Nat /\ S > 0 /\ SPC \in Nat /\ END \in Nat /\ r.f.sector \in Nat /\ r.f.held \in Nat \X Nat
  BY <1>1, BootConstants DEF FileRecs
<1>3. f \in FileRecs /\ SameFile(r.f, f) /\ f.cluster = r.f.cluster /\ f.sector = r.f.sector
  <2>1. r.f.position + S - r.sp \in Int
    BY <1>1, <1>2 DEF FileRecs
  <2>2. f = [r.f EXCEPT !.position = r.f.position + S - r.sp]
    OBVIOUS
  <2> HIDE DEF f
  <2> QED BY <1>1, <2>1, <2>2, FileMoves
<1>4. data \in Seq(Int)
  <2>1. r.sp \in Nat /\ S - r.sp \in Nat
    BY <1>1, <1>2
  <2>2. Units(r.f.held, r.sp, S - r.sp) \in Seq(Int)
    BY <1>2, <2>1, UnitsAre
  <2> QED BY <1>1, <2>2, Concatenated
<1>5. /\ Window(next.win) /\ next.win \in Nat /\ next.cluster \in Nat
      /\ r.f.cluster \in Numbers => next.cluster = Entry(r.f.cluster)
  <2> DEFINE x == [win |-> r.win, cluster |-> f.cluster]
  <2>1. Window(x.win) /\ x.cluster \in Nat /\ x.cluster = r.f.cluster
    <3>1. f.cluster \in Nat
      BY <1>3 DEF FileRecs
    <3> HIDE DEF f
    <3> QED BY <1>3, <3>1
  <2> HIDE DEF x
  <2>2. next = fatclustervalue(x)
    BY DEF x
  <2> HIDE DEF next
  <2> QED BY <2>1, <2>2, ValueIs DEF Window
<1>6. y = IF ~LastSector(f.sector) THEN Round(To(f.cluster, f.sector + 1), r.win)
          ELSE IF next.cluster < END THEN Round(To(next.cluster, 0), next.win)
          ELSE [Round(end, next.win) EXCEPT !.eof = TRUE]
  BY DEF NextSector
<1> HIDE DEF f, next, y, data
<1>7. ASSUME NEW c \in Nat, NEW s \in Nat
      PROVE  /\ To(c, s) \in FileRecs /\ SameFile(r.f, To(c, s)) /\ Steady(To(c, s))
             /\ To(c, s).cluster = c /\ To(c, s).sector = s /\ To(c, s).held = <<c, s>>
  <2>1. <<c, s>> \in Nat \X Nat
    OBVIOUS
  <2>3. /\ To(c, s) \in FileRecs /\ SameFile(f, To(c, s))
        /\ To(c, s).cluster = c /\ To(c, s).sector = s /\ To(c, s).held = <<c, s>>
    BY <1>3, <2>1 DEF FileRecs, SameFile
  <2> HIDE DEF To
  <2> QED BY <1>3, <2>3 DEF SameFile, Steady
<1>8. end \in FileRecs /\ SameFile(r.f, end) /\ end.cluster = next.cluster
  <2>1. f.size \in Int
    BY <1>3 DEF FileRecs
  <2>2. end \in FileRecs /\ SameFile(f, end) /\ end.cluster = next.cluster
    BY <1>3, <1>5, <2>1, FileEnds
  <2> HIDE DEF end
  <2> QED BY <1>3, <2>2 DEF SameFile
<1>9. ASSUME NEW g \in FileRecs, NEW w \in Nat
      PROVE  LET z == Round(g, w)
                 e == [z EXCEPT !.eof = TRUE]
             IN  /\ z \in Rounds /\ z.f = g /\ z.win = w /\ z.sp = 0 /\ z.data = data /\ z.eof = r.eof
                 /\ e \in Rounds /\ e.f = g /\ e.win = w /\ e.sp = 0 /\ e.data = data /\ e.eof
  BY <1>4, RoundTo
<1> HIDE DEF To, end, Round
<1>10. CASE ~LastSector(f.sector)
  <2> DEFINE g == To(r.f.cluster, r.f.sector + 1)
  <2>1. r.f.cluster \in Nat /\ r.f.sector + 1 \in Nat /\ r.f.sector + 1 < SPC
    <3>1. r.f.cluster \in Nat
      BY <1>1 DEF FileRecs
    <3>2. ~(r.f.sector + 1 >= SPC)
      BY <1>3, <1>10 DEF LastSector
    <3> QED BY <1>2, <3>1, <3>2
  <2>2. /\ g \in FileRecs /\ SameFile(r.f, g) /\ Steady(g)
        /\ g.cluster = r.f.cluster /\ g.sector = r.f.sector + 1
        /\ g.held = <<r.f.cluster, r.f.sector + 1>>
    BY <1>7, <2>1
  <2>3. y = Round(g, r.win)
    BY <1>3, <1>6, <1>10
  <2> HIDE DEF g
  <2>4. y \in Rounds /\ y.f = g /\ y.win = r.win /\ y.sp = 0 /\ y.data = data
    BY <1>1, <1>9, <2>2, <2>3
  <2> QED BY <2>1, <2>2, <2>4 DEF data, y
<1>11. CASE LastSector(f.sector) /\ next.cluster < END
  <2> DEFINE g == To(next.cluster, 0)
  <2>1. ~(r.f.sector + 1 < SPC)
    BY <1>2, <1>3, <1>11 DEF LastSector
  <2>2. /\ g \in FileRecs /\ SameFile(r.f, g) /\ Steady(g)
        /\ g.cluster = next.cluster /\ g.sector = 0 /\ g.held = <<next.cluster, 0>>
    BY <1>5, <1>7
  <2>3. y = Round(g, next.win)
    BY <1>6, <1>11
  <2> HIDE DEF g
  <2>4. y \in Rounds /\ y.f = g /\ y.win = next.win /\ y.sp = 0 /\ y.data = data
    BY <1>5, <1>9, <2>2, <2>3
  <2> QED BY <1>5, <1>11, <2>1, <2>2, <2>4 DEF data, y
<1>12. CASE LastSector(f.sector) /\ ~(next.cluster < END)
  <2>1. y = [Round(end, next.win) EXCEPT !.eof = TRUE]
    BY <1>6, <1>12
  <2>2. Steady(end)
    BY <1>2, <1>5, <1>8, <1>12 DEF Steady
  <2>3. y \in Rounds /\ y.f = end /\ y.win = next.win /\ y.sp = 0 /\ y.data = data /\ y.eof
    BY <1>5, <1>8, <1>9, <2>1
  <2> QED BY <1>5, <1>8, <2>2, <2>3 DEF data, y
<1> QED BY <1>10, <1>11, <1>12

(* What k rounds of a read from the position p of the kernel have done.    *)
CopyOn(p, k, r) ==
    ~r.eof =>
        /\ Aligned(r.f, (p \div S) + k)
        /\ r.sp = IF k = 0 THEN p % S ELSE 0
        /\ Len(r.data) = IF k = 0 THEN 0 ELSE S * k - (p % S)
        /\ Copied(r.data, p)

LEMMA NextSectorCopies ==
    ASSUME disk \in Images, NEW r \in Rounds, Window(r.win), ~r.eof, NEW p \in Nat, NEW k \in Nat,
           CopyOn(p, k, r)
    PROVE  CopyOn(p, k + 1, NextSector(r))
<1> DEFINE y == NextSector(r)
           q == (p \div S) + k
           c == q \div SPC
           s == q % SPC
           P == p % S
           L == Len(disk.kernel)
           u == Units(r.f.held, r.sp, S - r.sp)
<1> SUFFICES ASSUME ~y.eof PROVE CopyOn(p, k + 1, y)
  BY DEF CopyOn
<1>1. /\ S \in Nat /\ S > 0 /\ SPC \in Nat /\ SPC > 0 /\ L \in Nat /\ p \div S \in Nat
      /\ p = S * (p \div S) + P /\ P \in 0 .. S - 1
  BY BootConstants, DiskIs, Divided
<1>2. Aligned(r.f, q) /\ r.sp = (IF k = 0 THEN P ELSE 0) /\ r.f \in FileRecs
  BY DEF CopyOn, Rounds
<1>3. r.data \in Seq(Int) /\ Len(r.data) = (IF k = 0 THEN 0 ELSE S * k - P) /\ Copied(r.data, p)
  BY DEF CopyOn, Rounds
<1>4. /\ y \in Rounds /\ y.data = r.data \o u /\ y.sp = 0
      /\ IF r.f.sector + 1 < SPC
         THEN y.f.cluster = r.f.cluster /\ y.f.sector = r.f.sector + 1
              /\ y.f.held = <<y.f.cluster, y.f.sector>>
         ELSE /\ y.f.sector = 0 /\ y.f.cluster < END
              /\ r.f.cluster \in Numbers => y.f.cluster = Entry(r.f.cluster)
              /\ y.f.held = <<y.f.cluster, y.f.sector>>
  BY NextSectorKeeps
<1> HIDE DEF y
<1>5. r.sp \in Nat /\ S - r.sp \in Nat /\ r.f.held \in Nat \X Nat
  BY <1>1, <1>2 DEF FileRecs
<1>6. u \in Seq(Int) /\ Len(u) = S - r.sp
  BY <1>5, UnitsAre
<1>7. \A i \in 1 .. S - r.sp : u[i] = S * q + r.sp + i - 1
  <2>1. ASSUME NEW i \in 1 .. S - r.sp PROVE r.sp + i - 1 < S
    <3> DEFINE z == r.sp
    <3>1. z \in Nat /\ S \in Nat /\ i \in 1 .. S - z
      BY <1>1, <1>5
    <3> HIDE DEF z
    <3>2. z + i - 1 < S
      BY <3>1
    <3> QED BY <3>2 DEF z
  <2> HIDE DEF q
  <2> QED BY <1>2, <1>5, <2>1, UnitsAt
<1>8. q \in Nat /\ S * q = S * (p \div S) + S * k /\ S * k \in Nat /\ S * (k + 1) = S * k + S
  BY <1>1
<1> HIDE DEF u
<1>9. Len(y.data) = S * (k + 1) - P
  <2>1. Len(y.data) = Len(r.data) + (S - r.sp)
    BY <1>3, <1>4, <1>6, Concatenated
  <2> HIDE DEF P, q
  <2>2. CASE k = 0
    <3>1. S * (k + 1) = S
      BY <1>1, <2>2
    <3> QED BY <1>1, <1>2, <1>3, <2>1, <2>2, <3>1
  <2>3. CASE k # 0
    BY <1>1, <1>2, <1>3, <1>8, <2>1, <2>3
  <2> QED BY <2>2, <2>3
<1>10. Copied(y.data, p)
  <2> SUFFICES ASSUME NEW j \in 1 .. Len(y.data) PROVE y.data[j] = p + j - 1
    BY DEF Copied
  <2>1. CASE j <= Len(r.data)
    <3>1. y.data[j] = r.data[j] /\ j \in 1 .. Len(r.data)
      BY <1>3, <1>4, <1>6, <2>1
    <3> QED BY <1>3, <3>1 DEF Copied
  <2>2. CASE j > Len(r.data)
    <3> DEFINE i == j - Len(r.data)
    <3>1. i \in 1 .. S - r.sp /\ y.data[j] = u[i]
      <4>1. Len(y.data) = Len(r.data) + Len(u) /\ Len(r.data) \in Nat /\ Len(u) \in Nat
        BY <1>3, <1>4, <1>6, Concatenated
      <4>2. i \in 1 .. Len(u) /\ j = Len(r.data) + i
        BY <2>2, <4>1
      <4>3. y.data[Len(r.data) + i] = u[i]
        <5> HIDE DEF i
        <5>1. (r.data \o u)[Len(r.data) + i] = u[i]
          BY <1>3, <1>6, <4>2, Concatenated
        <5> QED BY <1>4, <5>1
      <4> QED BY <1>6, <4>2, <4>3
    <3>2. y.data[j] = S * q + r.sp + i - 1
      BY <1>7, <3>1
    <3>3. S * (p \div S) \in Nat
      BY <1>1
    <3> DEFINE A == S * (p \div S)
               B == S * k
    <3>4. y.data[j] = A + B + r.sp + i - 1 /\ p = A + P /\ A \in Nat /\ B \in Nat
      <4> HIDE DEF q, P
      <4> QED BY <1>1, <1>8, <3>2, <3>3
    <3>5. r.sp = (IF k = 0 THEN P ELSE 0) /\ Len(r.data) = (IF k = 0 THEN 0 ELSE B - P)
      BY <1>2, <1>3
    <3>6. k = 0 => B = 0
      BY <1>1
    <3>7. P \in Nat /\ Len(r.data) \in Nat /\ j \in Nat
      BY <1>1, <1>3
    <3> HIDE DEF q, P, A, B
    <3> QED BY <3>4, <3>5, <3>6, <3>7
  <2> QED BY <1>3, <2>1, <2>2
<1>11. q = SPC * c + s /\ s \in 0 .. SPC - 1 /\ c \in Nat
  BY <1>1, <1>8, Divided
<1>12. c < L /\ c + 1 \in 1 .. L /\ q < L * SPC
  <2>1. q < L * SPC
    BY <1>2 DEF Aligned
  <2>2. c < L
    BY <1>1, <1>8, <2>1, FloorIs
  <2> QED BY <1>1, <1>11, <2>1, <2>2
<1>13. r.f.cluster = disk.kernel[c + 1] /\ r.f.sector = s
  BY <1>2 DEF Aligned
<1> HIDE DEF c, s, L
<1>14. Aligned(y.f, q + 1)
  <2>1. CASE s + 1 < SPC
    <3>1. q + 1 = SPC * c + (s + 1) /\ s + 1 \in 0 .. SPC - 1 /\ c \in Int /\ q + 1 \in Int
      BY <1>1, <1>8, <1>11, <2>1
    <3> HIDE DEF q
    <3>2. (q + 1) \div SPC = c /\ (q + 1) % SPC = s + 1
      <4> DEFINE t == s + 1
                 z == q + 1
      <4>1. z = SPC * c + t /\ t \in 0 .. SPC - 1 /\ c \in Int /\ z \in Int
        BY <3>1
      <4> HIDE DEF t, z
      <4>2. z \div SPC = c /\ z % SPC = t
        BY <1>1, <4>1, Division
      <4> QED BY <4>2 DEF t, z
    <3>3. q + 1 < L * SPC
      <4>1. SPC * c + SPC <= L * SPC
        <5>1. SPC * (c + 1) <= SPC * L
          BY <1>1, <1>11, <1>12
        <5>2. SPC * (c + 1) = SPC * c + SPC /\ SPC * L = L * SPC
          BY <1>1, <1>11
        <5> QED BY <5>1, <5>2
      <4>2. SPC * c \in Nat /\ L * SPC \in Nat
        BY <1>1, <1>11
      <4> DEFINE A == SPC * c
                 B == L * SPC
      <4>3. q + 1 = A + (s + 1) /\ A + SPC <= B /\ A \in Nat /\ B \in Nat /\ q \in Nat
        BY <1>8, <3>1, <4>1, <4>2
      <4>4. s \in Nat
        BY <1>1, <1>11
      <4> HIDE DEF A, B
      <4>5. q + 1 < B
        BY <1>1, <2>1, <4>3, <4>4
      <4> QED BY <4>5 DEF B
    <3>4. y.f.cluster = disk.kernel[c + 1] /\ y.f.sector = s + 1 /\ y.f.held = <<y.f.cluster, y.f.sector>>
      BY <1>4, <1>13, <2>1
    <3>5. q + 1 \in Nat
      BY <1>8
    <3> QED BY <3>2, <3>3, <3>4, <3>5 DEF Aligned, L
  <2>2. CASE ~(s + 1 < SPC)
    <3>1. s = SPC - 1
      BY <1>1, <1>11, <2>2
    <3>2. q + 1 = SPC * (c + 1) + 0 /\ 0 \in 0 .. SPC - 1 /\ c + 1 \in Int /\ q + 1 \in Int
      BY <1>1, <1>8, <1>11, <3>1
    <3> HIDE DEF q
    <3>3. (q + 1) \div SPC = c + 1 /\ (q + 1) % SPC = 0
      <4> DEFINE t == c + 1
                 z == q + 1
      <4>1. z = SPC * t + 0 /\ t \in Int /\ z \in Int
        BY <3>2
      <4> HIDE DEF t, z
      <4>2. z \div SPC = t /\ z % SPC = 0
        BY <1>1, <3>2, <4>1, Division
      <4> QED BY <4>2 DEF t, z
    <3>4. disk.kernel[c + 1] \in Numbers
      BY <1>12, DiskIs DEF L
    <3>5. y.f.cluster = Entry(disk.kernel[c + 1]) /\ y.f.cluster < END /\ y.f.sector = 0
      BY <1>4, <1>13, <2>2, <3>4
    <3>6. Entry(disk.kernel[c + 1]) = IF c + 1 = L THEN END ELSE disk.kernel[(c + 1) + 1]
      BY <1>12, EntryIs DEF L
    <3>7. c + 1 # L
      BY <3>5, <3>6, BootConstants
    <3>8. q + 1 < L * SPC
      <4>1. c + 1 < L
        BY <1>1, <1>12, <3>7
      <4>2. SPC * (c + 1) + SPC <= L * SPC
        <5>1. SPC * (c + 2) <= SPC * L
          BY <1>1, <1>11, <4>1
        <5>2. SPC * (c + 2) = SPC * (c + 1) + SPC /\ SPC * L = L * SPC
          BY <1>1, <1>11
        <5> QED BY <5>1, <5>2
      <4>3. SPC * (c + 1) \in Nat /\ L * SPC \in Nat
        BY <1>1, <1>11
      <4> DEFINE A == SPC * (c + 1)
                 B == L * SPC
      <4>4. q + 1 = A /\ A + SPC <= B /\ A \in Nat /\ B \in Nat
        BY <3>2, <4>2, <4>3
      <4> HIDE DEF A, B
      <4>5. q + 1 < B
        BY <1>1, <4>4
      <4> QED BY <4>5 DEF B
    <3> QED BY <1>4, <1>8, <1>13, <2>2, <3>3, <3>5, <3>6, <3>7, <3>8 DEF Aligned, L
  <2> QED BY <2>1, <2>2
<1>15. q + 1 = (p \div S) + (k + 1) /\ k + 1 # 0
  BY <1>1
<1> QED BY <1>4, <1>9, <1>10, <1>14, <1>15 DEF CopyOn

(* What k rounds of a read of f leave.                                     *)
LoopOn(f, k, r) ==
    /\ Window(r.win) /\ SameFile(f, r.f) /\ (Steady(f) => Steady(r.f))
    /\ f.position \in Nat /\ Aligned(f, f.position \div S) => CopyOn(f.position, k, r)

LEMMA RoundKeeps ==
    ASSUME disk \in Images, NEW f, NEW k \in Nat, NEW r \in Rounds, LoopOn(f, k, r)
    PROVE  LET y == IF r.eof THEN r ELSE NextSector(r)
           IN  y \in Rounds /\ LoopOn(f, k + 1, y)
<1>1. CASE r.eof
  BY <1>1 DEF LoopOn, CopyOn
<1>2. CASE ~r.eof
  <2> DEFINE y == NextSector(r)
  <2>1. y \in Rounds /\ Window(y.win) /\ SameFile(r.f, y.f) /\ Steady(y.f)
    BY NextSectorKeeps DEF LoopOn
  <2>2. f.position \in Nat /\ CopyOn(f.position, k, r) => CopyOn(f.position, k + 1, y)
    BY <1>2, NextSectorCopies DEF LoopOn
  <2> HIDE DEF y
  <2>3. SameFile(f, y.f)
    BY <2>1 DEF LoopOn, SameFile
  <2>4. LoopOn(f, k + 1, y)
    BY <2>1, <2>2, <2>3 DEF LoopOn
  <2> QED BY <1>2, <2>1, <2>4 DEF y
<1> QED BY <1>1, <1>2

LEMMA ReadLoopIs ==
    ASSUME disk \in Images, NEW f \in FileRecs, NEW w, Window(w), NEW size \in Nat
    PROVE  LET n == FullSectors(f, size)
           IN  n \in Nat /\ \A r \in ReadLoop(f, w, size)[n] : r \in Rounds /\ LoopOn(f, n, r)
<1> DEFINE n == FullSectors(f, size)
           p == f.position
           Good == [k \in 0 .. n |-> SUBSET {r \in Rounds : LoopOn(f, k, r)}]
           On(r) == IF r.eof THEN r ELSE NextSector(r)
           After(R) == {On(r) : r \in R}
           F == [R \in SUBSET Rounds |-> After(R)]
           r0 == [f |-> f, win |-> w, sp |-> p % S, data |-> <<>>, eof |-> FALSE]
           R0 == {r0}
<1>1. S \in Nat /\ S > 0 /\ p \in Int /\ p % S \in 0 .. S - 1 /\ p \div S \in Int
  <2>1. S \in Nat /\ S > 0 /\ p \in Int
    BY BootConstants DEF FileRecs
  <2> QED BY <2>1, Divided
<1>2. n \in Nat
  <2>1. (p % S) + size \in Nat
    BY <1>1
  <2>2. ((p % S) + size) \div S \in Nat
    BY <1>1, <2>1, Divided
  <2> QED BY <2>2 DEF FullSectors
<1>3. r0 \in Rounds /\ LoopOn(f, 0, r0)
  <2>1. r0 \in Rounds
    BY <1>1 DEF Rounds, Window
  <2>2. r0.f = f /\ r0.win = w /\ r0.sp = p % S /\ r0.data = <<>> /\ ~r0.eof
    OBVIOUS
  <2> HIDE DEF r0
  <2>3. SameFile(f, r0.f)
    BY <2>2 DEF SameFile
  <2>4. Aligned(f, p \div S) => CopyOn(p, 0, r0)
    <3>1. (p \div S) + 0 = p \div S
      BY <1>1
    <3>2. Len(r0.data) = 0 /\ Copied(r0.data, p)
      BY <2>2 DEF Copied
    <3> QED BY <2>2, <3>1, <3>2 DEF CopyOn
  <2> QED BY <2>1, <2>2, <2>3, <2>4 DEF LoopOn
<1> HIDE DEF n, p, r0, On
<1>4. R0 \in Good[0]
  BY <1>2, <1>3
<1>5. ASSUME NEW k \in 1 .. n, NEW R \in Good[k - 1]
      PROVE  R \in SUBSET Rounds /\ F[R] \in Good[k]
  <2>1. k - 1 \in 0 .. n /\ k \in 0 .. n /\ k - 1 \in Nat /\ (k - 1) + 1 = k
    BY <1>2
  <2>2. \A r \in R : r \in Rounds /\ LoopOn(f, k - 1, r)
    BY <2>1
  <2>3. \A r \in R : On(r) \in Rounds /\ LoopOn(f, k, On(r))
    <3> TAKE r \in R
    <3>1. r \in Rounds /\ LoopOn(f, k - 1, r)
      BY <2>2
    <3>2. On(r) \in Rounds /\ LoopOn(f, (k - 1) + 1, On(r))
      BY <2>1, <3>1, RoundKeeps DEF On
    <3> QED BY <2>1, <3>2
  <2> HIDE DEF Good
  <2>4. F[R] = After(R)
    BY <2>2
  <2>5. After(R) \in SUBSET {r \in Rounds : LoopOn(f, k, r)}
    BY <2>3
  <2> HIDE DEF F, After
  <2> QED BY <2>1, <2>2, <2>4, <2>5 DEF Good
<1>6. PICK g : Runs(g, n, Good, R0, F)
  <2> HIDE DEF Good, F, R0
  <2> QED BY <1>2, <1>4, <1>5, Recursion
<1>7. g = [k \in 0 .. n |-> IF k = 0 THEN R0 ELSE After(g[k - 1])]
  <2>1. ASSUME NEW k \in 1 .. n PROVE g[k] = After(g[k - 1])
    <3>1. k - 1 \in 0 .. n
      BY <1>2
    <3>2. g[k - 1] \in Good[k - 1] /\ g[k] = F[g[k - 1]]
      BY <1>6, <3>1 DEF Runs
    <3>3. g[k - 1] \in SUBSET Rounds
      <4> HIDE DEF Good, F
      <4> QED BY <1>5, <3>2
    <3> HIDE DEF Good, After
    <3> QED BY <3>2, <3>3
  <2> HIDE DEF Good, F, R0, After
  <2>2. ASSUME NEW k \in 0 .. n PROVE g[k] = IF k = 0 THEN R0 ELSE After(g[k - 1])
    <3>1. g[0] = R0
      BY <1>6 DEF Runs
    <3>2. k # 0 => k \in 1 .. n
      BY <1>2
    <3> QED BY <2>1, <3>1, <3>2
  <2>3. g = [k \in 0 .. n |-> g[k]]
    BY <1>6 DEF Runs
  <2> QED BY <2>2, <2>3
<1> DEFINE run[k \in 0 .. n] == IF k = 0 THEN R0 ELSE After(run[k - 1])
<1>8. run = [k \in 0 .. n |-> IF k = 0 THEN R0 ELSE After(run[k - 1])]
  <2> HIDE DEF R0, After
  <2> QED BY <1>7
<1>9. ReadLoop(f, w, size) = run
  BY DEF ReadLoop, n, p, r0, On
<1> HIDE DEF run, R0, F, After
<1>10. run[n] = g[n]
  <2>1. run[0] = g[0] /\ \A k \in 1 .. n : run[k - 1] = g[k - 1] => run[k] = g[k]
    BY <1>2, <1>7, <1>8
  <2> QED BY <1>2, <2>1, SameRun
<1>11. g[n] \in Good[n] /\ n \in 0 .. n
  BY <1>2, <1>6 DEF Runs
<1>12. \A r \in g[n] : r \in Rounds /\ LoopOn(f, n, r)
  BY <1>11
<1> HIDE DEF Good
<1>13. \A r \in ReadLoop(f, w, size)[n] : r \in Rounds /\ LoopOn(f, n, r)
  BY <1>9, <1>10, <1>12
<1> QED BY <1>2, <1>13 DEF n

-----------------------------------------------------------------------------
(* A read, and a seek.                                                     *)

LEMMA WantedIs ==
    ASSUME NEW f \in FileRecs, NEW n \in Nat
    PROVE  /\ Wanted(f, n) \in Nat
           /\ ~f.isdir /\ f.size <= (f.total * SPC) * S /\ f.position + n <= f.size => Wanted(f, n) = n
<1> DEFINE all == (f.total * SPC) * S
<1>1. /\ all \in Nat /\ f.size \in Nat /\ f.position \in Int
      /\ FileTotal(f) = IF f.isdir \/ all <= f.size THEN all ELSE f.size
  <2>1. f.total \in Nat /\ f.size \in Nat /\ f.position \in Int
    BY DEF FileRecs
  <2>2. f.total * SPC \in Nat
    BY <2>1, BootConstants
  <2> QED BY <2>1, <2>2, BootConstants DEF FileTotal
<1> HIDE DEF all
<1>2. FileTotal(f) \in Nat
  BY <1>1
<1>3. Wanted(f, n) \in Nat
  BY <1>1, <1>2 DEF Wanted
<1>4. ASSUME ~f.isdir, f.size <= all, f.position + n <= f.size PROVE Wanted(f, n) = n
  <2>1. FileTotal(f) = f.size
    BY <1>1, <1>4
  <2> QED BY <1>1, <1>4, <2>1 DEF Wanted
<1> QED BY <1>3, <1>4 DEF all

(* A read leaves an open file and a window.                                *)
LEMMA FileReadKeeps ==
    ASSUME disk \in Images, NEW f \in FileRecs, NEW w, Window(w), NEW n \in Nat
    PROVE  \A r \in FileRead(f, w, n) :
              /\ r.file \in FileRecs /\ SameFile(f, r.file) /\ (Steady(f) => Steady(r.file))
              /\ Window(r.win)
<1> DEFINE size == Wanted(f, n)
           N == FullSectors(f, size)
<1>1. size \in Nat
  BY WantedIs
<1>2. FileRead(f, w, n) = {LastCopy(x, size) : x \in ReadLoop(f, w, size)[N]}
  BY DEF FileRead
<1> HIDE DEF size
<1>3. \A x \in ReadLoop(f, w, size)[N] : x \in Rounds /\ LoopOn(f, N, x)
  BY <1>1, ReadLoopIs
<1> HIDE DEF N
<1>4. ASSUME NEW x \in Rounds, LoopOn(f, N, x)
      PROVE  LET r == LastCopy(x, size)
             IN  /\ r.file \in FileRecs /\ SameFile(f, r.file) /\ (Steady(f) => Steady(r.file))
                 /\ Window(r.win)
  <2> DEFINE r == LastCopy(x, size)
             g == [x.f EXCEPT !.position = @ + size]
  <2>1. x.f \in FileRecs /\ SameFile(f, x.f) /\ (Steady(f) => Steady(x.f)) /\ Window(x.win)
    BY <1>4 DEF Rounds, LoopOn
  <2>2. x.f.position + size \in Int
    BY <1>1, <2>1 DEF FileRecs
  <2>3. /\ g \in FileRecs /\ SameFile(x.f, g) /\ g.cluster = x.f.cluster /\ g.sector = x.f.sector
        /\ g.held = x.f.held
    BY <2>1, <2>2, FileMoves
  <2>4. r.win = x.win /\ r.file = IF x.eof THEN x.f ELSE g
    BY DEF LastCopy
  <2> HIDE DEF r, g
  <2>5. SameFile(f, g) /\ (Steady(f) => Steady(g))
    BY <2>1, <2>3 DEF SameFile, Steady
  <2> QED BY <2>1, <2>3, <2>4, <2>5 DEF r
<1> QED BY <1>2, <1>3, <1>4

(* A read of n units of the kernel from the position p on, its sector held. *)
LEMMA FileReadCopies ==
    ASSUME disk \in Images, NEW f \in FileRecs, NEW w, Window(w), NEW n \in Nat,
           ~f.isdir, f.size = disk.size, f.total = Len(disk.kernel),
           f.position \in Nat, Aligned(f, f.position \div S), f.position + n <= disk.size
    PROVE  \A r \in FileRead(f, w, n) :
              r.result # 0 =>
                 /\ r.data \in Seq(Int) /\ Len(r.data) >= n
                 /\ \A j \in 1 .. n : r.data[j] = f.position + j - 1
<1> DEFINE p == f.position
           N == FullSectors(f, n)
           P == p % S
           A == S * (p \div S)
           B == S * N
<1>1. Wanted(f, n) = n
  BY DiskIs, WantedIs
<1>2. /\ S \in Nat /\ S > 0 /\ p \in Nat /\ p = A + P /\ P \in 0 .. S - 1 /\ P \in Nat
      /\ A \in Nat /\ p \div S \in Nat
  <2>1. S \in Nat /\ S > 0 /\ p \in Nat
    BY BootConstants
  <2>2. p = A + P /\ P \in 0 .. S - 1 /\ p \div S \in Nat
    BY <2>1, Divided
  <2>3. A \in Nat /\ P \in Nat
    <3> DEFINE D == p \div S
    <3>1. A = S * D /\ D \in Nat
      BY <2>2
    <3> HIDE DEF D, A
    <3> QED BY <2>1, <2>2, <3>1
  <2> HIDE DEF P, A
  <2> QED BY <2>1, <2>2, <2>3
<1>3. N \in Nat /\ B \in Nat /\ B <= P + n /\ P + n < B + S
  <2> DEFINE z == P + n
  <2>1. N = z \div S
    BY DEF FullSectors
  <2> HIDE DEF N, P, A, p
  <2>2. z \in Nat
    BY <1>2
  <2> HIDE DEF z
  <2>3. z = S * (z \div S) + (z % S) /\ z % S \in 0 .. S - 1 /\ z \div S \in Nat
    BY <1>2, <2>2, Divided
  <2> DEFINE t == z % S
  <2>4. z = B + t /\ N \in Nat /\ t \in 0 .. S - 1
    BY <2>1, <2>3
  <2>5. B \in Nat
    BY <1>2, <2>4
  <2> HIDE DEF B, t
  <2>6. B <= z /\ z < B + S
    BY <1>2, <2>4, <2>5
  <2> QED BY <2>4, <2>5, <2>6 DEF z
<1>4. FileRead(f, w, n) = {LastCopy(x, n) : x \in ReadLoop(f, w, n)[N]}
  BY <1>1 DEF FileRead
<1>5. \A x \in ReadLoop(f, w, n)[N] : x \in Rounds /\ LoopOn(f, N, x)
  BY ReadLoopIs
<1>6. S * ((p \div S) + N) = A + B
  BY <1>2, <1>3
<1>7. N = 0 => B = 0
  BY <1>2
<1> HIDE DEF N
<1>8. ASSUME NEW x \in Rounds, LoopOn(f, N, x), LastCopy(x, n).result # 0
      PROVE  LET r == LastCopy(x, n)
             IN  /\ r.data \in Seq(Int) /\ Len(r.data) >= n
                 /\ \A j \in 1 .. n : r.data[j] = p + j - 1
  <2> DEFINE q == (p \div S) + N
             u == Units(x.f.held, x.sp, n)
             data == x.data \o u
             l == Len(x.data)
  <2>1. ~x.eof
    BY <1>8 DEF LastCopy
  <2>2. LastCopy(x, n).data = data
    BY <2>1 DEF LastCopy
  <2>3. x.data \in Seq(Int) /\ x.f \in FileRecs /\ x.f.held \in Nat \X Nat /\ x.sp \in Nat
    BY BootConstants DEF Rounds, FileRecs
  <2>4. /\ Aligned(x.f, q)
        /\ x.sp = IF N = 0 THEN P ELSE 0
        /\ l = IF N = 0 THEN 0 ELSE B - P
        /\ Copied(x.data, p)
    BY <1>8, <2>1 DEF LoopOn, CopyOn
  <2>5. u \in Seq(Int) /\ Len(u) = n
    BY <2>3, UnitsAre
  <2>6. \A i \in 1 .. n : x.sp + i - 1 < S => u[i] = S * q + x.sp + i - 1
    <3> HIDE DEF q
    <3> QED BY <2>3, <2>4, UnitsAt
  <2> HIDE DEF u
  <2>7. /\ data \in Seq(Int) /\ l \in Nat /\ Len(data) = l + n
        /\ \A i \in 1 .. l : data[i] = x.data[i]
        /\ \A i \in 1 .. n : data[l + i] = u[i]
    BY <2>3, <2>5, Concatenated
  <2>8. S * q = A + B
    BY <1>6
  <2> HIDE DEF data, q, P, A, B
  <2>9. ASSUME NEW j \in 1 .. n PROVE data[j] = p + j - 1
    <3>1. CASE j <= l
      <4>1. j \in 1 .. l
        BY <2>7, <3>1
      <4> QED BY <2>4, <2>7, <4>1 DEF Copied
    <3>2. CASE ~(j <= l)
      <4> DEFINE i == j - l
      <4>1. i \in 1 .. n /\ l + i = j
        <5> HIDE DEF l
        <5> QED BY <2>7, <3>2
      <4>2. x.sp + i - 1 < S
        BY <1>2, <1>3, <1>7, <2>4, <2>7, <4>1
      <4> HIDE DEF i
      <4>3. data[j] = A + B + x.sp + i - 1
        BY <2>6, <2>7, <2>8, <4>1, <4>2
      <4> HIDE DEF l, p
      <4> QED BY <1>2, <1>3, <1>7, <2>4, <2>7, <4>1, <4>3
    <3> QED BY <3>1, <3>2
  <2>10. Len(data) >= n
    BY <2>7
  <2> QED BY <2>2, <2>7, <2>9, <2>10
<1> QED BY <1>4, <1>5, <1>8

(* The sector that a unit lies in, and the cluster that a sector lies in.  *)
LEMMA ClusterIs ==
    ASSUME NEW p \in Nat
    PROVE  LET q == p \div S
           IN  /\ p = S * q + (p % S) /\ p % S \in 0 .. S - 1 /\ q \in Nat
               /\ q = SPC * (q \div SPC) + (q % SPC) /\ q % SPC \in 0 .. SPC - 1 /\ q \div SPC \in Nat
               /\ p \div (SPC * S) = q \div SPC
<1> DEFINE q == p \div S
           t == p % S
           c == q \div SPC
           s == q % SPC
           m == S * s + t
<1>1. S \in Nat /\ S > 0 /\ SPC \in Nat /\ SPC > 0 /\ SPC * S \in Nat /\ SPC * S > 0
  BY BootConstants
<1>2. p = S * q + t /\ t \in 0 .. S - 1 /\ q \in Nat
  BY <1>1, Divided
<1> HIDE DEF q, t
<1>3. q = SPC * c + s /\ s \in 0 .. SPC - 1 /\ c \in Nat
  BY <1>1, <1>2, Divided
<1> HIDE DEF c, s
<1>4. p = (SPC * S) * c + m /\ m \in 0 .. (SPC * S) - 1
  <2>1. S * q = (SPC * S) * c + S * s
    BY <1>1, <1>3
  <2>2. S * s \in Nat /\ S * s + S <= SPC * S
    <3>1. s \in Nat /\ s + 1 <= SPC
      BY <1>1, <1>3
    <3>2. S * (s + 1) <= S * SPC
      BY <1>1, <3>1
    <3>3. S * (s + 1) = S * s + S /\ S * SPC = SPC * S /\ S * s \in Nat
      BY <1>1, <3>1
    <3> QED BY <3>2, <3>3
  <2>3. (SPC * S) * c \in Nat
    BY <1>1, <1>3
  <2> DEFINE A == S * s
             B == SPC * S
             D == B * c
  <2>4. /\ A \in Nat /\ A + S <= B /\ B \in Nat /\ D \in Nat /\ S * q = D + A /\ m = A + t
    BY <1>1, <2>1, <2>2, <2>3
  <2> HIDE DEF m, A, D
  <2>5. p = D + m /\ m \in 0 .. B - 1
    <3> HIDE DEF B
    <3> QED BY <1>1, <1>2, <2>4
  <2> QED BY <2>5 DEF D
<1> HIDE DEF m
<1>5. p \div (SPC * S) = c
  <2> DEFINE B == SPC * S
  <2>1. p = B * c + m /\ m \in 0 .. B - 1 /\ B \in Nat /\ B > 0 /\ c \in Int /\ p \in Int
    BY <1>1, <1>3, <1>4
  <2> HIDE DEF B
  <2>2. p \div B = c
    BY <2>1, Division
  <2> QED BY <2>2 DEF B
<1> QED BY <1>2, <1>3, <1>5 DEF q, t, c, s

(* fileseek to a unit of the kernel leaves its sector at hand.             *)
LEMMA FileSeekIs ==
    ASSUME disk \in Images, NEW f \in FileRecs, NEW w, Window(w), NEW seek \in Nat,
           seek < disk.size, f.first = disk.kernel[1], Steady(f)
    PROVE  \A s \in FileSeek(f, w, seek) :
              /\ s.file \in FileRecs /\ SameFile(f, s.file) /\ Window(s.win)
              /\ s.file.position = seek /\ Aligned(s.file, seek \div S) /\ Steady(s.file)
<1> DEFINE q == seek \div S
           c == q \div SPC
           sector == q % SPC
           L == Len(disk.kernel)
           n == seek \div (SPC * S)
           To(x) == [f EXCEPT !.position = seek, !.cluster = x.cluster, !.sector = sector,
                              !.held = IF f.cluster # x.cluster \/ f.sector # sector
                                       THEN <<x.cluster, sector>> ELSE f.held]
<1>1. FileSeek(f, w, seek) = {[file |-> To(x), win |-> x.win] : x \in Walk(w, f.first, n)}
  BY DEF FileSeek
<1>2. q \in Nat /\ sector \in 0 .. SPC - 1 /\ sector \in Nat /\ c \in Nat /\ n = c
  <2>1. q \in Nat /\ sector \in 0 .. SPC - 1 /\ c \in Nat /\ n = c
    BY ClusterIs
  <2> HIDE DEF sector
  <2> QED BY <2>1, BootConstants
<1>3. S \in Nat /\ S > 0 /\ SPC \in Nat /\ SPC > 0 /\ L \in Nat /\ L > 0 /\ seek < (L * SPC) * S /\ L * SPC \in Nat
  BY BootConstants, DiskIs
<1>4. q < L * SPC
  BY <1>3, FloorIs
<1>5. c < L
  <2> HIDE DEF q
  <2> QED BY <1>2, <1>3, <1>4, FloorIs
<1>6. \A x \in Walk(w, f.first, c) : Window(x.win) /\ x.cluster = disk.kernel[c + 1]
  <2>1. f.first \in Nat
    BY DEF FileRecs
  <2> HIDE DEF c
  <2> QED BY <1>2, <1>5, <2>1, WalkIs DEF WalkOn
<1>7. disk.kernel[c + 1] \in Numbers
  <2> HIDE DEF c
  <2>1. c + 1 \in 1 .. L
    BY <1>2, <1>3, <1>5
  <2> QED BY <2>1, DiskIs
<1>8. ASSUME NEW x, x.cluster = disk.kernel[c + 1]
      PROVE  LET g == To(x)
             IN  /\ g \in FileRecs /\ SameFile(f, g) /\ g.position = seek
                 /\ Aligned(g, q) /\ Steady(g)
  <2> DEFINE g == To(x)
             h == IF f.cluster # x.cluster \/ f.sector # sector THEN <<x.cluster, sector>> ELSE f.held
  <2>1. x.cluster \in Nat /\ x.cluster < END /\ seek \in Int
    <3> HIDE DEF c
    <3>1. x.cluster \in Numbers
      BY <1>7, <1>8
    <3> DEFINE v == x.cluster
    <3>2. v \in Numbers
      BY <3>1
    <3> HIDE DEF v
    <3>3. v \in Nat /\ v < END
      BY <3>2, BootConstants
    <3> QED BY <3>3 DEF v
  <2>2. f.held \in Nat \X Nat /\ <<x.cluster, sector>> \in Nat \X Nat /\ f.cluster \in Nat /\ END \in Nat
    <3> HIDE DEF sector
    <3> QED BY <1>2, <2>1, BootConstants DEF FileRecs
  <2>3. h \in Nat \X Nat
    <3> HIDE DEF sector
    <3> QED BY <2>2
  <2>4. h = <<x.cluster, sector>>
    <3> HIDE DEF sector
    <3> QED BY <2>1, <2>2 DEF Steady
  <2>5. g = [f EXCEPT !.position = seek, !.cluster = x.cluster, !.sector = sector, !.held = h]
    OBVIOUS
  <2> HIDE DEF h, sector, g, c
  <2>6. /\ g \in FileRecs /\ SameFile(f, g) /\ g.position = seek
        /\ g.cluster = x.cluster /\ g.sector = sector /\ g.held = h
    BY <1>2, <2>1, <2>3, <2>5 DEF FileRecs, SameFile
  <2>7. Aligned(g, q)
    BY <1>2, <1>4, <1>8, <2>4, <2>6 DEF Aligned, c, sector
  <2>8. Steady(g)
    BY <2>4, <2>6 DEF Steady
  <2> QED BY <2>6, <2>7, <2>8 DEF g
<1> HIDE DEF To, q, n, c
<1> QED BY <1>1, <1>2, <1>6, <1>8 DEF q

-----------------------------------------------------------------------------
(* The loader's invariant.                                                 *)

KernelOpened == /\ ~file.isdir /\ file.size = disk.size
                /\ file.total = Len(disk.kernel) /\ file.first = disk.kernel[1]
                /\ Steady(file)

\* memory m holds the segment p
Holds(m, p) == \A i \in 0 .. p.memsz - 1 :
                   m[p.addr + i] = IF i < p.filesz THEN p.off + i ELSE CLEAR

LInv ==
    /\ disk \in Images /\ file \in FileRecs /\ Window(win) /\ seg \in Nat /\ seg > 0
    /\ DOMAIN mem = 0 .. MemSize - 1
    /\ bpc \in {"elf", "headers", "segment"} => KernelOpened
    /\ bpc # "halt" => \A k \in 1 .. Len(disk.segs) : k < seg => Holds(mem, disk.segs[k])
    /\ bpc = "kernel" => seg > Len(disk.segs)

LEMMA OpenedIs ==
    ASSUME NEW chain, NEW size \in Nat, NEW isdir \in BOOLEAN, Len(chain) \in Nat, chain[1] \in Nat
    PROVE  LET f == Opened(chain, size, isdir)
           IN  /\ f \in FileRecs /\ Steady(f) /\ f.isdir = isdir /\ f.size = size
               /\ f.total = Len(chain) /\ f.first = chain[1]
<1>1. <<chain[1], 0>> \in Nat \X Nat
  OBVIOUS
<1> QED BY <1>1 DEF Opened, FileRecs, Steady

(* The directory of a disk when it is opened.                              *)
LEMMA DirectoryIs ==
    ASSUME NEW d \in Images
    PROVE  Opened(d.dir, 0, TRUE) \in FileRecs /\ Len(d.segs) \in Nat
<1>1. d.dir \in Seq(Numbers) /\ d.dir # <<>>
  BY BootAssumption
<1>2. Len(d.segs) \in Nat
  <2> DEFINE R == [off : Nat, filesz : Nat, memsz : Nat, addr : Nat]
  <2>1. d.segs \in Seq(R)
    BY BootAssumption
  <2> HIDE DEF R
  <2> QED BY <2>1
<1>3. Len(d.dir) \in Nat /\ d.dir[1] \in Nat
  <2> DEFINE a == d.dir
  <2>1. a \in Seq(Numbers) /\ a # <<>>
    BY <1>1
  <2> HIDE DEF a
  <2>2. Len(a) \in Nat /\ a[1] \in Numbers
    BY <2>1
  <2> QED BY <2>2, BootConstants DEF a
<1>4. Opened(d.dir, 0, TRUE) \in FileRecs
  BY <1>3, OpenedIs
<1> QED BY <1>2, <1>4

(* Most steps leave memory and the segment's number alone.                 *)
LEMMA MemoryStays ==
    ASSUME LInv, disk' = disk, seg' = seg, mem' = mem, file' \in FileRecs, Window(win'),
           bpc = "halt" => bpc' = "halt",
           bpc' \in {"elf", "headers", "segment"} => KernelOpened',
           bpc' = "kernel" => seg > Len(disk.segs)
    PROVE  LInv'
  BY DEF LInv

LEMMA Stage1Keeps == ASSUME LInv, Stage1 PROVE LInv'
<1>1. /\ disk' = disk /\ UNCHANGED fileVars /\ bpc # "halt"
      /\ bpc' \in {"stage1", "reset", "next", "start", "halt", "wild"}
  <2>1. CASE Diskread
    BY <2>1 DEF Diskread, GoTo
  <2>2. CASE DiskreadFails
    BY <2>2 DEF DiskreadFails, GoTo
  <2>3. CASE DiskReset
    BY <2>3 DEF DiskReset, GoTo
  <2>4. CASE DiskResetFails
    BY <2>4 DEF DiskResetFails, GoTo
  <2>5. CASE NextEntry
    BY <2>5 DEF NextEntry, GoTo
  <2>6. CASE EnterStage2
    BY <2>6 DEF EnterStage2, GoTo
  <2> QED BY <2>1, <2>2, <2>3, <2>4, <2>5, <2>6 DEF Stage1
<1>2. seg' = seg /\ mem' = mem /\ file' = file /\ win' = win
  BY <1>1 DEF fileVars
<1>3. file' \in FileRecs /\ Window(win')
  BY <1>2 DEF LInv
<1> QED BY <1>1, <1>2, <1>3, MemoryStays

(* A walk that starts with a window ends with one.                         *)
LEMMA WalkedWindow ==
    ASSUME disk \in Images, NEW w, Window(w), NEW c \in Nat, NEW n \in Nat,
           NEW x \in Walk(w, c, n)
    PROVE  Window(x.win)
  BY WalkIs DEF WalkOn

LEMMA OpenRootKeeps == ASSUME LInv, OpenRoot PROVE LInv'
<1>1. /\ bpc = "start" /\ bpc' = "find" /\ disk' = disk /\ seg' = seg /\ mem' = mem
      /\ file' = Opened(disk.dir, 0, TRUE)
      /\ \E to \in Walk(0, disk.dir[1], Len(disk.dir)) : win' = to.win
  BY DEF OpenRoot, GoTo
<1>2. Window(win')
  <2>1. disk \in Images
    BY DEF LInv
  <2>2. 1 \in 1 .. Len(disk.dir) /\ Len(disk.dir) \in Nat
    BY <2>1, DiskIs
  <2>3. disk.dir[1] \in Nat
    BY <2>1, <2>2, DiskIs, BootConstants
  <2>4. Window(0)
    BY BootConstants DEF Window
  <2>5. PICK to \in Walk(0, disk.dir[1], Len(disk.dir)) : win' = to.win
    BY <1>1
  <2> QED BY <2>1, <2>2, <2>3, <2>4, <2>5, WalkedWindow
<1>3. file' \in FileRecs
  BY <1>1, DirectoryIs DEF LInv
<1> QED BY <1>1, <1>2, <1>3, MemoryStays

LEMMA FindEntryKeeps == ASSUME LInv, FindEntry PROVE LInv'
<1>1. /\ disk \in Images /\ file \in FileRecs /\ Window(win) /\ 1 \in Nat
  BY DEF LInv
<1>2. bpc = "find" /\ disk' = disk /\ seg' = seg /\ mem' = mem
  BY DEF FindEntry
<1>3. PICK r \in FileRead(file, win, 1) :
          \/ /\ bpc' = "elf"
             /\ file' = Opened(disk.kernel, disk.size, FALSE)
             /\ \E to \in Walk(r.win, disk.kernel[1], Len(disk.kernel)) : win' = to.win
          \/ bpc' \in {"find", "halt"} /\ file' = r.file /\ win' = r.win
          \/ bpc' = "wild" /\ file' = file /\ win' = win
  <2> DEFINE R == FileRead(file, win, 1)
  <2>1. PICK r \in R :
          \/ /\ r.data[1] = disk.slot
             /\ bpc' = "elf"
             /\ file' = Opened(disk.kernel, disk.size, FALSE)
             /\ \E to \in Walk(r.win, disk.kernel[1], Len(disk.kernel)) : win' = to.win
             /\ UNCHANGED left
          \/ /\ r.data[1] # disk.slot
             /\ bpc' = IF r.data[1] < disk.used /\ left > 0 THEN "find" ELSE "halt"
             /\ file' = r.file
             /\ win' = r.win
             /\ left' = left - 1
          \/ /\ Len(r.data) > 1
             /\ bpc' = "wild"
             /\ UNCHANGED <<file, win, left>>
    BY DEF FindEntry
  <2> HIDE DEF R
  <2> DEFINE T == \E to \in Walk(r.win, disk.kernel[1], Len(disk.kernel)) : win' = to.win
  <2>2. \/ /\ bpc' = "elf"
           /\ file' = Opened(disk.kernel, disk.size, FALSE)
           /\ T
        \/ bpc' \in {"find", "halt"} /\ file' = r.file /\ win' = r.win
        \/ bpc' = "wild" /\ file' = file /\ win' = win
    BY <2>1
  <2> QED BY <2>2 DEF R
<1>4. r.file \in FileRecs /\ Window(r.win)
  BY <1>1, FileReadKeeps
<1>5. CASE /\ bpc' = "elf"
           /\ file' = Opened(disk.kernel, disk.size, FALSE)
           /\ \E to \in Walk(r.win, disk.kernel[1], Len(disk.kernel)) : win' = to.win
  <2>1. 1 \in 1 .. Len(disk.kernel) /\ Len(disk.kernel) \in Nat
    BY <1>1, DiskIs
  <2>2. disk.kernel[1] \in Nat
    BY <1>1, <2>1, DiskIs, BootConstants
  <2>3. PICK to \in Walk(r.win, disk.kernel[1], Len(disk.kernel)) : win' = to.win
    BY <1>5
  <2>4. Window(win')
    BY <1>1, <1>4, <2>1, <2>2, <2>3, WalkedWindow
  <2>5. /\ file' \in FileRecs /\ Steady(file')
        /\ ~file'.isdir /\ file'.size = disk.size
        /\ file'.total = Len(disk.kernel) /\ file'.first = disk.kernel[1]
    <3> DEFINE f == Opened(disk.kernel, disk.size, FALSE)
    <3>1. disk.size \in Nat
      BY <1>1, DiskIs
    <3>2. /\ f \in FileRecs /\ Steady(f) /\ f.isdir = FALSE /\ f.size = disk.size
          /\ f.total = Len(disk.kernel) /\ f.first = disk.kernel[1]
      BY <2>1, <2>2, <3>1, OpenedIs
    <3> HIDE DEF f
    <3>3. file' = f
      BY <1>5 DEF f
    <3> QED BY <3>2, <3>3
  <2>6. KernelOpened'
    BY <1>2, <2>5 DEF KernelOpened, Steady
  <2> QED BY <1>2, <1>5, <2>4, <2>5, <2>6, MemoryStays
<1>6. CASE bpc' \in {"find", "halt"} /\ file' = r.file /\ win' = r.win
  <2>1. file' \in FileRecs /\ Window(win')
    BY <1>4, <1>6
  <2> QED BY <1>2, <1>6, <2>1, MemoryStays
<1>7. CASE bpc' = "wild" /\ file' = file /\ win' = win
  <2>1. file' \in FileRecs /\ Window(win')
    BY <1>1, <1>7
  <2> QED BY <1>2, <1>7, <2>1, MemoryStays
<1> QED BY <1>3, <1>5, <1>6, <1>7

(* The ELF header and the program headers are read from the kernel's file. *)
LEMMA HeadersKeep ==
    ASSUME LInv, KernelOpened, NEW n \in Nat, NEW r \in FileRead(file, win, n),
           disk' = disk, seg' = seg, mem' = mem, file' = r.file, win' = r.win,
           bpc # "halt", bpc' # "kernel"
    PROVE  LInv'
<1>1. /\ r.file \in FileRecs /\ SameFile(file, r.file) /\ (Steady(file) => Steady(r.file))
      /\ Window(r.win)
  BY FileReadKeeps DEF LInv
<1>2. file' \in FileRecs /\ Window(win')
  BY <1>1
<1>3. KernelOpened'
  BY <1>1 DEF KernelOpened, SameFile, Steady
<1> QED BY <1>2, <1>3, MemoryStays

LEMMA ReadElfKeeps == ASSUME LInv, ReadElf PROVE LInv'
<1>1. /\ bpc = "elf" /\ KernelOpened /\ disk' = disk /\ seg' = seg /\ mem' = mem /\ 1 \in Nat
  BY DEF ReadElf, LInv
<1>2. PICK r \in FileRead(file, win, 1) :
          bpc' \in {"halt", "headers"} /\ file' = r.file /\ win' = r.win
  <2> DEFINE R == FileRead(file, win, 1)
  <2>1. \E r \in R : /\ bpc' = IF r.result = 0 \/ ~disk.elf THEN "halt" ELSE "headers"
                     /\ file' = r.file
                     /\ win' = r.win
    BY DEF ReadElf
  <2> HIDE DEF R
  <2>2. \E r \in R : bpc' \in {"halt", "headers"} /\ file' = r.file /\ win' = r.win
    BY <2>1
  <2> QED BY <2>2 DEF R
<1> QED BY <1>1, <1>2, HeadersKeep

LEMMA ReadHeadersKeeps == ASSUME LInv, ReadHeaders PROVE LInv'
<1> DEFINE n == Len(disk.segs)
<1>1. /\ bpc = "headers" /\ KernelOpened /\ disk' = disk /\ seg' = seg /\ mem' = mem
  BY DEF ReadHeaders, LInv
<1>2. n \in Nat
  BY SegmentsAre DEF LInv
<1>3. PICK r \in FileRead(file, win, n) :
          bpc' \in {"segment", "wild"} /\ file' = r.file /\ win' = r.win
  <2> DEFINE R == FileRead(file, win, n)
             Good(r) == SubSeq(r.data, 1, n) = [k \in 1 .. n |-> k]
  <2>1. \E r \in R : /\ bpc' = IF Good(r) THEN "segment" ELSE "wild"
                     /\ file' = r.file
                     /\ win' = r.win
    BY DEF ReadHeaders
  <2> HIDE DEF R, Good
  <2>2. \E r \in R : bpc' \in {"segment", "wild"} /\ file' = r.file /\ win' = r.win
    BY <2>1
  <2> QED BY <2>2 DEF R
<1> HIDE DEF n
<1> QED BY <1>1, <1>2, <1>3, HeadersKeep

(* The segment p is copied and cleared where it belongs, and what lies     *)
(* below it is left alone.                                                 *)
LEMMA SegmentIn ==
    ASSUME NEW m, DOMAIN m = 0 .. MemSize - 1, NEW data, Len(data) \in Nat,
           NEW p, p.off \in Nat, p.filesz \in Nat, p.memsz \in Nat, p.addr \in Nat,
           p.filesz <= p.memsz, p.addr + p.memsz <= MemSize,
           Len(data) >= p.filesz, \A j \in 1 .. p.filesz : data[j] = p.off + j - 1
    PROVE  LET y == Cleared(Written(m, p.addr, data), p)
           IN  /\ DOMAIN y = 0 .. MemSize - 1
               /\ \A a \in 0 .. MemSize - 1 : a < p.addr => y[a] = m[a]
               /\ Holds(y, p)
<1> DEFINE l == Len(data)
           b == p.addr
           n == p.filesz
           z == Written(m, b, data)
           y == Cleared(z, p)
<1>1. /\ MemSize \in Nat /\ l \in Nat /\ b \in Nat /\ n \in Nat /\ n <= l /\ p.memsz \in Nat
      /\ n <= p.memsz /\ b + p.memsz <= MemSize
  BY BootConstants
<1>2. /\ DOMAIN z = 0 .. MemSize - 1
      /\ \A a \in 0 .. MemSize - 1 : z[a] = IF a - b + 1 \in 1 .. l THEN data[a - b + 1] ELSE m[a]
  BY DEF Written
<1>3. /\ DOMAIN y = 0 .. MemSize - 1
      /\ \A a \in 0 .. MemSize - 1 : y[a] = IF b + n <= a /\ a < b + p.memsz THEN CLEAR ELSE z[a]
  <2> HIDE DEF z
  <2> QED BY <1>2 DEF Cleared
<1> HIDE DEF z, y, l, b, n
<1>4. ASSUME NEW a \in 0 .. MemSize - 1, a < b PROVE y[a] = m[a]
  BY <1>1, <1>2, <1>3, <1>4
<1>5. ASSUME NEW i \in 0 .. p.memsz - 1
      PROVE  y[b + i] = IF i < n THEN p.off + i ELSE CLEAR
  <2> DEFINE a == b + i
  <2>1. a \in 0 .. MemSize - 1 /\ i \in Nat /\ i < p.memsz
    BY <1>1
  <2>2. CASE i < n
    <3>1. a - b + 1 = i + 1 /\ i + 1 \in 1 .. l /\ i + 1 \in 1 .. n /\ ~(b + n <= a)
      BY <1>1, <2>1, <2>2
    <3> HIDE DEF a
    <3>2. y[a] = data[i + 1]
      BY <1>2, <1>3, <2>1, <3>1
    <3>3. data[i + 1] = p.off + (i + 1) - 1
      BY <3>1 DEF n
    <3>4. p.off + (i + 1) - 1 = p.off + i
      BY <2>1
    <3> QED BY <2>2, <3>2, <3>3, <3>4 DEF a
  <2>3. CASE ~(i < n)
    <3>1. b + n <= a /\ a < b + p.memsz
      BY <1>1, <2>1, <2>3
    <3> HIDE DEF a
    <3>2. y[a] = CLEAR
      BY <1>3, <2>1, <3>1
    <3> QED BY <2>3, <3>2 DEF a
  <2> QED BY <2>2, <2>3
<1>6. Holds(y, p)
  BY <1>5 DEF Holds, b, n
<1> QED BY <1>3, <1>4, <1>6 DEF y, z, b

LEMMA LoadSegmentKeeps == ASSUME LInv, LoadSegment PROVE LInv'
<1> DEFINE p == disk.segs[seg]
           L == Len(disk.segs)
<1>1. /\ disk \in Images /\ file \in FileRecs /\ Window(win) /\ seg \in Nat /\ seg > 0
      /\ DOMAIN mem = 0 .. MemSize - 1 /\ KernelOpened /\ bpc = "segment"
      /\ \A k \in 1 .. L : k < seg => Holds(mem, disk.segs[k])
  BY DEF LInv, LoadSegment
<1>2. disk' = disk /\ seg <= L
  BY DEF LoadSegment
<1>3. L \in Nat /\ seg \in 1 .. L
  BY <1>1, <1>2, SegmentsAre
<1>4. /\ p.off \in Nat /\ p.filesz \in Nat /\ p.memsz \in Nat /\ p.addr \in Nat
      /\ p.filesz <= p.memsz /\ p.off + p.filesz <= disk.size
      /\ p.addr + p.memsz <= MemSize
  BY <1>1, <1>3, SegmentsAre
<1>5. \A k \in 1 .. L : k < seg =>
         /\ disk.segs[k].addr \in Nat /\ disk.segs[k].memsz \in Nat
         /\ disk.segs[k].addr + disk.segs[k].memsz <= p.addr
  BY <1>1, <1>3, SegmentsAre
<1>6. \/ /\ ~Seekable(file, p.off)
         /\ bpc' = "halt" /\ UNCHANGED <<file, win, seg, mem>>
      \/ /\ Seekable(file, p.off)
         /\ \E s \in FileSeek(file, win, p.off) : \E r \in FileRead(s.file, s.win, p.filesz) :
               /\ bpc' = IF r.result = 0 THEN "halt" ELSE "segment"
               /\ file' = r.file
               /\ win' = r.win
               /\ seg' = seg + 1
               /\ mem' = IF r.result = 0 THEN Written(mem, p.addr, r.data)
                         ELSE Cleared(Written(mem, p.addr, r.data), p)
  BY DEF LoadSegment
<1>7. CASE bpc' = "halt" /\ UNCHANGED <<file, win, seg, mem>>
  BY <1>1, <1>2, <1>7, MemoryStays
<1>8. ASSUME Seekable(file, p.off),
             NEW s \in FileSeek(file, win, p.off), NEW r \in FileRead(s.file, s.win, p.filesz),
             bpc' = IF r.result = 0 THEN "halt" ELSE "segment",
             file' = r.file, win' = r.win, seg' = seg + 1,
             mem' = IF r.result = 0 THEN Written(mem, p.addr, r.data)
                    ELSE Cleared(Written(mem, p.addr, r.data), p)
      PROVE  LInv'
  <2> DEFINE off == p.off
             n == p.filesz
             g == s.file
  <2>1. /\ g \in FileRecs /\ SameFile(file, g) /\ Window(s.win)
        /\ g.position = off /\ Aligned(g, off \div S) /\ Steady(g)
    <3>1. off < disk.size /\ file.first = disk.kernel[1] /\ Steady(file)
      BY <1>1, <1>8 DEF KernelOpened, Seekable
    <3>2. off \in Nat
      BY <1>4
    <3> HIDE DEF off
    <3>3. s \in FileSeek(file, win, off)
      BY <1>8 DEF off
    <3> QED BY <1>1, <3>1, <3>2, <3>3, FileSeekIs
  <2>2. /\ ~g.isdir /\ g.size = disk.size /\ g.total = Len(disk.kernel)
        /\ g.first = disk.kernel[1]
    BY <1>1, <2>1 DEF SameFile, KernelOpened
  <2>3. n \in Nat /\ off \in Nat /\ off + n <= disk.size /\ r \in FileRead(g, s.win, n)
    BY <1>4, <1>8
  <2> HIDE DEF g, off, n, p
  <2>4. r.file \in FileRecs /\ SameFile(g, r.file) /\ Steady(r.file) /\ Window(r.win)
    BY <1>1, <2>1, <2>3, FileReadKeeps
  <2>5. file' \in FileRecs /\ Window(win') /\ seg' \in Nat /\ seg' > 0
    BY <1>1, <1>8, <2>4
  <2>6. KernelOpened'
    BY <1>2, <1>8, <2>2, <2>4 DEF KernelOpened, SameFile, Steady
  <2>7. CASE r.result = 0
    <3>1. bpc' = "halt" /\ DOMAIN mem' = 0 .. MemSize - 1
      BY <1>1, <1>8, <2>7 DEF Written
    <3> QED BY <1>1, <1>2, <2>5, <2>6, <3>1 DEF LInv
  <2>8. CASE r.result # 0
    <3>1. bpc' = "segment" /\ mem' = Cleared(Written(mem, p.addr, r.data), p)
      BY <1>8, <2>8
    <3>2. /\ r.data \in Seq(Int) /\ Len(r.data) >= n
          /\ \A j \in 1 .. n : r.data[j] = off + j - 1
      <4>1. g.position \in Nat /\ Aligned(g, g.position \div S) /\ g.position + n <= disk.size
        BY <2>1, <2>3
      <4>2. /\ r.data \in Seq(Int) /\ Len(r.data) >= n
            /\ \A j \in 1 .. n : r.data[j] = g.position + j - 1
        BY <1>1, <2>1, <2>2, <2>3, <2>8, <4>1, FileReadCopies
      <4> QED BY <2>1, <4>2
    <3>3. /\ DOMAIN mem' = 0 .. MemSize - 1
          /\ \A a \in 0 .. MemSize - 1 : a < p.addr => mem'[a] = mem[a]
          /\ Holds(mem', p)
      <4>1. Len(r.data) \in Nat
        BY <3>2
      <4> DEFINE y == Cleared(Written(mem, p.addr, r.data), p)
      <4>2. /\ DOMAIN y = 0 .. MemSize - 1
            /\ \A a \in 0 .. MemSize - 1 : a < p.addr => y[a] = mem[a]
            /\ Holds(y, p)
        BY <1>1, <1>4, <3>2, <4>1, SegmentIn DEF off, n
      <4> HIDE DEF y
      <4>3. mem' = y
        BY <3>1 DEF y
      <4> QED BY <4>2, <4>3
    <3>4. ASSUME NEW k \in 1 .. L, k < seg + 1 PROVE Holds(mem', disk.segs[k])
      <4>1. CASE k = seg
        BY <3>3, <4>1 DEF p
      <4>2. CASE k # seg
        <5> DEFINE t == disk.segs[k]
        <5>1. k < seg
          BY <1>1, <1>3, <3>4, <4>2
        <5>2. Holds(mem, t) /\ t.addr \in Nat /\ t.memsz \in Nat /\ t.addr + t.memsz <= p.addr
          BY <1>1, <1>5, <5>1
        <5> HIDE DEF t
        <5>3. ASSUME NEW i \in 0 .. t.memsz - 1
              PROVE  mem'[t.addr + i] = IF i < t.filesz THEN t.off + i ELSE CLEAR
          <6>1. t.addr + i \in 0 .. MemSize - 1 /\ t.addr + i < p.addr
            <7> DEFINE b == p.addr
                       c == t.addr
                       z == t.memsz
            <7>1. /\ b \in Nat /\ c \in Nat /\ z \in Nat /\ c + z <= b /\ i \in 0 .. z - 1
                  /\ MemSize \in Nat /\ b <= MemSize
              <8>1. /\ b \in Nat /\ p.memsz \in Nat /\ b + p.memsz <= MemSize /\ MemSize \in Nat
                BY <1>4, BootConstants
              <8> QED BY <5>2, <8>1
            <7> HIDE DEF b, c, z
            <7>2. c + i \in 0 .. MemSize - 1 /\ c + i < b
              BY <7>1
            <7> QED BY <7>2 DEF b, c
          <6>2. mem'[t.addr + i] = mem[t.addr + i]
            BY <3>3, <6>1
          <6> QED BY <5>2, <6>2 DEF Holds
        <5> QED BY <5>3 DEF Holds, t
      <4> QED BY <4>1, <4>2
    <3> QED BY <1>1, <1>2, <1>8, <2>5, <2>6, <3>1, <3>3, <3>4 DEF LInv
  <2> QED BY <2>7, <2>8
<1> QED BY <1>6, <1>7, <1>8

LEMMA EnterKernelKeeps == ASSUME LInv, EnterKernel PROVE LInv'
<1>1. /\ disk' = disk /\ seg' = seg /\ mem' = mem /\ file' = file /\ win' = win
      /\ bpc = "segment" /\ bpc' = "kernel" /\ seg > Len(disk.segs)
  BY DEF EnterKernel, GoTo, fileVars
<1>2. file' \in FileRecs /\ Window(win')
  BY <1>1 DEF LInv
<1> QED BY <1>1, <1>2, MemoryStays

(* What the kernel starts from is the loader's beginning again.            *)
LEMMA LoaderForgotten == ASSUME LInv, kernelentry PROVE LInv'
<1>1. /\ disk' = CHOOSE d \in Images : TRUE
      /\ file' = Opened(disk'.dir, 0, TRUE)
      /\ mem' = [a \in DOMAIN mem |-> OLD] /\ win' = 0 /\ seg' = 1 /\ bpc' = "left"
  BY DEF kernelentry
<1>2. disk' \in Images
  BY <1>1 DEF LInv
<1>3. file' \in FileRecs /\ Len(disk'.segs) \in Nat
  BY <1>1, <1>2, DirectoryIs
<1>4. DOMAIN mem' = 0 .. MemSize - 1 /\ Window(win')
  BY <1>1, BootConstants DEF LInv, Window
<1>5. \A k \in 1 .. Len(disk'.segs) : ~(k < seg')
  BY <1>1, <1>3
<1>6. bpc' = "left" /\ seg' \in Nat /\ seg' > 0
  BY <1>1
<1> QED BY <1>2, <1>3, <1>4, <1>5, <1>6 DEF LInv

LEMMA LoaderStays == ASSUME LInv, UNCHANGED bootVars PROVE LInv'
<1>1. /\ disk' = disk /\ bpc' = bpc /\ file' = file /\ win' = win /\ seg' = seg /\ mem' = mem
  BY DEF bootVars, fileVars
<1> QED BY <1>1 DEF LInv, KernelOpened, Steady, Holds

LEMMA LoaderBegins == ASSUME Init PROVE LInv
<1>1. /\ disk \in Images /\ bpc = "stage1" /\ file = Opened(disk.dir, 0, TRUE)
      /\ win = 0 /\ seg = 1 /\ mem = [a \in 0 .. MemSize - 1 |-> OLD]
  BY DEF Init, BootInit
<1>2. file \in FileRecs /\ Len(disk.segs) \in Nat
  BY <1>1, DirectoryIs
<1>3. Window(win)
  BY <1>1, BootConstants DEF Window
<1>4. \A k \in 1 .. Len(disk.segs) : ~(k < seg)
  BY <1>1, <1>2
<1>5. DOMAIN mem = 0 .. MemSize - 1 /\ seg \in Nat /\ seg > 0 /\ disk \in Images /\ bpc = "stage1"
  BY <1>1
<1> QED BY <1>2, <1>3, <1>4, <1>5 DEF LInv

LEMMA LoaderKeeps == ASSUME LInv, [Next]_vars PROVE LInv'
<1>1. CASE Load
  <2>1. CASE Stage1
    BY <2>1, Stage1Keeps
  <2>2. CASE Stage2
    BY <2>2, FindEntryKeeps, ReadElfKeeps, ReadHeadersKeeps, LoadSegmentKeeps, EnterKernelKeeps
       DEF Stage2
  <2> QED BY <1>1, <2>1, <2>2 DEF Load
<1>2. CASE Stage2Main
  BY <1>2, OpenRootKeeps DEF Stage2Main
<1>3. CASE kernelentry
  BY <1>3, LoaderForgotten
<1>4. CASE Devices \/ Machine \/ Users
  BY <1>4, LoaderStays DEF Devices, Machine, Users
<1>5. CASE vars' = vars
  BY <1>5, LoaderStays DEF vars
<1> QED BY <1>1, <1>2, <1>3, <1>4, <1>5 DEF Next

(* The loader's file and window are those of the kernel from the time it   *)
(* is found, and memory holds every segment that has been passed           *)
(* (elf.c:20-40, file.c:114-185).                                          *)
THEOREM BootInvariant == Spec => []LInv
<1>1. Init => LInv
  BY LoaderBegins
<1>2. LInv /\ [Next]_vars => LInv'
  BY LoaderKeeps
<1> QED
  BY <1>1, <1>2, PTL DEF Spec

(* Whatever the kernel's segments are, when it is entered memory holds     *)
(* them as the file has them, and zeros where the file has nothing.        *)
THEOREM BootKernelLoaded == Spec => []KernelLoaded
<1>1. LInv => KernelLoaded
  <2> SUFFICES ASSUME LInv, bpc = "kernel"
               PROVE  \A k \in 1 .. Len(disk.segs) : Holds(mem, disk.segs[k])
    BY DEF KernelLoaded, Holds
  <2>1. seg \in Nat /\ seg > Len(disk.segs) /\ Len(disk.segs) \in Nat
    BY SegmentsAre DEF LInv
  <2>2. \A k \in 1 .. Len(disk.segs) : k < seg
    BY <2>1
  <2> QED BY <2>2 DEF LInv
<1> QED
  BY <1>1, BootInvariant, PTL
=============================================================================
