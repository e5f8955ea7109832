------------------------------ MODULE Startup ------------------------------
(***************************************************************************)
(* The machine from the BIOS to programs that the shell runs: the loader   *)
(* (Boot) with interrupts as the BIOS leaves them until stage 2 turns them *)
(* off, then the kernel's main, with devices that request at any time      *)
(* (Interrupts).                                                           *)
(***************************************************************************)
EXTENDS Boot, Interrupts

vars == <<bootVars, cpuVars>>

Init == BootInit /\ InterruptsInit

Load == /\ cpu = "run"
        /\ Stage1 \/ Stage2
        /\ UNCHANGED cpuVars

\* stage 2 is entered at _entry, which calls stage2main
Stage2Main == OpenRoot /\ _entry

(* The kernel gets the identify block and the memory map as arguments and  *)
(* never looks at stage 2 again: what the loader knew is forgotten here,   *)
(* so that what follows is the same for all disks.                         *)
kernelentry ==
    /\ bpc = "kernel" /\ bpc' = "left"
    /\ Step("stage2", "kernel")
    /\ disk' = CHOOSE d \in Images : TRUE
    /\ file' = Opened(disk'.dir, 0, TRUE)
    /\ mem' = [a \in DOMAIN mem |-> OLD]
    /\ list' = 1 /\ tries' = 3 /\ ah' = "read" /\ loaded' = TRUE /\ failed' = FALSE
    /\ win' = 0 /\ left' = 0 /\ seg' = 1
    /\ UNCHANGED <<iflag, inst, halted, picVars, idtVars, ticks, since, waitVars>>

Devices == (\E i \in Lines : Request(i)) /\ UNCHANGED bootVars
Machine == (Kernel \/ Interrupt) /\ UNCHANGED bootVars
Users   == Program /\ UNCHANGED bootVars

Next == Load \/ Stage2Main \/ kernelentry \/ Devices \/ Machine \/ Users

(* The processor executes what is there to execute, and the timer is       *)
(* programmed to tick for ever; nobody has to run a program or press a key. *)
Fairness == /\ WF_vars(Load \/ Stage2Main \/ kernelentry \/ Machine)
            /\ WF_vars(Request(0) /\ UNCHANGED bootVars)

Spec == Init /\ [][Next]_vars /\ Fairness
=============================================================================
