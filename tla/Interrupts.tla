----------------------------- MODULE Interrupts -----------------------------
(***************************************************************************)
(* Interrupts, from boot/stage2/entry.S, which turns them off, to the      *)
(* installed handlers: kernel/cpu/{idt,isr,irq}.c and the stubs of x86.S,  *)
(* main.c's order of calls, and the timer driver with timer_wait.  The     *)
(* processor and the two interrupt controllers are external.               *)
(*                                                                         *)
(* The processor either runs the kernel (cpu = "run", perhaps halted), one *)
(* action per instruction that matters, or is on its way through a gate,   *)
(* with interrupts off.  Devices request at any time.                      *)
(***************************************************************************)
EXTENDS Integers, Sequences, FiniteSets

CONSTANTS Vectors,  \* the vectors looked at, of the 256
          Lines,    \* the request lines looked at, of the 16
          Faults,   \* the exceptions that a program causes
          Ticks,    \* _timer_ticks wraps to 0 here (2^32)
          Waits     \* what programs pass to timer_wait

ASSUME InterruptsAssumption ==
    /\ Vectors \subseteq 0 .. 255 /\ Lines \subseteq 0 .. 15
    /\ {0, 1} \subseteq Lines
    /\ \A i \in Lines : 8 + i \in Vectors /\ 32 + i \in Vectors
    /\ Faults \subseteq Vectors \cap (0 .. 31)
    /\ Ticks \in Nat \ {0} /\ Waits \subseteq 0 .. Ticks - 1

VARIABLES
    at,          \* where the kernel is
    inst,        \* irqinstall's i
    iflag,       \* the processor takes interrupts
    cpu,         \* "run", or how far the interrupt at hand is; "stopped" is STOP, and
                 \* "astray" that there is no gate, handler or frame for what was met
    halted,      \* in hlt
    vec,         \* vector of the interrupt at hand
    stack,       \* words pushed by interrupts, the last one on top
    remapped,    \* the controllers send 32 + line, not the BIOS's 8 + line
    imr,         \* lines masked
    irr,         \* lines requested and not yet taken
    service,     \* lines taken and not yet acknowledged
    gates,       \* vectors with a present gate; its stub is isrfillstubs's
    isrs,        \* isr.c's handlers
    irqs,        \* irq.c's handlers: the lines with one
    ready,       \* lines whose driver has set its state up
    ticks,       \* _timer_ticks
    target,      \* timer_wait_until's time
    (*---------------------------------------------------------------------*)
    asked,       \* the argument of timer_wait
    since,       \* ticks since the call, up to `asked`
    wrapped,     \* the sum of ticks and `asked` did not fit
    rested       \* lines since whose last request the kernel has run

mainVars == <<at, inst, halted>>
picVars  == <<remapped, imr, irr, service>>
idtVars  == <<gates, isrs, irqs, ready>>
waitVars == <<target, asked, wrapped>>
cpuVars  == <<mainVars, iflag, cpu, vec, stack, picVars, idtVars, ticks, since, waitVars, rested>>

PIC_REMAP_OFFSET == 32

InterruptsInit ==
    /\ at = "bios" /\ inst = 0 /\ iflag = TRUE
    /\ cpu = "run" /\ halted = FALSE /\ vec = 0 /\ stack = <<>>
    /\ remapped = FALSE /\ imr = Lines \ {0, 1} /\ irr = {} /\ service = {}
    /\ gates = {} /\ isrs = [v \in Vectors |-> "none"] /\ irqs = {} /\ ready = {}
    /\ ticks = 0
    /\ target = 0 /\ asked = 0 /\ since = 0 /\ wrapped = FALSE /\ rested = Lines

-----------------------------------------------------------------------------
(* Devices and controllers.  Lower lines go first; a line at work keeps    *)
(* itself and the later ones back.  A device's period is much longer than  *)
(* a handler and an instruction of the kernel.                             *)

Request(i) == /\ at # "bios"
              /\ i \in rested \ (irr \cup service)
              /\ irr' = irr \cup {i}
              /\ rested' = rested \ {i}
              /\ UNCHANGED <<mainVars, iflag, cpu, vec, stack, remapped, imr, service, idtVars,
                             ticks, since, waitVars>>

Deliverable(i) == /\ i \in irr \ imr
                  /\ i >= 8 => 2 \notin imr
                  /\ \A j \in service \cup (irr \ (imr \cup {i})) : i < j

Vector(i) == (IF remapped THEN PIC_REMAP_OFFSET ELSE 8) + i

\* error codes that the processor pushes, and the stubs that expect one
CpuPushesCode == {8, 10, 11, 12, 13, 14, 17, 21}
\* mutant: 17's line is 33's
IsrErrShifted == {8, 10, 11, 12, 13, 14, 17, 33}
ISR_ERR       == {8, 10, 11, 12, 13, 14, 17, 21}

\* entries that lead to the vector's own stub, through an interrupt gate
isrfillstubs == 0 .. 255

Gate(v) == /\ vec' = v
           /\ cpu' = IF v \in gates \cap isrfillstubs THEN "stub" ELSE "astray"
           /\ stack' = stack \o <<"flags", "cs", "ip">>
                             \o (IF v \in CpuPushesCode THEN <<"code">> ELSE <<>>)
           /\ iflag' = FALSE
           /\ halted' = FALSE

\* between two instructions, or in hlt
Take(i) == /\ cpu = "run" /\ iflag /\ at # "bios"
           /\ Deliverable(i)
           /\ Gate(Vector(i))
           /\ irr' = irr \ {i}
           /\ service' = service \cup {i}
           /\ UNCHANGED <<at, inst, remapped, imr, idtVars, ticks, since, waitVars, rested>>

-----------------------------------------------------------------------------
(* From the gate to iret.                                                  *)

\* ISR_NO_ERR and ISR_ERR
Stub == /\ cpu = "stub"
        /\ cpu' = "handler"
        /\ stack' = stack \o (IF vec \in ISR_ERR THEN <<"number">> ELSE <<"zero", "number">>)
        /\ UNCHANGED <<mainVars, iflag, vec, picVars, idtVars, ticks, since, waitVars, rested>>

\* isrhandler, with exceptionhandler, or irqstub up to the acknowledgement
isrhandler ==
    LET line == vec - PIC_REMAP_OFFSET IN
    /\ cpu = "handler"
    /\ cpu' = CASE isrs[vec] = "exception" -> "stopped"
                [] isrs[vec] = "irqstub" /\ line \in irqs \cap ready -> "eoi"
                [] OTHER -> "astray"
    /\ IF isrs[vec] = "irqstub" /\ line = 0
       THEN ticks' = (ticks + 1) % Ticks /\ since' = IF since < asked THEN since + 1 ELSE since
       ELSE UNCHANGED <<ticks, since>>
    /\ UNCHANGED <<mainVars, iflag, vec, stack, picVars, idtVars, waitVars, rested>>

\* mutant: the controller is not told
EoiForgotten == /\ cpu = "eoi"
                /\ cpu' = "iret"
                /\ UNCHANGED <<mainVars, iflag, vec, stack, picVars, idtVars, ticks, since,
                               waitVars, rested>>

\* the controllers end the first line they have at work
Eoi == /\ cpu = "eoi"
       /\ cpu' = "iret"
       /\ service' = {i \in service : \E j \in service : j < i}
       /\ UNCHANGED <<mainVars, iflag, vec, stack, remapped, imr, irr, idtVars, ticks, since,
                      waitVars, rested>>

\* isrcommon drops the two words that the stub and the processor added
Iret == LET frame == SubSeq(stack, 1, Len(stack) - 2) IN
        /\ cpu = "iret"
        /\ IF Len(frame) >= 3 /\ frame[Len(frame)] = "ip"
           THEN cpu' = "run" /\ iflag' = TRUE /\ stack' = SubSeq(frame, 1, Len(frame) - 3)
           ELSE cpu' = "astray" /\ UNCHANGED <<iflag, stack>>
        /\ UNCHANGED <<mainVars, vec, picVars, idtVars, ticks, since, waitVars, rested>>

-----------------------------------------------------------------------------
(* The kernel: an instruction is only run when no interrupt is due.        *)

Step(from, to) == /\ cpu = "run" /\ ~halted
                  /\ iflag => \A i \in Lines : ~Deliverable(i)
                  /\ at = from /\ at' = to
                  /\ rested' = Lines
                  /\ UNCHANGED <<cpu, vec, stack>>

\* mutant: without the cli
_entryOpen == /\ Step("bios", "stage2")
              /\ UNCHANGED <<iflag, inst, halted, picVars, idtVars, ticks, since, waitVars>>

\* boot/stage2/entry.S: no gate of the kernel is there yet
_entry == /\ Step("bios", "stage2")
          /\ iflag' = FALSE
          /\ UNCHANGED <<inst, halted, picVars, idtVars, ticks, since, waitVars>>

idtinit == /\ Step("kernel", "isrinit")
           /\ gates' = {}
           /\ UNCHANGED <<iflag, inst, halted, picVars, isrs, irqs, ready, ticks, since, waitVars>>

\* isrfillstubs gives every vector its stub; the exceptions' gates become present
isrinit == /\ Step("isrinit", "irqinit")
           /\ gates' = gates \cup (Vectors \cap (0 .. 31))
           /\ isrs' = [v \in Vectors |-> IF v < 32 THEN "exception" ELSE isrs[v]]
           /\ UNCHANGED <<iflag, inst, halted, picVars, irqs, ready, ticks, since, waitVars>>

\* irqremap: the initialisation drops what was requested; mask is 0xFFFF
irqinit == /\ Step("irqinit", "kbdinit")
           /\ remapped' = TRUE
           /\ imr' = Lines
           /\ irr' = {}
           /\ service' = {}
           /\ isrs' = [v \in Vectors |-> IF v - PIC_REMAP_OFFSET \in 0 .. 15 THEN "irqstub" ELSE isrs[v]]
           /\ UNCHANGED <<iflag, inst, halted, gates, irqs, ready, ticks, since, waitVars>>

\* the part of the driver's init before irqinstall
DriverInit(from, i) ==
    /\ Step(from, "cli")
    /\ ready' = ready \cup {i}
    /\ inst' = i
    /\ UNCHANGED <<iflag, halted, picVars, gates, isrs, irqs, ticks, since, waitVars>>

kbdinit   == DriverInit("kbdinit", 1)
timerinit == DriverInit("timerinit", 0)

\* irqinstall(inst)
InstallCli == /\ Step("cli", "handler")
              /\ iflag' = FALSE
              /\ UNCHANGED <<inst, halted, picVars, idtVars, ticks, since, waitVars>>

InstallHandler == /\ Step("handler", "irqenable")
                  /\ irqs' = irqs \cup {inst}
                  /\ UNCHANGED <<iflag, inst, halted, picVars, gates, isrs, ready, ticks, since, waitVars>>

irqenable == /\ Step("irqenable", "idtenable")
             /\ imr' = imr \ {inst}
             /\ UNCHANGED <<iflag, inst, halted, remapped, irr, service, idtVars, ticks, since, waitVars>>

idtenable == /\ Step("idtenable", "sti")
             /\ gates' = gates \cup {inst + PIC_REMAP_OFFSET}
             /\ UNCHANGED <<iflag, inst, halted, picVars, isrs, irqs, ready, ticks, since, waitVars>>

InstallSti == /\ Step("sti", IF inst = 1 THEN "timerinit" ELSE "shell")
              /\ iflag' = TRUE
              /\ UNCHANGED <<inst, halted, picVars, idtVars, ticks, since, waitVars>>

irqinstall == InstallCli \/ InstallHandler \/ irqenable \/ idtenable \/ InstallSti

\* the shell runs a program that waits
timer_wait(n) == /\ Step("shell", "check")
                 /\ target' = (ticks + n) % Ticks
                 /\ asked' = n
                 /\ since' = 0
                 /\ wrapped' = (ticks + n >= Ticks)
                 /\ UNCHANGED <<iflag, inst, halted, picVars, idtVars, ticks>>

\* mutant: ticks != target
TimerCheckNotEqual == /\ Step("check", IF ticks # target THEN "hlt" ELSE "returned")
                      /\ UNCHANGED <<iflag, inst, halted, picVars, idtVars, ticks, since, waitVars>>

\* timer_wait_until's condition
TimerCheck == /\ Step("check", IF ticks < target THEN "hlt" ELSE "returned")
              /\ UNCHANGED <<iflag, inst, halted, picVars, idtVars, ticks, since, waitVars>>

\* mutant: the wait ends with the first interrupt
HltOnce == /\ Step("hlt", "returned")
           /\ halted' = TRUE
           /\ UNCHANGED <<iflag, inst, picVars, idtVars, ticks, since, waitVars>>

Hlt == /\ Step("hlt", "check")
       /\ halted' = TRUE
       /\ UNCHANGED <<iflag, inst, picVars, idtVars, ticks, since, waitVars>>

Returned == /\ Step("returned", "shell")
            /\ asked' = 0 /\ since' = 0 /\ target' = 0 /\ wrapped' = FALSE
            /\ UNCHANGED <<iflag, inst, halted, picVars, idtVars, ticks>>

\* an instruction of a program faults
Fault(v) == /\ cpu = "run" /\ ~halted /\ at = "shell"
            /\ Gate(v)
            /\ UNCHANGED <<at, inst, picVars, idtVars, ticks, since, waitVars, rested>>

Kernel    == \/ idtinit \/ isrinit \/ irqinit \/ kbdinit \/ timerinit \/ irqinstall
             \/ TimerCheck \/ Hlt \/ Returned
Interrupt == Stub \/ isrhandler \/ Eoi \/ Iret \/ \E i \in Lines : Take(i)
Program   == (\E n \in Waits : timer_wait(n)) \/ \E v \in Faults : Fault(v)

-----------------------------------------------------------------------------
(* Properties.                                                             *)

(* Wherever a request comes during boot and afterwards, it meets a present *)
(* gate, a handler and a driver that is ready for it, and iret finds the   *)
(* frame that the processor pushed (entry.S:9, irq.c:110, x86.S:127).      *)
NoneAstray == cpu # "astray"

(* Once both drivers are installed, a tick and a key are taken, whatever   *)
(* else is pending or masked, until an exception stops the machine         *)
(* (irq.c:48-63).                                                          *)
Running == at \in {"shell", "check", "hlt", "returned"}
RequestsServed == \A i \in {0, 1} : (Running /\ i \in irr) ~> (i \notin irr \/ cpu = "stopped")

(* timer_wait does not return before the ticks asked for, unless the sum   *)
(* wraps, when it returns at once (timer.c:27-36).                         *)
WaitsAsAsked == at = "returned" => since = asked \/ wrapped

(* It does return, although a tick may come between the check and hlt and  *)
(* is then noticed one tick late: with the last count as its target it can *)
(* miss it.                                                                *)
WaitEnds == (at = "check" /\ target < Ticks - 1) ~> at = "returned"
=============================================================================
