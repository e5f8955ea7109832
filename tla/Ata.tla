-------------------------------- MODULE Ata --------------------------------
(***************************************************************************)
(* The ATA driver, kernel/disk/ata.c, against a drive that does its part   *)
(* between any two of the driver's port accesses.  Sectors are transferred *)
(* as a whole: the drive changes nothing while one is.                     *)
(* The drive is external.  It is BSY from a command until its next sector  *)
(* can be transferred (DRQ), or until it gives up (ERR); a byte written to *)
(* the data port is no word of a sector (that is where atacacheflush sends *)
(* its command, ata.c:18).                                                 *)
(***************************************************************************)
EXTENDS Integers, Sequences

CONSTANTS SECTORS,   \* _ataidentify->useraddressablesectors
          Data,      \* what a sector may hold
          ReadMax,   \* bound: sectors a read asks for
          WriteMax   \* bound: sectors a write asks for

\* what no sector holds
Garbage == "garbage"

ASSUME AtaAssumption == /\ SECTORS \in Nat \ {0}
                        /\ ReadMax \in Nat /\ WriteMax \in Nat
                        /\ Garbage \notin Data

VARIABLES
    bsy, drq, err,  \* the drive's status
    cmd,            \* the command it is at: its sector, how many are left, and
                    \* the sector it was given to write
    disk,           \* its sectors
    (*---------------------------------------------------------------------*)
    pc,             \* where the driver is
    call,           \* its arguments; src is what atawrite is to write
    i, ready,       \* its locals: sectors done, the DRQ bit of its status
    dst,            \* what ataread has read
    (*---------------------------------------------------------------------*)
    ret,            \* the last call's result
    reported,       \* the call at work, or the last one, has called ataerror
    early,          \* the last read took a sector before the drive had it ready
    content         \* what each sector may hold by the calls that were made

drive  == <<bsy, drq, err, cmd, disk>>
driver == <<pc, call, i, ready, dst, ret, reported, early>>
vars   == <<drive, driver, content>>

LBAs    == 0 .. SECTORS - 1
NoCmd   == [op |-> "none", lba |-> 0, left |-> 0, sector |-> Garbage]
NoCall  == [op |-> "none", lba |-> 0, sectors |-> 0, src |-> <<>>]

Init == /\ bsy = FALSE /\ drq = FALSE /\ err = FALSE /\ cmd = NoCmd
        /\ disk \in [LBAs -> Data]
        /\ pc = "idle" /\ call = NoCall /\ i = 0 /\ ready = FALSE /\ dst = <<>>
        /\ ret = FALSE /\ reported = FALSE /\ early = FALSE
        /\ content = [l \in LBAs |-> {disk[l]}]

-----------------------------------------------------------------------------
(* The drive.                                                              *)

Status(b, d, e) == bsy' = b /\ drq' = d /\ err' = e

\* after a reset
DriveIdle ==
    /\ bsy /\ cmd.op = "none"
    /\ Status(FALSE, FALSE, FALSE)
    /\ UNCHANGED <<cmd, disk, driver, content>>

\* a sector is in the drive's buffer, or there is room for one in it
DriveReady ==
    /\ bsy /\ cmd.op \in {"read", "write"} /\ cmd.sector = Garbage
    /\ Status(FALSE, TRUE, FALSE)
    /\ UNCHANGED <<cmd, disk, driver, content>>

\* the sector that was transferred is on the disk
DriveWrites ==
    /\ bsy /\ cmd.op = "write" /\ cmd.sector # Garbage
    /\ disk' = [disk EXCEPT ![cmd.lba] = cmd.sector]
    /\ cmd' = IF cmd.left = 1 THEN NoCmd
              ELSE [cmd EXCEPT !.lba = @ + 1, !.left = @ - 1, !.sector = Garbage]
    /\ Status(FALSE, cmd.left > 1, FALSE)
    /\ UNCHANGED <<driver, content>>

\* the command ends with an error; a read may still offer a sector, of anything
DriveFails ==
    /\ bsy /\ cmd.op # "none"
    /\ \E offers \in BOOLEAN : (offers => cmd.op = "read") /\ Status(FALSE, offers, TRUE)
    /\ cmd' = NoCmd
    /\ UNCHANGED <<disk, driver, content>>

Drive == DriveIdle \/ DriveReady \/ DriveWrites \/ DriveFails

-----------------------------------------------------------------------------
(* The driver.                                                             *)

Return(result) ==
    /\ pc' = "idle"
    /\ ret' = result
    /\ content' = IF call.op = "write" /\ result /\ ~ reported' /\ ~ early
                  THEN [l \in LBAs |-> IF l \in call.lba .. call.lba + call.sectors - 1
                                       THEN {call.src[l - call.lba + 1]} ELSE content[l]]
                  ELSE content
    /\ UNCHANGED call

Called(op, lba, sectors, src) ==
    /\ pc = "idle"
    /\ call' = [op |-> op, lba |-> lba, sectors |-> sectors, src |-> src]
    /\ i' = 0 /\ ready' = FALSE /\ dst' = <<>> /\ reported' = FALSE

Beyond(lba, sectors) == lba + sectors > SECTORS

\* atareset breaks off whatever the drive is doing (its own look at ERR sees it BSY)
ataread(lba, sectors) ==
    /\ Called("read", lba, sectors, <<>>)
    /\ Status(TRUE, FALSE, FALSE) /\ cmd' = NoCmd
    /\ early' = FALSE
    /\ pc' = "flush"
    /\ UNCHANGED <<disk, ret, content>>

(* atawrite does not reset.  Its sectors may be on the disk or not until   *)
(* it returns.                                                             *)
atawrite(lba, src) ==
    /\ Called("write", lba, Len(src), src)
    /\ pc' = "bounds"
    /\ content' = [l \in LBAs |->
          IF l - lba + 1 \in DOMAIN src /\ ~ Beyond(lba, Len(src))
          THEN content[l] \cup {src[l - lba + 1]} ELSE content[l]]
    /\ UNCHANGED <<drive, ret, early>>

\* mutant: atawrite goes on while the drive is busy
FlushedAtOnce == TRUE

\* mutant: the bit of DRQ is tested
FlushedByDrq == drq

Flushed == ~ bsy

\* the for loop
SectorDone ==
    /\ i' = i + 1
    /\ IF i + 1 < call.sectors
       THEN pc' = "wait" /\ UNCHANGED <<call, ret, content>>
       ELSE Return(TRUE)

(* atacacheflush has seen BSY clear: it reports an error, and its caller   *)
(* goes on all the same.                                                   *)
atacacheflush ==
    /\ pc = "flush"
    /\ Flushed
    /\ reported' = (reported \/ err)
    /\ IF call.op = "read"
       THEN pc' = "bounds" /\ UNCHANGED <<i, call, ret, content>>
       ELSE SectorDone
    /\ UNCHANGED <<drive, ready, dst, early>>

Bounds ==
    /\ pc = "bounds"
    /\ UNCHANGED <<drive, i, ready, dst, reported, early>>
    /\ \/ Beyond(call.lba, call.sectors) /\ Return(FALSE)
       \/ ~ Beyond(call.lba, call.sectors) /\ call.sectors = 0 /\ Return(TRUE)

\* a drive that is busy does not take a command
Command ==
    /\ pc = "bounds"
    /\ ~ Beyond(call.lba, call.sectors) /\ call.sectors > 0
    /\ IF bsy THEN UNCHANGED <<bsy, drq, err, cmd>>
       ELSE /\ Status(TRUE, FALSE, FALSE)
            /\ cmd' = [op |-> call.op, lba |-> call.lba, left |-> call.sectors, sector |-> Garbage]
    /\ pc' = "wait"
    /\ UNCHANGED <<disk, call, i, ready, dst, ret, reported, early, content>>

\* mutant: the sector is transferred without waiting for it
ReadyAtOnce == TRUE

\* the loop is left as soon as one status had DRQ; status is not reset for the next sector
Ready == ready \/ drq

Wait ==
    /\ pc = "wait"
    /\ Ready
    /\ ready' = TRUE
    /\ pc' = "transfer"
    /\ UNCHANGED <<drive, call, i, dst, ret, reported, early, content>>

\* to dst: what the drive offers, or anything
ReadSector ==
    /\ pc = "transfer" /\ call.op = "read"
    /\ IF drq /\ cmd.op = "read"
       THEN /\ dst' = Append(dst, disk[cmd.lba])
            /\ Status(cmd.left > 1, FALSE, FALSE)
            /\ cmd' = IF cmd.left = 1 THEN NoCmd ELSE [cmd EXCEPT !.lba = @ + 1, !.left = @ - 1]
       ELSE /\ dst' = Append(dst, Garbage)
            /\ Status(bsy, FALSE, err)
            /\ UNCHANGED cmd
    /\ early' = (early \/ ~ drq)
    /\ pc' = "check"
    /\ UNCHANGED <<disk, call, i, ready, ret, reported, content>>

\* from src, to a drive that may have no use for it
WriteSector ==
    /\ pc = "transfer" /\ call.op = "write"
    /\ IF drq /\ cmd.op = "write"
       THEN Status(TRUE, FALSE, FALSE) /\ cmd' = [cmd EXCEPT !.sector = call.src[i + 1]]
       ELSE UNCHANGED <<bsy, drq, err, cmd>>
    /\ pc' = "check"
    /\ UNCHANGED <<disk, call, i, ready, dst, ret, reported, early, content>>

\* ERR has no meaning while the drive is busy
atacheckerror == err /\ ~ bsy

CheckFails ==
    /\ pc = "check" /\ atacheckerror
    /\ reported' = TRUE
    /\ Return(FALSE)
    /\ UNCHANGED <<drive, i, ready, dst, early>>

CheckPasses ==
    /\ pc = "check" /\ ~ atacheckerror
    /\ UNCHANGED <<drive, ready, dst, reported, early>>
    /\ IF call.op = "write"
       THEN pc' = "flush" /\ UNCHANGED <<i, call, ret, content>>
       ELSE SectorDone

Driver == \/ atacacheflush \/ Bounds \/ Command \/ Wait
          \/ ReadSector \/ WriteSector \/ CheckFails \/ CheckPasses

Next == \/ \E lba \in LBAs, sectors \in 0 .. ReadMax : ataread(lba, sectors)
        \/ \E lba \in LBAs, n \in 0 .. WriteMax : \E src \in [1 .. n -> Data] : atawrite(lba, src)
        \/ Driver
        \/ Drive

(* The driver runs on, and the drive ends what it has begun.               *)
Spec == Init /\ [][Next]_vars /\ WF_vars(Driver) /\ WF_vars(Drive)

-----------------------------------------------------------------------------
(* Properties.                                                             *)

(* Every variable has its type, and the drive does not offer or ask for a  *)
(* sector while it is busy.                                                *)
TypeOK ==
    /\ {bsy, drq, err, ready, ret, reported, early} \subseteq BOOLEAN /\ ~ (bsy /\ drq)
    /\ cmd \in [op : {"none", "read", "write"}, lba : LBAs, left : 0 .. ReadMax + WriteMax,
                sector : Data \cup {Garbage}]
    /\ disk \in [LBAs -> Data]
    /\ pc \in {"idle", "flush", "bounds", "wait", "transfer", "check"}
    /\ i \in 0 .. call.sectors
    /\ dst \in Seq(Data \cup {Garbage}) /\ Len(dst) <= call.sectors
    /\ content \in [LBAs -> SUBSET Data]

(* A read that returns true has the disk's sectors, after any calls that   *)
(* failed or left the drive at work, wherever the drive was between the    *)
(* driver's accesses (ata.c:44-97).  Excepted is a read of several sectors *)
(* that found the drive slower than itself: it waits for the first sector  *)
(* only, and takes what is there for the others (ata.c:81-85).             *)
ReadsTheDisk ==
    /\ call.op = "read" /\ early => Len(dst) > 1
    /\ pc = "idle" /\ call.op = "read" /\ ret /\ ~ early =>
          dst = [k \in 1 .. call.sectors |-> disk[call.lba + k - 1]]

(* Between calls the disk is as the writes have left it: a write that      *)
(* returned true and reported nothing is on the disk, one that failed or   *)
(* reported an error may be, and no other sector has changed.  Nor must be *)
(* one that follows a read of the excepted kind: the drive is still at     *)
(* that read, and what is written goes nowhere                             *)
(* (ata.c:99-149).                                                         *)
DiskAsWritten == TypeOK /\ (pc = "idle" => \A l \in LBAs : disk[l] \in content[l])

(* A call ends, unless the drive has given up while the driver waits for a *)
(* sector: the loops at ata.c:81 and 132 do not look at ERR.               *)
CallsReturn == pc # "idle" ~> pc = "idle" \/ (pc = "wait" /\ err)
=============================================================================
