----------------------------- MODULE AtaProofs ------------------------------
(***************************************************************************)
(* Proofs about Ata for every number of sectors, every content of a sector *)
(* and calls of any length.  The inductive invariant AInv says how far the *)
(* drive is with its command when the driver is at each of its steps: in a *)
(* write always, in a read until one sector was taken too early, after     *)
(* which nothing is known of the drive but that it still is at a read.     *)
(***************************************************************************)
EXTENDS Ata, SequenceTheorems, TLAPS

Op    == cmd.op
Lba   == cmd.lba
Left  == cmd.left
Given == cmd.sector

Asked   == call.op
First   == call.lba
Sectors == call.sectors
Src     == call.src

Quiet     == ~bsy /\ Op = "none"
InLoop    == pc \in {"wait", "transfer", "check"} \/ (pc = "flush" /\ Asked = "write")
Resetting == pc = "flush" /\ Asked = "read"
Handed    == pc \in {"check", "flush"}  \* the sector of this round has been transferred

\* the drive's command has come to sector n of the call
AtSector(n) == Lba = First + n /\ Left = Sectors - n

Written(n) == \A k \in 0 .. n - 1 : disk[First + k] = Src[k + 1]
HasRead(n) == Len(dst) = n /\ \A k \in 1 .. n : dst[k] = disk[First + k - 1]

Commands == [op : {"none", "read", "write"}, lba : LBAs, left : 0 .. ReadMax + WriteMax,
             sector : Data \cup {Garbage}]

CallOK ==
    /\ call \in [op : {"none", "read", "write"}, lba : LBAs, sectors : 0 .. ReadMax + WriteMax,
                 src : Seq(Data)]
    /\ Asked = "write" => Len(Src) = Sectors

DriveOK ==
    /\ err => Quiet
    /\ Op # "none" => Left > 0 /\ Lba + Left <= SECTORS

Places ==
    /\ pc # "idle" => Asked \in {"read", "write"}
    /\ InLoop => i < Sectors /\ First + Sectors <= SECTORS
    /\ pc = "bounds" \/ Resetting => i = 0 /\ ~ready /\ dst = <<>>
    /\ Resetting => Op = "none"
    /\ pc \in {"bounds", "flush"} /\ Asked = "read" => ~early
    /\ pc \in {"idle", "bounds"} /\ ~early => Quiet

(* A write command is of the call at work, and where the driver is.        *)
AtWrite ==
    Op = "write" =>
        /\ Asked = "write" /\ InLoop
        /\ IF Handed
           THEN \/ bsy /\ AtSector(i) /\ Given = Src[i + 1]
                \/ ~bsy /\ drq /\ AtSector(i + 1) /\ Given = Garbage
           ELSE AtSector(i) /\ Given = Garbage /\ (pc = "transfer" \/ ready => drq)

\* where a write is that has met no error
WriteAt ==
    IF Handed
    THEN \/ Op = "write" /\ bsy /\ Written(i)
         \/ Written(i + 1) /\ ~bsy /\ Op = IF i + 1 < Sectors THEN "write" ELSE "none"
    ELSE Op = "write" /\ Written(i)

WriteGoesOn == Asked = "write" /\ InLoop /\ ~early /\ ~err => WriteAt

\* the sectors that ataread has taken
Count == IF pc = "check" THEN i + 1 ELSE i

\* where a read is that has met no error and was never early
ReadAt == HasRead(Count) /\ IF Count < Sectors THEN Op = "read" /\ AtSector(Count) ELSE Quiet

ReadGoesOn ==
    Asked = "read" =>
        /\ early => Len(dst) > 1
        /\ InLoop => Len(dst) = Count
        /\ pc = "wait" /\ i = 0 => ~ready
        /\ pc = "transfer" /\ i = 0 => drq
        /\ InLoop /\ ~early /\ ~err => ReadAt
        /\ pc = "idle" /\ ret /\ ~early => HasRead(Sectors)

(* The disk holds what it may hold, of which the sectors of a write at     *)
(* work are part.                                                          *)
ContentOK ==
    /\ \A l \in LBAs : disk[l] \in content[l]
    /\ Asked = "write" /\ pc # "idle" /\ First + Sectors <= SECTORS =>
          \A k \in 0 .. Sectors - 1 : Src[k + 1] \in content[First + k]

AInv == TypeOK /\ CallOK /\ DriveOK /\ Places /\ AtWrite /\ WriteGoesOn /\ ReadGoesOn /\ ContentOK

-----------------------------------------------------------------------------
(* The constants and the records, field by field.                          *)

LEMMA Constants == SECTORS \in Nat /\ SECTORS > 0 /\ ReadMax \in Nat /\ WriteMax \in Nat
BY AtaAssumption

LEMMA Fields ==
    ASSUME TypeOK, CallOK
    PROVE  /\ Op \in {"none", "read", "write"} /\ Lba \in Nat /\ Lba < SECTORS /\ Left \in Nat
           /\ Asked \in {"none", "read", "write"} /\ First \in Nat /\ First < SECTORS
           /\ Sectors \in Nat /\ Sectors <= ReadMax + WriteMax /\ Src \in Seq(Data)
           /\ i \in Nat /\ i <= Sectors
           /\ dst \in Seq(Data \cup {Garbage}) /\ Len(dst) \in Nat /\ Len(dst) <= Sectors
<1>1. cmd \in Commands
  BY DEF TypeOK, Commands
<1>2. call \in [op : {"none", "read", "write"}, lba : LBAs, sectors : 0 .. ReadMax + WriteMax,
                src : Seq(Data)]
  BY DEF CallOK
<1>3. Op \in {"none", "read", "write"} /\ Lba \in Nat /\ Lba < SECTORS /\ Left \in Nat
  BY <1>1, Constants DEF Commands, LBAs, Op, Lba, Left
<1>4. /\ Asked \in {"none", "read", "write"} /\ First \in Nat /\ First < SECTORS
      /\ Sectors \in Nat /\ Sectors <= ReadMax + WriteMax /\ Src \in Seq(Data)
  BY <1>2, Constants DEF LBAs, Asked, First, Sectors, Src
<1>5. i \in 0 .. Sectors
  BY DEF TypeOK, Sectors
<1>6. dst \in Seq(Data \cup {Garbage}) /\ Len(dst) <= Sectors
  BY DEF TypeOK, Sectors
<1>7. Len(dst) \in Nat
  BY <1>6
<1> QED
  BY <1>3, <1>4, <1>5, <1>6, <1>7

(* What a step of the drive leaves the driver.                             *)
LEMMA DriverStays ==
    ASSUME UNCHANGED <<driver, content>>
    PROVE  /\ pc' = pc /\ i' = i /\ ready' = ready /\ dst' = dst /\ ret' = ret
           /\ reported' = reported /\ early' = early /\ content' = content /\ call' = call
           /\ Asked' = Asked /\ First' = First /\ Sectors' = Sectors /\ Src' = Src
BY DEF driver, Asked, First, Sectors, Src

(* A sector that atawrite has still to write is one of the caller's.       *)
LEMMA OwnSector ==
    ASSUME AInv, Asked = "write", InLoop
    PROVE  Src[i + 1] \in Data /\ Src[i + 1] # Garbage
<1>1. TypeOK /\ CallOK /\ i < Sectors /\ Len(Src) = Sectors
  BY DEF AInv, Places, CallOK
<1>2. Src \in Seq(Data) /\ i \in Nat /\ i + 1 \in 1 .. Len(Src)
  BY <1>1, Fields
<1> QED
  BY <1>2, AtaAssumption

-----------------------------------------------------------------------------
(* The drive.                                                              *)

LEMMA DriveIdleKeeps == ASSUME AInv, DriveIdle PROVE AInv'
<1>1. /\ bsy /\ Op = "none" /\ ~bsy' /\ ~drq' /\ ~err' /\ cmd' = cmd /\ disk' = disk
      /\ Op' = Op /\ Lba' = Lba /\ Left' = Left /\ Given' = Given
      /\ bsy' \in BOOLEAN /\ drq' \in BOOLEAN /\ err' \in BOOLEAN
  BY DEF DriveIdle, Status, Op, Lba, Left, Given
<1>2. UNCHANGED <<driver, content>>
  BY DEF DriveIdle
<1>3. /\ pc' = pc /\ i' = i /\ ready' = ready /\ dst' = dst /\ ret' = ret
      /\ reported' = reported /\ early' = early /\ content' = content /\ call' = call
      /\ Asked' = Asked /\ First' = First /\ Sectors' = Sectors /\ Src' = Src
  BY <1>2, DriverStays
<1>4. TypeOK'
  BY <1>1, <1>3 DEF AInv, TypeOK
<1>5. CallOK'
  BY <1>3 DEF AInv, CallOK
<1>6. DriveOK'
  BY <1>1 DEF AInv, DriveOK
<1>7. Places'
  BY <1>1, <1>3 DEF AInv, Places, InLoop, Resetting, Quiet
\* it comes to an end of nothing that the driver waits for
<1>8. ~(InLoop /\ Asked \in {"read", "write"} /\ ~early)
  <2>1. ~err
    BY <1>1 DEF AInv, DriveOK, Quiet
  <2>2. ~WriteAt /\ ~ReadAt
    BY <1>1 DEF WriteAt, ReadAt, Quiet
  <2> QED
    BY <2>1, <2>2 DEF AInv, WriteGoesOn, ReadGoesOn
<1>9. InLoop' = InLoop /\ Count' = Count
  BY <1>3 DEF InLoop, Count
<1>10. AtWrite' /\ WriteGoesOn'
  BY <1>1, <1>3, <1>8, <1>9 DEF AInv, AtWrite, WriteGoesOn
<1>11. ReadGoesOn'
  <2>1. ASSUME Asked = "read", pc = "idle", ret, ~early PROVE HasRead(Sectors)'
    BY <1>1, <1>3, <2>1 DEF AInv, ReadGoesOn, HasRead
  <2>2. ASSUME Asked = "read", pc = "transfer", i = 0 PROVE FALSE
    BY <1>8, <2>2 DEF AInv, ReadGoesOn, InLoop, Count
  <2> QED
    BY <1>1, <1>3, <1>8, <1>9, <2>1, <2>2 DEF AInv, ReadGoesOn
<1>12. ContentOK'
  BY <1>1, <1>3 DEF AInv, ContentOK
<1> QED
  BY <1>4, <1>5, <1>6, <1>7, <1>10, <1>11, <1>12 DEF AInv

LEMMA DriveReadyKeeps == ASSUME AInv, DriveReady PROVE AInv'
<1>1. /\ bsy /\ Op # "none" /\ Given = Garbage /\ ~bsy' /\ drq' /\ ~err' /\ cmd' = cmd /\ disk' = disk
      /\ Op' = Op /\ Lba' = Lba /\ Left' = Left /\ Given' = Given
      /\ bsy' \in BOOLEAN /\ drq' \in BOOLEAN /\ err' \in BOOLEAN
  BY DEF DriveReady, Status, Op, Lba, Left, Given
<1>2. UNCHANGED <<driver, content>>
  BY DEF DriveReady
<1>3. /\ pc' = pc /\ i' = i /\ ready' = ready /\ dst' = dst /\ ret' = ret
      /\ reported' = reported /\ early' = early /\ content' = content /\ call' = call
      /\ Asked' = Asked /\ First' = First /\ Sectors' = Sectors /\ Src' = Src
  BY <1>2, DriverStays
<1>4. TypeOK'
  BY <1>1, <1>3 DEF AInv, TypeOK
<1>5. CallOK'
  BY <1>3 DEF AInv, CallOK
<1>6. ~err /\ ~Quiet
  BY <1>1 DEF AInv, DriveOK, Quiet
<1>7. DriveOK'
  BY <1>1 DEF AInv, DriveOK
<1>8. Places'
  BY <1>1, <1>3, <1>6 DEF AInv, Places, InLoop, Resetting
<1>9. InLoop' = InLoop /\ Count' = Count /\ Handed' = Handed
  BY <1>3 DEF InLoop, Count, Handed
\* a sector of the caller's is not garbage
<1>10. Op = "write" => ~Handed
  BY <1>1, OwnSector DEF AInv, AtWrite
<1>11. AtWrite'
  <2>1. AtSector(i)' <=> AtSector(i)
    BY <1>1, <1>3 DEF AtSector
  <2> QED
    BY <1>1, <1>3, <1>9, <1>10, <2>1 DEF AInv, AtWrite
<1>12. WriteGoesOn'
  <2>1. Written(i)' <=> Written(i)
    BY <1>1, <1>3 DEF Written
  <2>2. WriteAt => WriteAt'
    BY <1>1, <1>3, <1>9, <1>10, <2>1 DEF WriteAt
  <2> QED
    BY <1>1, <1>3, <1>6, <1>9, <2>2 DEF AInv, WriteGoesOn
<1>13. ReadGoesOn'
  <2>1. HasRead(Count)' <=> HasRead(Count)
    BY <1>1, <1>3, <1>9 DEF HasRead
  <2>2. HasRead(Sectors)' <=> HasRead(Sectors)
    BY <1>1, <1>3 DEF HasRead
  <2>3. AtSector(Count)' <=> AtSector(Count)
    BY <1>1, <1>3, <1>9 DEF AtSector
  <2>4. ReadAt => ReadAt'
    BY <1>1, <1>3, <1>6, <1>9, <2>1, <2>3 DEF ReadAt
  <2> QED
    BY <1>1, <1>3, <1>6, <1>9, <2>2, <2>4 DEF AInv, ReadGoesOn
<1>14. ContentOK'
  BY <1>1, <1>3 DEF AInv, ContentOK
<1> QED
  BY <1>4, <1>5, <1>7, <1>8, <1>11, <1>12, <1>13, <1>14 DEF AInv

LEMMA DriveWritesKeeps == ASSUME AInv, DriveWrites PROVE AInv'
<1>1. /\ bsy /\ Op = "write" /\ Given # Garbage /\ ~bsy' /\ ~err'
      /\ drq' = (Left > 1)
      /\ disk' = [disk EXCEPT ![Lba] = Given]
  BY DEF DriveWrites, Status, Op, Lba, Left, Given
<1>2. UNCHANGED <<driver, content>>
  BY DEF DriveWrites
<1>3. /\ pc' = pc /\ i' = i /\ ready' = ready /\ dst' = dst /\ ret' = ret
      /\ reported' = reported /\ early' = early /\ content' = content /\ call' = call
      /\ Asked' = Asked /\ First' = First /\ Sectors' = Sectors /\ Src' = Src
  BY <1>2, DriverStays
<1> USE Constants
<1>4. TypeOK /\ CallOK /\ Left > 0 /\ Lba + Left <= SECTORS
  BY <1>1 DEF AInv, DriveOK
<1>5. /\ Left \in Nat /\ Lba \in Nat /\ First \in Nat /\ Sectors \in Nat /\ i \in Nat
      /\ Src \in Seq(Data)
  BY <1>4, Fields
<1>6. Asked = "write" /\ InLoop /\ Handed /\ AtSector(i) /\ Given = Src[i + 1] /\ i < Sectors
  BY <1>1 DEF AInv, AtWrite, Places
<1>7. Left = Sectors - i /\ Lba = First + i /\ First + Sectors <= SECTORS
  BY <1>6 DEF AtSector, AInv, Places
<1>8. /\ cmd' \in Commands
      /\ IF Left = 1 THEN Op' = "none" /\ Left' = 0
         ELSE Op' = "write" /\ Lba' = Lba + 1 /\ Left' = Left - 1 /\ Given' = Garbage
  <2>1. cmd \in Commands
    BY <1>4 DEF TypeOK, Commands
  <2>2. ASSUME Left = 1 PROVE cmd' = NoCmd
    BY <2>2 DEF DriveWrites, Left
  <2>3. ASSUME Left # 1
        PROVE  cmd' = [cmd EXCEPT !.lba = @ + 1, !.left = @ - 1, !.sector = Garbage]
    BY <2>3 DEF DriveWrites, Left
  <2>4. ASSUME Left = 1
        PROVE  cmd' \in Commands /\ Op' = "none" /\ Left' = 0
    BY <2>2, <2>4 DEF Commands, NoCmd, Op, Left, LBAs
  <2>5. ASSUME Left # 1
        PROVE  /\ Op' = "write" /\ Lba' = Lba + 1 /\ Left' = Left - 1 /\ Given' = Garbage
               /\ cmd' \in Commands
    <3>1. Lba + 1 \in LBAs /\ Left - 1 \in 0 .. ReadMax + WriteMax
      BY <1>4, <1>5, <2>1, <2>5 DEF LBAs, Commands, Left
    <3> QED
      BY <1>1, <2>1, <2>3, <2>5, <3>1 DEF Commands, Op, Lba, Left, Given
  <2> QED
    BY <2>4, <2>5
<1>9. /\ disk' \in [LBAs -> Data] /\ disk'[Lba] = Given
      /\ \A l \in LBAs : l # Lba => disk'[l] = disk[l]
  <2>1. disk \in [LBAs -> Data] /\ Lba \in LBAs
    BY <1>4, <1>5 DEF TypeOK, LBAs
  <2>2. Given \in Data
    BY <1>6, OwnSector
  <2> QED
    BY <1>1, <2>1, <2>2
<1>10. TypeOK'
  <2>1. bsy' = FALSE /\ drq' \in BOOLEAN /\ err' = FALSE
    BY DEF DriveWrites, Status
  <2> QED
    BY <1>3, <1>4, <1>8, <1>9, <2>1 DEF TypeOK, Commands
<1>11. CallOK'
  BY <1>3 DEF AInv, CallOK
<1>12. DriveOK'
  BY <1>1, <1>4, <1>5, <1>8 DEF DriveOK
<1>13. Places'
  BY <1>1, <1>3, <1>6 DEF AInv, Places, InLoop, Resetting, Handed
<1>14. InLoop' /\ Handed'
  BY <1>3, <1>6 DEF InLoop, Handed
<1>15. AtWrite'
  <2>1. CASE Left = 1
    BY <1>8, <2>1 DEF AtWrite
  <2>2. CASE Left # 1
    <3>1. drq'
      <4>1. Left > 1
        BY <1>4, <1>5, <2>2
      <4> QED
        BY <1>1, <4>1, Zenon
    <3>2. AtSector(i + 1)'
      BY <1>3, <1>5, <1>7, <1>8, <2>2 DEF AtSector
    <3> QED
      BY <1>1, <1>3, <1>6, <1>8, <1>14, <2>2, <3>1, <3>2 DEF AtWrite
  <2> QED
    BY <2>1, <2>2
<1>16. WriteGoesOn'
  <2>1. SUFFICES ASSUME ~early PROVE WriteAt'
    BY <1>3 DEF WriteGoesOn
  <2>2. Written(i)
    <3>1. WriteAt
      BY <1>1, <1>6, <2>1 DEF AInv, WriteGoesOn, DriveOK, Quiet
    <3> QED
      BY <1>1, <1>6, <3>1 DEF WriteAt
  <2>3. Written(i + 1)'
    <3>1. SUFFICES ASSUME NEW k \in 0 .. i PROVE disk'[First + k] = Src[k + 1]
      BY <1>3, <1>5 DEF Written
    <3>2. CASE k = i
      BY <1>6, <1>7, <1>9, <3>2
    <3>3. CASE k # i
      <4>1. k \in 0 .. i - 1 /\ First + k \in LBAs /\ First + k # Lba
        BY <1>5, <1>6, <1>7, <3>3 DEF LBAs
      <4> QED
        BY <1>9, <2>2, <4>1 DEF Written
    <3> QED
      BY <3>2, <3>3
  <2>4. Op' = IF i + 1 < Sectors THEN "write" ELSE "none"
    BY <1>5, <1>6, <1>7, <1>8
  <2> QED
    BY <1>1, <1>3, <1>14, <2>3, <2>4 DEF WriteAt
<1>17. ReadGoesOn'
  BY <1>3, <1>6 DEF ReadGoesOn
<1>18. ContentOK'
  <2>1. disk'[Lba] \in content[Lba]
    <3>1. i \in 0 .. Sectors - 1 /\ pc # "idle"
      BY <1>5, <1>6 DEF Handed
    <3> QED
      BY <1>6, <1>7, <1>9, <3>1 DEF AInv, ContentOK
  <2> QED
    BY <1>3, <1>9, <2>1 DEF AInv, ContentOK
<1> QED
  BY <1>10, <1>11, <1>12, <1>13, <1>15, <1>16, <1>17, <1>18 DEF AInv

LEMMA DriveFailsKeeps == ASSUME AInv, DriveFails PROVE AInv'
<1>1. /\ bsy /\ ~bsy' /\ err' /\ disk' = disk /\ Op' = "none" /\ cmd' = NoCmd
      /\ bsy' \in BOOLEAN /\ drq' \in BOOLEAN /\ err' \in BOOLEAN
  BY DEF DriveFails, Status, Op, NoCmd
<1>2. UNCHANGED <<driver, content>>
  BY DEF DriveFails
<1>3. /\ pc' = pc /\ i' = i /\ ready' = ready /\ dst' = dst /\ ret' = ret
      /\ reported' = reported /\ early' = early /\ content' = content /\ call' = call
      /\ Asked' = Asked /\ First' = First /\ Sectors' = Sectors /\ Src' = Src
  BY <1>2, DriverStays
<1>4. TypeOK'
  <2>1. cmd' \in Commands
    BY <1>1, Constants DEF Commands, NoCmd, LBAs
  <2> QED
    BY <1>1, <1>3, <2>1 DEF AInv, TypeOK, Commands
<1>5. CallOK'
  BY <1>3 DEF AInv, CallOK
<1>6. Quiet' /\ DriveOK'
  BY <1>1 DEF Quiet, DriveOK
<1>7. Places'
  BY <1>1, <1>3, <1>6 DEF AInv, Places, InLoop, Resetting
<1>8. AtWrite' /\ WriteGoesOn'
  BY <1>1 DEF AtWrite, WriteGoesOn
<1>9. ReadGoesOn'
  <2>1. ~(Asked = "read" /\ pc = "transfer" /\ i = 0)
    BY <1>1 DEF AInv, TypeOK, ReadGoesOn
  <2>2. HasRead(Sectors)' <=> HasRead(Sectors)
    BY <1>1, <1>3 DEF HasRead
  <2>3. InLoop' = InLoop /\ Count' = Count
    BY <1>3 DEF InLoop, Count
  <2> QED
    BY <1>1, <1>3, <2>1, <2>2, <2>3 DEF AInv, ReadGoesOn
<1>10. ContentOK'
  BY <1>1, <1>3 DEF AInv, ContentOK
<1> QED
  BY <1>4, <1>5, <1>6, <1>7, <1>8, <1>9, <1>10 DEF AInv

-----------------------------------------------------------------------------
(* The driver.                                                             *)

LEMMA DriveStays ==
    ASSUME UNCHANGED drive
    PROVE  /\ bsy' = bsy /\ drq' = drq /\ err' = err /\ cmd' = cmd /\ disk' = disk
           /\ Op' = Op /\ Lba' = Lba /\ Left' = Left /\ Given' = Given
BY DEF drive, Op, Lba, Left, Given

LEMMA CallStays ==
    ASSUME call' = call
    PROVE  Asked' = Asked /\ First' = First /\ Sectors' = Sectors /\ Src' = Src
BY DEF Asked, First, Sectors, Src

LEMMA AtaReadKeeps ==
    ASSUME AInv, NEW lba \in LBAs, NEW sectors \in 0 .. ReadMax, ataread(lba, sectors)
    PROVE  AInv'
<1>1. /\ pc' = "flush" /\ i' = 0 /\ ready' = FALSE /\ dst' = <<>> /\ ret' = ret
      /\ reported' = FALSE /\ early' = FALSE /\ content' = content /\ disk' = disk
      /\ bsy' = TRUE /\ drq' = FALSE /\ err' = FALSE /\ cmd' = NoCmd
      /\ call' = [op |-> "read", lba |-> lba, sectors |-> sectors, src |-> <<>>]
  BY DEF ataread, Called, Status
<1>2. Op' = "none" /\ Asked' = "read" /\ Sectors' = sectors
  BY <1>1 DEF Op, NoCmd, Asked, Sectors
<1> USE Constants
<1>3. TypeOK'
  <2>1. cmd' \in Commands
    BY <1>1 DEF Commands, NoCmd, LBAs
  <2>2. i' \in 0 .. call'.sectors /\ dst' \in Seq(Data \cup {Garbage}) /\ Len(dst') <= call'.sectors
    BY <1>1
  <2> QED
    BY <1>1, <2>1, <2>2 DEF AInv, TypeOK, Commands
<1>4. CallOK'
  BY <1>1, <1>2 DEF CallOK
<1>5. DriveOK' /\ AtWrite' /\ WriteGoesOn'
  BY <1>1, <1>2 DEF DriveOK, AtWrite, WriteGoesOn
<1>6. ~InLoop' /\ Resetting'
  BY <1>1, <1>2 DEF InLoop, Resetting
<1>7. Places' /\ ReadGoesOn'
  BY <1>1, <1>2, <1>6 DEF Places, ReadGoesOn
<1>8. ContentOK'
  BY <1>1, <1>2 DEF AInv, ContentOK
<1> QED
  BY <1>3, <1>4, <1>5, <1>7, <1>8 DEF AInv

LEMMA AtaWriteKeeps ==
    ASSUME AInv, NEW lba \in LBAs, NEW n \in 0 .. WriteMax, NEW src \in [1 .. n -> Data],
           atawrite(lba, src)
    PROVE  AInv'
<1> USE Constants
<1>1. n \in Nat /\ src \in Seq(Data) /\ Len(src) = n /\ DOMAIN src = 1 .. n
  <2>1. n \in Nat
    OBVIOUS
  <2> QED
    BY <2>1
<1>2. /\ pc = "idle" /\ pc' = "bounds" /\ i' = 0 /\ ready' = FALSE /\ dst' = <<>> /\ ret' = ret
      /\ reported' = FALSE /\ early' = early
      /\ UNCHANGED drive
      /\ call' = [op |-> "write", lba |-> lba, sectors |-> n, src |-> src]
      /\ content' = [l \in LBAs |->
            IF l - lba + 1 \in DOMAIN src /\ ~ Beyond(lba, Len(src))
            THEN content[l] \cup {src[l - lba + 1]} ELSE content[l]]
  BY <1>1 DEF atawrite, Called
<1>3. Asked' = "write" /\ First' = lba /\ Sectors' = n /\ Src' = src
  BY <1>2 DEF Asked, First, Sectors, Src
<1>4. /\ bsy' = bsy /\ drq' = drq /\ err' = err /\ cmd' = cmd /\ disk' = disk
      /\ Op' = Op /\ Lba' = Lba /\ Left' = Left /\ Given' = Given
  BY <1>2, DriveStays
<1>5. TypeOK /\ content \in [LBAs -> SUBSET Data]
  BY DEF AInv, TypeOK
<1>6. /\ content' \in [LBAs -> SUBSET Data]
      /\ \A l \in LBAs : content[l] \subseteq content'[l]
      /\ lba + n <= SECTORS => \A k \in 0 .. n - 1 : src[k + 1] \in content'[lba + k]
  <2>1. \A l \in LBAs : l - lba + 1 \in 1 .. n => src[l - lba + 1] \in Data
    BY <1>1
  <2>2. /\ content' \in [LBAs -> SUBSET Data]
        /\ \A l \in LBAs : content[l] \subseteq content'[l]
    BY <1>1, <1>2, <1>5, <2>1
  <2>3. ASSUME lba + n <= SECTORS, NEW k \in 0 .. n - 1
        PROVE  src[k + 1] \in content'[lba + k]
    <3>1. lba + k \in LBAs /\ (lba + k) - lba + 1 = k + 1 /\ k + 1 \in 1 .. n
      BY <1>1, <2>3 DEF LBAs
    <3>2. ~Beyond(lba, Len(src))
      BY <1>1, <2>3 DEF Beyond, LBAs
    <3> QED
      BY <1>1, <1>2, <3>1, <3>2
  <2> QED
    BY <2>2, <2>3
<1>7. TypeOK'
  <2>1. i' \in 0 .. call'.sectors /\ dst' \in Seq(Data \cup {Garbage}) /\ Len(dst') <= call'.sectors
    BY <1>1, <1>2
  <2> QED
    BY <1>2, <1>4, <1>5, <1>6, <2>1 DEF TypeOK
<1>8. CallOK'
  BY <1>1, <1>2, <1>3 DEF CallOK
<1>9. DriveOK'
  BY <1>4 DEF AInv, DriveOK, Quiet
<1>10. Op # "write" /\ (~early => Quiet)
  BY <1>2 DEF AInv, AtWrite, InLoop, Places
<1>11. ~InLoop' /\ ~Resetting' /\ (Quiet' <=> Quiet)
  BY <1>2, <1>3, <1>4 DEF InLoop, Resetting, Quiet
<1>12. Places'
  BY <1>2, <1>3, <1>10, <1>11 DEF Places
<1>13. AtWrite' /\ WriteGoesOn' /\ ReadGoesOn'
  BY <1>3, <1>4, <1>10, <1>11 DEF AtWrite, WriteGoesOn, ReadGoesOn
<1>14. ContentOK'
  BY <1>3, <1>4, <1>6 DEF AInv, ContentOK
<1> QED
  BY <1>7, <1>8, <1>9, <1>12, <1>13, <1>14 DEF AInv

(* What a call leaves as the sectors' possible contents is of Data and has *)
(* the disk's: a write that returns true without an error has written all. *)
LEMMA ReturnKeeps ==
    ASSUME AInv, NEW result \in BOOLEAN, Return(result), disk' = disk,
           Asked = "write" /\ result /\ ~reported' /\ ~early => Written(Sectors)
    PROVE  /\ pc' = "idle" /\ ret' = result /\ call' = call
           /\ content' \in [LBAs -> SUBSET Data]
           /\ ContentOK'
<1>1. pc' = "idle" /\ ret' = result /\ call' = call
  BY DEF Return
<1>2. TypeOK /\ CallOK /\ content \in [LBAs -> SUBSET Data]
  BY DEF AInv, TypeOK
<1>3. First \in Nat /\ Sectors \in Nat /\ Src \in Seq(Data)
  BY <1>2, Fields
<1>4. \A l \in LBAs : disk[l] \in content[l]
  BY DEF AInv, ContentOK
<1>5. content' \in [LBAs -> SUBSET Data] /\ \A l \in LBAs : disk[l] \in content'[l]
  <2>1. CASE Asked = "write" /\ result /\ ~reported' /\ ~early
    <3>1. content' = [l \in LBAs |-> IF l \in First .. First + Sectors - 1
                                     THEN {Src[l - First + 1]} ELSE content[l]]
      BY <2>1 DEF Return, Asked, First, Sectors, Src
    <3>2. ASSUME NEW l \in LBAs, l \in First .. First + Sectors - 1
          PROVE  Src[l - First + 1] \in Data /\ disk[l] = Src[l - First + 1]
      <4>1. l - First \in 0 .. Sectors - 1 /\ First + (l - First) = l
        BY <1>3, <3>2
      <4>2. l - First + 1 \in 1 .. Len(Src)
        BY <1>2, <1>3, <2>1, <4>1 DEF CallOK
      <4>3. Src[l - First + 1] \in Data
        BY <1>3, <4>2
      <4>4. disk[First + (l - First)] = Src[l - First + 1]
        BY <2>1, <4>1 DEF Written
      <4> QED
        BY <4>1, <4>3, <4>4
    <3> QED
      BY <1>2, <1>4, <3>1, <3>2
  <2>2. CASE ~(Asked = "write" /\ result /\ ~reported' /\ ~early)
    <3>1. content' = content
      BY <2>2 DEF Return, Asked
    <3> QED
      BY <1>2, <1>4, <3>1
  <2> QED
    BY <2>1, <2>2
<1>6. ContentOK'
  BY <1>1, <1>5 DEF ContentOK
<1> QED
  BY <1>1, <1>5, <1>6

(* A call that has returned keeps the invariant if the drive has done with *)
(* it, or a sector was taken too early.                                    *)
LEMMA IdleKeeps ==
    ASSUME AInv, UNCHANGED drive, pc' = "idle", call' = call, ContentOK',
           content' \in [LBAs -> SUBSET Data], UNCHANGED <<ready, dst, early>>,
           ret' \in BOOLEAN, reported' \in BOOLEAN, i' \in 0 .. Sectors,
           Op # "write", ~early => Quiet,
           Asked = "read" /\ ret' /\ ~early => HasRead(Sectors)
    PROVE  AInv'
<1>1. /\ bsy' = bsy /\ drq' = drq /\ err' = err /\ cmd' = cmd /\ disk' = disk
      /\ Op' = Op /\ Lba' = Lba /\ Left' = Left /\ Given' = Given
  BY DriveStays
<1>2. Asked' = Asked /\ First' = First /\ Sectors' = Sectors /\ Src' = Src
  BY CallStays
<1>3. TypeOK'
  BY <1>1, <1>2 DEF AInv, TypeOK, Sectors
<1>4. CallOK'
  BY <1>2 DEF AInv, CallOK
<1>5. Quiet' <=> Quiet
  BY <1>1 DEF Quiet
<1>6. DriveOK'
  BY <1>1, <1>5 DEF AInv, DriveOK
<1>7. ~InLoop' /\ ~Resetting'
  BY DEF InLoop, Resetting
<1>8. Places' /\ AtWrite' /\ WriteGoesOn'
  BY <1>1, <1>2, <1>5, <1>7 DEF Places, AtWrite, WriteGoesOn
<1>9. ReadGoesOn'
  <2>1. HasRead(Sectors)' <=> HasRead(Sectors)
    BY <1>1, <1>2 DEF HasRead
  <2> QED
    BY <1>2, <1>7, <2>1 DEF AInv, ReadGoesOn
<1> QED
  BY <1>3, <1>4, <1>6, <1>8, <1>9 DEF AInv

LEMMA BoundsKeeps == ASSUME AInv, Bounds PROVE AInv'
<1>1. pc = "bounds" /\ UNCHANGED <<drive, i, ready, dst, reported, early>> /\ disk' = disk
  BY DEF Bounds, drive
<1>2. TypeOK /\ CallOK
  BY DEF AInv
<1>3. Sectors \in Nat /\ First \in Nat /\ i \in Nat /\ i <= Sectors
  BY <1>2, Fields
<1>4. \E result \in BOOLEAN : Return(result) /\ (result => Sectors = 0)
  BY DEF Bounds, Sectors
<1>5. PICK result \in BOOLEAN : Return(result) /\ (result => Sectors = 0)
  BY <1>4
<1>6. result => Written(Sectors)
  BY <1>5 DEF Written
<1>7. /\ pc' = "idle" /\ ret' = result /\ call' = call
      /\ content' \in [LBAs -> SUBSET Data] /\ ContentOK'
  BY <1>1, <1>5, <1>6, ReturnKeeps
<1>8. i = 0 /\ dst = <<>> /\ Op # "write" /\ (~early => Quiet)
  BY <1>1 DEF AInv, Places, AtWrite, InLoop
<1>9. result => HasRead(Sectors)
  BY <1>5, <1>8 DEF HasRead
<1>10. reported' \in BOOLEAN /\ i' \in 0 .. Sectors
  BY <1>1, <1>2, <1>3 DEF TypeOK
<1> QED
  BY <1>1, <1>5, <1>7, <1>8, <1>9, <1>10, IdleKeeps

LEMMA CommandKeeps == ASSUME AInv, Command PROVE AInv'
<1>1. /\ pc = "bounds" /\ pc' = "wait" /\ ~ Beyond(call.lba, call.sectors) /\ call.sectors > 0
      /\ disk' = disk /\ call' = call /\ i' = i /\ ready' = ready /\ dst' = dst /\ ret' = ret
      /\ reported' = reported /\ early' = early /\ content' = content
  BY DEF Command
<1>2. Asked' = Asked /\ First' = First /\ Sectors' = Sectors /\ Src' = Src
  BY <1>1, CallStays
<1>3. TypeOK /\ CallOK
  BY DEF AInv
<1> USE Constants
<1>4. /\ First \in Nat /\ First < SECTORS /\ Sectors \in Nat /\ i \in Nat
      /\ Sectors <= ReadMax + WriteMax
  BY <1>3, Fields
<1>5. Sectors > 0 /\ First + Sectors <= SECTORS
  BY <1>1, <1>4 DEF Beyond, First, Sectors
<1>6. /\ i = 0 /\ ~ready /\ dst = <<>> /\ Asked \in {"read", "write"} /\ Op # "write"
      /\ (Asked = "read" => ~early) /\ (~early => Quiet)
  BY <1>1 DEF AInv, Places, AtWrite, InLoop
<1>7. InLoop' /\ ~Resetting' /\ ~Handed' /\ Count' = i
  BY <1>1 DEF InLoop, Resetting, Handed, Count
<1>8. CallOK'
  BY <1>1, <1>2, <1>3 DEF CallOK
<1>9. Places'
  BY <1>1, <1>2, <1>4, <1>5, <1>6, <1>7 DEF Places
<1>10. ContentOK'
  BY <1>1, <1>2 DEF AInv, ContentOK
<1>11. CASE bsy
  <2>1. UNCHANGED <<bsy, drq, err, cmd>> /\ Op' = Op /\ Lba' = Lba /\ Left' = Left
    BY <1>1, <1>11 DEF Command, Op, Lba, Left
  <2>2. early /\ Asked = "write"
    BY <1>6, <1>11 DEF Quiet
  <2>3. TypeOK'
    BY <1>1, <1>3, <2>1 DEF TypeOK
  <2>4. DriveOK'
    BY <2>1 DEF AInv, DriveOK, Quiet
  <2>5. AtWrite' /\ WriteGoesOn' /\ ReadGoesOn'
    BY <1>1, <1>2, <1>6, <2>1, <2>2 DEF AtWrite, WriteGoesOn, ReadGoesOn
  <2> QED
    BY <1>8, <1>9, <1>10, <2>3, <2>4, <2>5 DEF AInv
<1>12. CASE ~bsy
  <2>1. /\ bsy' = TRUE /\ drq' = FALSE /\ err' = FALSE
        /\ cmd' = [op |-> Asked, lba |-> First, left |-> Sectors, sector |-> Garbage]
    BY <1>1, <1>12 DEF Command, Status, Asked, First, Sectors
  <2>2. Op' = Asked /\ Lba' = First /\ Left' = Sectors /\ Given' = Garbage /\ cmd' \in Commands
    BY <1>4, <1>6, <2>1 DEF Op, Lba, Left, Given, Commands, LBAs
  <2>3. TypeOK'
    BY <1>1, <1>3, <2>1, <2>2 DEF TypeOK, Commands
  <2>4. DriveOK'
    BY <1>5, <2>1, <2>2 DEF DriveOK
  <2>5. AtSector(i)'
    BY <1>1, <1>2, <1>4, <1>6, <2>2 DEF AtSector
  <2>6. AtWrite'
    BY <1>1, <1>2, <1>6, <1>7, <2>2, <2>5 DEF AtWrite
  <2>7. Written(i)' /\ HasRead(i)'
    BY <1>1, <1>6 DEF Written, HasRead
  <2>8. WriteGoesOn'
    BY <1>1, <1>2, <1>7, <2>2, <2>7 DEF WriteGoesOn, WriteAt
  <2>9. ReadGoesOn'
    <3>1. Asked = "read" => ReadAt'
      BY <1>1, <1>2, <1>4, <1>5, <1>6, <1>7, <2>2, <2>5, <2>7 DEF ReadAt
    <3> QED
      BY <1>1, <1>2, <1>6, <1>7, <3>1 DEF ReadGoesOn
  <2> QED
    BY <1>8, <1>9, <1>10, <2>3, <2>4, <2>6, <2>8, <2>9 DEF AInv
<1> QED
  BY <1>11, <1>12

LEMMA WaitKeeps == ASSUME AInv, Wait PROVE AInv'
<1>1. /\ pc = "wait" /\ pc' = "transfer" /\ (ready \/ drq) /\ ready' = TRUE
      /\ UNCHANGED drive /\ call' = call /\ i' = i /\ dst' = dst /\ ret' = ret
      /\ reported' = reported /\ early' = early /\ content' = content
  BY DEF Wait, Ready
<1>2. Asked' = Asked /\ First' = First /\ Sectors' = Sectors /\ Src' = Src
  BY <1>1, CallStays
<1>3. /\ bsy' = bsy /\ drq' = drq /\ err' = err /\ cmd' = cmd /\ disk' = disk
      /\ Op' = Op /\ Lba' = Lba /\ Left' = Left /\ Given' = Given
  BY <1>1, DriveStays
<1>4. TypeOK'
  BY <1>1, <1>3 DEF AInv, TypeOK
<1>5. CallOK'
  BY <1>1, <1>2 DEF AInv, CallOK
<1>6. Quiet' <=> Quiet
  BY <1>3 DEF Quiet
<1>7. DriveOK'
  BY <1>3, <1>6 DEF AInv, DriveOK
<1>8. /\ InLoop /\ InLoop' /\ ~Resetting' /\ ~Handed /\ ~Handed'
      /\ Count = i /\ Count' = i
  BY <1>1 DEF InLoop, Resetting, Handed, Count
<1>9. Places'
  BY <1>1, <1>2, <1>8 DEF AInv, Places
<1>10. AtWrite'
  <2>1. AtSector(i)' <=> AtSector(i)
    BY <1>1, <1>2, <1>3 DEF AtSector
  <2> QED
    BY <1>1, <1>2, <1>3, <1>8, <2>1 DEF AInv, AtWrite
<1>11. WriteGoesOn'
  <2>1. Written(i)' <=> Written(i)
    BY <1>1, <1>2, <1>3 DEF Written
  <2> QED
    BY <1>1, <1>2, <1>3, <1>8, <2>1 DEF AInv, WriteGoesOn, WriteAt
<1>12. ReadGoesOn'
  <2>1. HasRead(Count)' <=> HasRead(Count)
    BY <1>1, <1>2, <1>3, <1>8 DEF HasRead
  <2>2. AtSector(Count)' <=> AtSector(Count)
    BY <1>1, <1>2, <1>3, <1>8 DEF AtSector
  <2>3. ReadAt' <=> ReadAt
    BY <1>1, <1>2, <1>3, <1>6, <1>8, <2>1, <2>2 DEF ReadAt
  <2> QED
    BY <1>1, <1>2, <1>3, <1>8, <2>3 DEF AInv, ReadGoesOn
<1>13. ContentOK'
  BY <1>1, <1>2, <1>3 DEF AInv, ContentOK
<1> QED
  BY <1>4, <1>5, <1>7, <1>9, <1>10, <1>11, <1>12, <1>13 DEF AInv

LEMMA WriteSectorKeeps == ASSUME AInv, WriteSector PROVE AInv'
<1>1. /\ pc = "transfer" /\ Asked = "write" /\ pc' = "check"
      /\ disk' = disk /\ call' = call /\ i' = i /\ ready' = ready /\ dst' = dst /\ ret' = ret
      /\ reported' = reported /\ early' = early /\ content' = content
  BY DEF WriteSector, Asked
<1>2. Asked' = Asked /\ First' = First /\ Sectors' = Sectors /\ Src' = Src
  BY <1>1, CallStays
<1>3. TypeOK /\ CallOK
  BY DEF AInv
<1>4. /\ InLoop /\ InLoop' /\ ~Resetting' /\ ~Handed /\ Handed'
  BY <1>1 DEF InLoop, Resetting, Handed
<1>5. Src[i + 1] \in Data
  BY <1>1, <1>4, OwnSector
<1>6. Op' = Op /\ Lba' = Lba /\ Left' = Left /\ cmd' \in Commands
  <2>1. cmd \in Commands
    BY <1>3 DEF TypeOK, Commands
  <2>2. cmd' = cmd \/ cmd' = [cmd EXCEPT !.sector = Src[i + 1]]
    BY DEF WriteSector, Src
  <2> QED
    BY <1>5, <2>1, <2>2 DEF Commands, Op, Lba, Left
<1>7. IF drq /\ Op = "write"
      THEN bsy' = TRUE /\ drq' = FALSE /\ err' = FALSE /\ Given' = Src[i + 1]
      ELSE bsy' = bsy /\ drq' = drq /\ err' = err
  <2>1. CASE drq /\ Op = "write"
    <3>1. /\ bsy' = TRUE /\ drq' = FALSE /\ err' = FALSE
          /\ cmd' = [cmd EXCEPT !.sector = Src[i + 1]]
      BY <2>1 DEF WriteSector, Status, Op, Src
    <3>2. cmd \in Commands
      BY <1>3 DEF TypeOK, Commands
    <3> QED
      BY <2>1, <3>1, <3>2 DEF Commands, Given
  <2>2. CASE ~(drq /\ Op = "write")
    BY <2>2 DEF WriteSector, Op
  <2> QED
    BY <2>1, <2>2
<1>8. TypeOK'
  BY <1>1, <1>3, <1>6, <1>7 DEF TypeOK, Commands
<1>9. CallOK'
  BY <1>1, <1>2, <1>3 DEF CallOK
<1>10. DriveOK'
  BY <1>6, <1>7 DEF AInv, DriveOK, Quiet
<1>11. Places'
  BY <1>1, <1>2, <1>4 DEF AInv, Places
<1>12. AtWrite'
  <2>1. AtSector(i)' <=> AtSector(i)
    BY <1>1, <1>2, <1>6 DEF AtSector
  <2> QED
    BY <1>1, <1>2, <1>4, <1>6, <1>7, <2>1 DEF AInv, AtWrite
<1>13. WriteGoesOn'
  <2>1. Written(i)' <=> Written(i)
    BY <1>1, <1>2 DEF Written
  <2>2. ASSUME ~early, ~err' PROVE WriteAt'
    <3>1. ~err
      BY <1>7, <2>2 DEF AInv, DriveOK, Quiet
    <3>2. Op = "write" /\ Written(i)
      BY <1>1, <1>4, <2>2, <3>1 DEF AInv, WriteGoesOn, WriteAt
    <3>3. drq
      BY <1>1, <1>4, <3>2 DEF AInv, AtWrite
    <3> QED
      BY <1>1, <1>4, <1>6, <1>7, <2>1, <3>2, <3>3 DEF WriteAt
  <2> QED
    BY <1>1, <2>2 DEF WriteGoesOn
<1>14. ReadGoesOn'
  BY <1>1, <1>2 DEF ReadGoesOn
<1>15. ContentOK'
  BY <1>1, <1>2 DEF AInv, ContentOK
<1> QED
  BY <1>8, <1>9, <1>10, <1>11, <1>12, <1>13, <1>14, <1>15 DEF AInv

LEMMA ReadSectorKeeps == ASSUME AInv, ReadSector PROVE AInv'
<1>1. /\ pc = "transfer" /\ Asked = "read" /\ pc' = "check" /\ early' = (early \/ ~drq)
      /\ disk' = disk /\ call' = call /\ i' = i /\ ready' = ready /\ ret' = ret
      /\ reported' = reported /\ content' = content
  BY DEF ReadSector, Asked
<1>2. Asked' = Asked /\ First' = First /\ Sectors' = Sectors /\ Src' = Src
  BY <1>1, CallStays
<1>3. TypeOK /\ CallOK
  BY DEF AInv
<1>4. /\ InLoop /\ InLoop' /\ ~Resetting' /\ Count = i /\ Count' = i + 1
  BY <1>1 DEF InLoop, Resetting, Count
<1>5. /\ i \in Nat /\ Sectors \in Nat /\ First \in Nat /\ Left \in Nat /\ Lba \in Nat
      /\ dst \in Seq(Data \cup {Garbage}) /\ Len(dst) \in Nat
  BY <1>3, Fields
<1>6. i < Sectors /\ Len(dst) = i /\ (i = 0 => drq) /\ (early => Len(dst) > 1) /\ Op # "write"
  BY <1>1, <1>4 DEF AInv, Places, ReadGoesOn, AtWrite
<1>7. Lba \in LBAs /\ (drq /\ Op = "read" => Left > 0 /\ Lba + Left <= SECTORS)
  <2>1. cmd \in Commands
    BY <1>3 DEF TypeOK, Commands
  <2> QED
    BY <2>1 DEF Commands, Lba, AInv, DriveOK
<1>8. CASE drq /\ Op = "read"
  <2>1. /\ dst' = Append(dst, disk[Lba]) /\ bsy' = (Left > 1) /\ drq' = FALSE /\ err' = FALSE
        /\ cmd' = IF Left = 1 THEN NoCmd ELSE [cmd EXCEPT !.lba = @ + 1, !.left = @ - 1]
    BY <1>8 DEF ReadSector, Status, Op, Lba, Left
  <2>2. disk[Lba] \in Data
    BY <1>3, <1>7 DEF TypeOK
  <2>3. /\ dst' \in Seq(Data \cup {Garbage}) /\ Len(dst') = i + 1 /\ dst'[i + 1] = disk[Lba]
        /\ \A k \in 1 .. i : dst'[k] = dst[k]
    BY <1>5, <1>6, <2>1, <2>2
  <2>4. /\ cmd' \in Commands
        /\ IF Left = 1 THEN Op' = "none"
           ELSE Op' = "read" /\ Lba' = Lba + 1 /\ Left' = Left - 1
    <3>1. cmd \in Commands
      BY <1>3 DEF TypeOK, Commands
    <3>2. CASE Left = 1
      BY <2>1, <3>2, Constants DEF Commands, NoCmd, Op, LBAs
    <3>3. CASE Left # 1
      <4>1. Lba + 1 \in LBAs /\ Left - 1 \in 0 .. ReadMax + WriteMax
        BY <1>5, <1>7, <1>8, <3>1, <3>3, Constants DEF LBAs, Commands, Left
      <4> QED
        BY <1>8, <2>1, <3>1, <3>3, <4>1 DEF Commands, Op, Lba, Left
    <3> QED
      BY <3>2, <3>3
  <2>5. bsy' \in BOOLEAN /\ (Left = 1 => ~bsy')
    <3>1. Left = 1 => ~(Left > 1)
      OBVIOUS
    <3>2. Left = 1 => ~bsy'
      BY <2>1, <3>1, Zenon
    <3>3. bsy' \in BOOLEAN
      BY <2>1
    <3> QED
      BY <3>2, <3>3
  <2>6. early' = early
    <3>1. early \in BOOLEAN
      BY <1>3 DEF TypeOK
    <3> QED
      BY <1>1, <1>8, <3>1
  <2>7. TypeOK'
    <3>1. i' \in 0 .. call'.sectors /\ Len(dst') <= call'.sectors
      BY <1>1, <1>5, <1>6, <2>3 DEF Sectors
    <3>2. {bsy', drq', err', ready', ret', reported', early'} \subseteq BOOLEAN /\ ~(bsy' /\ drq')
      BY <1>1, <1>3, <2>1, <2>5, <2>6 DEF TypeOK
    <3>3. disk' \in [LBAs -> Data] /\ content' \in [LBAs -> SUBSET Data]
      BY <1>1, <1>3 DEF TypeOK
    <3>4. pc' \in {"idle", "flush", "bounds", "wait", "transfer", "check"}
      BY <1>1
    <3>5. cmd' \in Commands
      BY <2>4
    <3>6. dst' \in Seq(Data \cup {Garbage})
      BY <2>3
    <3> QED
      BY <3>1, <3>2, <3>3, <3>4, <3>5, <3>6 DEF TypeOK, Commands
  <2>8. DriveOK'
    <3>1. Op' # "none" => Lba' = Lba + 1 /\ Left' = Left - 1 /\ Left # 1
      BY <2>4
    <3>2. Left > 0 /\ Lba + Left <= SECTORS /\ SECTORS \in Nat
      BY <1>7, <1>8, Constants
    <3>3. Op' # "none" => Left' > 0 /\ Lba' + Left' <= SECTORS
      BY <1>5, <3>1, <3>2
    <3> QED
      BY <2>1, <3>3 DEF DriveOK
  <2>9. AtWrite' /\ WriteGoesOn'
    BY <1>1, <1>2, <2>4 DEF AtWrite, WriteGoesOn
  <2>10. ASSUME ~early PROVE ReadAt'
    <3>1. HasRead(i) /\ AtSector(i)
      <4>1. ~err
        BY <1>8 DEF AInv, DriveOK, Quiet
      <4> QED
        BY <1>1, <1>4, <1>6, <2>10, <4>1 DEF AInv, ReadGoesOn, ReadAt
    <3>2. Lba = First + i /\ Left = Sectors - i
      BY <3>1 DEF AtSector
    <3>3. HasRead(i + 1)'
      <4>1. ASSUME NEW k \in 1 .. i + 1 PROVE dst'[k] = disk[First + k - 1]
        <5>1. CASE k = i + 1
          <6>1. First + k - 1 = Lba
            BY <1>5, <3>2, <5>1
          <6> QED
            BY <2>3, <5>1, <6>1
        <5>2. CASE k # i + 1
          <6>1. k \in 1 .. i
            BY <1>5, <5>2
          <6> QED
            BY <2>3, <3>1, <6>1 DEF HasRead
        <5> QED
          BY <5>1, <5>2
      <4> QED
        BY <1>1, <1>2, <2>3, <4>1 DEF HasRead
    <3>4. CASE i + 1 < Sectors
      <4>1. Left # 1
        BY <1>5, <3>2, <3>4
      <4>2. Op' = "read" /\ Lba' = First + (i + 1) /\ Left' = Sectors - (i + 1)
        BY <1>5, <2>4, <3>2, <4>1
      <4>3. AtSector(i + 1)'
        BY <1>1, <1>2, <4>2 DEF AtSector
      <4> QED
        BY <1>1, <1>2, <1>4, <3>3, <3>4, <4>2, <4>3 DEF ReadAt
    <3>5. CASE ~(i + 1 < Sectors)
      <4>1. Left = 1
        BY <1>5, <1>6, <3>2, <3>5
      <4> QED
        BY <1>1, <1>2, <1>4, <2>4, <2>5, <3>3, <3>5, <4>1 DEF ReadAt, Quiet
    <3> QED
      BY <3>4, <3>5
  <2>11. ReadGoesOn'
    BY <1>1, <1>4, <1>5, <1>6, <2>3, <2>6, <2>10 DEF ReadGoesOn
  <2> QED
    BY <1>1, <1>2, <1>3, <1>4, <2>7, <2>8, <2>9, <2>11 DEF AInv, CallOK, Places, ContentOK
<1>9. CASE ~(drq /\ Op = "read")
  <2>1. /\ dst' = Append(dst, Garbage) /\ bsy' = bsy /\ drq' = FALSE /\ err' = err /\ cmd' = cmd
        /\ Op' = Op /\ Lba' = Lba /\ Left' = Left
    BY <1>9 DEF ReadSector, Status, Op, Lba, Left
  <2>2. dst' \in Seq(Data \cup {Garbage}) /\ Len(dst') = i + 1
    BY <1>5, <1>6, <2>1
  <2>3. early' \in BOOLEAN
    BY <1>1
  <2>4. TypeOK'
    <3>1. i' \in 0 .. call'.sectors /\ Len(dst') <= call'.sectors
      BY <1>1, <1>5, <1>6, <2>2 DEF Sectors
    <3> QED
      BY <1>1, <1>3, <2>1, <2>2, <2>3, <3>1 DEF TypeOK
  <2>5. DriveOK'
    BY <2>1 DEF AInv, DriveOK, Quiet
  <2>6. AtWrite' /\ WriteGoesOn'
    BY <1>1, <1>2, <1>6, <2>1 DEF AtWrite, WriteGoesOn
  <2>7. early' => Len(dst') > 1
    <3>1. early' => early \/ ~drq
      BY <1>1, Zenon
    <3> QED
      BY <1>5, <1>6, <2>2, <3>1
  <2>8. ~early' => err'
    BY <1>1, <1>4, <1>6, <1>9, <2>1 DEF AInv, ReadGoesOn, ReadAt
  <2>9. ReadGoesOn'
    BY <1>1, <1>4, <2>2, <2>7, <2>8 DEF ReadGoesOn
  <2> QED
    BY <1>1, <1>2, <1>3, <1>4, <2>4, <2>5, <2>6, <2>9 DEF AInv, CallOK, Places, ContentOK
<1> QED
  BY <1>8, <1>9

LEMMA CacheFlushKeeps == ASSUME AInv, atacacheflush PROVE AInv'
<1>1. /\ pc = "flush" /\ ~bsy /\ UNCHANGED <<drive, ready, dst, early>> /\ UNCHANGED drive
      /\ reported' = (reported \/ err) /\ ready' = ready /\ dst' = dst /\ early' = early
  BY DEF atacacheflush, Flushed
<1>2. /\ bsy' = bsy /\ drq' = drq /\ err' = err /\ cmd' = cmd /\ disk' = disk
      /\ Op' = Op /\ Lba' = Lba /\ Left' = Left /\ Given' = Given
  BY <1>1, DriveStays
<1>3. TypeOK /\ CallOK /\ reported' \in BOOLEAN
  BY <1>1 DEF AInv, TypeOK
<1>4. /\ i \in Nat /\ Sectors \in Nat /\ First \in Nat /\ Left \in Nat /\ Lba \in Nat
  BY <1>3, Fields
<1>5. Quiet' <=> Quiet
  BY <1>2 DEF Quiet
<1>6. DriveOK'
  BY <1>2, <1>5 DEF AInv, DriveOK
<1>7. CASE Asked = "read"
  <2>1. pc' = "bounds" /\ i' = i /\ call' = call /\ ret' = ret /\ content' = content
    BY <1>7 DEF atacacheflush, Asked
  <2>2. Asked' = Asked /\ First' = First /\ Sectors' = Sectors /\ Src' = Src
    BY <2>1, CallStays
  <2>3. Resetting /\ ~InLoop' /\ ~Resetting'
    BY <1>1, <1>7, <2>1 DEF Resetting, InLoop
  <2>4. i = 0 /\ ~ready /\ dst = <<>> /\ ~early /\ Op = "none"
    BY <1>1, <1>7, <2>3 DEF AInv, Places
  <2>5. TypeOK'
    BY <1>1, <1>2, <1>3, <2>1 DEF TypeOK
  <2>6. Places' /\ AtWrite' /\ WriteGoesOn'
    BY <1>1, <1>2, <1>5, <1>7, <2>1, <2>2, <2>3, <2>4 DEF Places, AtWrite, WriteGoesOn, Quiet
  <2>7. ReadGoesOn'
    BY <1>1, <2>1, <2>3, <2>4 DEF ReadGoesOn
  <2>8. CallOK'
    BY <1>3, <2>1, <2>2 DEF CallOK
  <2>9. ContentOK'
    BY <1>1, <1>2, <1>7, <2>1, <2>2 DEF AInv, ContentOK
  <2> QED
    BY <1>6, <2>5, <2>6, <2>7, <2>8, <2>9 DEF AInv
<1>8. CASE Asked = "write"
  <2>1. InLoop /\ Handed /\ i < Sectors
    BY <1>1, <1>8 DEF InLoop, Handed, AInv, Places
  <2>2. Op = "write" => drq /\ AtSector(i + 1) /\ Given = Garbage
    BY <1>1, <2>1 DEF AInv, AtWrite
  <2>3. ~early /\ ~err => Written(i + 1) /\ Op = IF i + 1 < Sectors THEN "write" ELSE "none"
    BY <1>1, <1>8, <2>1 DEF AInv, WriteGoesOn, WriteAt
  <2>4. i' = i + 1 /\ SectorDone
    BY <1>8 DEF atacacheflush, Asked, SectorDone
  <2>5. CASE i + 1 < Sectors
    <3>1. pc' = "wait" /\ call' = call /\ ret' = ret /\ content' = content
      BY <2>4, <2>5 DEF SectorDone, Sectors
    <3>2. Asked' = Asked /\ First' = First /\ Sectors' = Sectors /\ Src' = Src
      BY <3>1, CallStays
    <3>3. InLoop' /\ ~Resetting' /\ ~Handed'
      BY <3>1 DEF Resetting, InLoop, Handed
    <3>4. TypeOK'
      <4>1. i' \in 0 .. call'.sectors
        BY <1>4, <2>4, <2>5, <3>1 DEF Sectors
      <4> QED
        BY <1>1, <1>2, <1>3, <3>1, <4>1 DEF TypeOK
    <3>5. Places'
      BY <1>1, <1>8, <2>1, <2>4, <2>5, <3>1, <3>2, <3>3 DEF AInv, Places
    <3>6. AtSector(i)' <=> AtSector(i + 1)
      BY <1>2, <2>4, <3>2 DEF AtSector
    <3>7. AtWrite'
      BY <1>2, <1>8, <2>2, <3>1, <3>2, <3>3, <3>6 DEF AtWrite
    <3>8. Written(i)' <=> Written(i + 1)
      BY <1>2, <2>4, <3>2 DEF Written
    <3>9. WriteGoesOn'
      BY <1>1, <1>2, <2>3, <2>5, <3>3, <3>8 DEF WriteGoesOn, WriteAt
    <3>10. CallOK' /\ ReadGoesOn'
      BY <1>3, <1>8, <3>1, <3>2 DEF CallOK, ReadGoesOn
    <3>11. ContentOK'
      BY <1>1, <1>2, <3>1, <3>2 DEF AInv, ContentOK
    <3> QED
      BY <1>6, <3>4, <3>5, <3>7, <3>9, <3>10, <3>11 DEF AInv
  <2>6. CASE ~(i + 1 < Sectors)
    <3>1. Return(TRUE) /\ i + 1 = Sectors
      <4>1. i + 1 = Sectors
        BY <1>4, <2>1, <2>6
      <4>2. Return(TRUE)
        BY <2>4, <2>6 DEF SectorDone, Sectors
      <4> QED
        BY <4>1, <4>2
    <3>2. Op # "write"
      BY <1>4, <2>2, <3>1 DEF AtSector, AInv, DriveOK
    <3>3. ~early => Quiet
      BY <1>1, <2>3, <2>6 DEF AInv, DriveOK, Quiet
    <3>4. ~reported' /\ ~early => Written(Sectors)
      <4>1. ~reported' => ~err
        BY <1>1, Zenon
      <4> QED
        BY <2>3, <3>1, <4>1
    <3>5. /\ pc' = "idle" /\ call' = call /\ ret' = TRUE
          /\ content' \in [LBAs -> SUBSET Data] /\ ContentOK'
      BY <1>2, <3>1, <3>4, ReturnKeeps
    <3>6. i' \in 0 .. Sectors
      BY <1>4, <2>4, <3>1
    <3> QED
      BY <1>1, <1>3, <1>8, <3>2, <3>3, <3>5, <3>6, IdleKeeps
  <2> QED
    BY <2>5, <2>6
<1>9. Asked \in {"read", "write"}
  BY <1>1 DEF AInv, Places
<1> QED
  BY <1>7, <1>8, <1>9

LEMMA CheckFailsKeeps == ASSUME AInv, CheckFails PROVE AInv'
<1>1. /\ err /\ reported' = TRUE /\ Return(FALSE)
      /\ UNCHANGED <<drive, i, ready, dst, early>> /\ disk' = disk
  BY DEF CheckFails, atacheckerror, drive
<1>2. /\ pc' = "idle" /\ call' = call /\ ret' = FALSE
      /\ content' \in [LBAs -> SUBSET Data] /\ ContentOK'
  BY <1>1, ReturnKeeps
<1>3. i' \in 0 .. Sectors
  BY <1>1 DEF AInv, TypeOK, Sectors
<1>4. Quiet /\ Op # "write"
  BY <1>1 DEF AInv, DriveOK, Quiet
<1> QED
  BY <1>1, <1>2, <1>3, <1>4, IdleKeeps

LEMMA CheckPassesKeeps == ASSUME AInv, CheckPasses PROVE AInv'
<1>1. /\ pc = "check" /\ ~(err /\ ~bsy) /\ UNCHANGED <<drive, ready, dst, reported, early>>
      /\ UNCHANGED drive /\ ready' = ready /\ dst' = dst /\ reported' = reported /\ early' = early
  BY DEF CheckPasses, atacheckerror
<1>2. /\ bsy' = bsy /\ drq' = drq /\ err' = err /\ cmd' = cmd /\ disk' = disk
      /\ Op' = Op /\ Lba' = Lba /\ Left' = Left /\ Given' = Given
  BY <1>1, DriveStays
<1>3. TypeOK /\ CallOK
  BY DEF AInv
<1>4. i \in Nat /\ Sectors \in Nat
  BY <1>3, Fields
<1>5. Quiet' <=> Quiet
  BY <1>2 DEF Quiet
<1>6. DriveOK'
  BY <1>2, <1>5 DEF AInv, DriveOK
<1>7. ~err /\ InLoop /\ i < Sectors /\ Handed
  BY <1>1 DEF AInv, DriveOK, Quiet, InLoop, Places, Handed
<1>8. CASE Asked = "write"
  <2>1. pc' = "flush" /\ i' = i /\ call' = call /\ ret' = ret /\ content' = content
    BY <1>8 DEF CheckPasses, Asked
  <2>2. Asked' = Asked /\ First' = First /\ Sectors' = Sectors /\ Src' = Src
    BY <2>1, CallStays
  <2>3. InLoop' /\ ~Resetting' /\ Handed'
    BY <1>8, <2>1, <2>2 DEF InLoop, Resetting, Handed
  <2>4. TypeOK'
    BY <1>1, <1>2, <1>3, <2>1 DEF TypeOK
  <2>5. Places'
    BY <1>1, <1>7, <1>8, <2>1, <2>2, <2>3 DEF AInv, Places
  <2>6. (AtSector(i)' <=> AtSector(i)) /\ (AtSector(i + 1)' <=> AtSector(i + 1))
    BY <1>2, <2>1, <2>2 DEF AtSector
  <2>7. AtWrite'
    BY <1>2, <1>7, <1>8, <2>1, <2>2, <2>3, <2>6 DEF AInv, AtWrite
  <2>8. (Written(i)' <=> Written(i)) /\ (Written(i + 1)' <=> Written(i + 1))
    BY <1>2, <2>1, <2>2 DEF Written
  <2>9. WriteGoesOn'
    BY <1>1, <1>2, <1>7, <1>8, <2>1, <2>2, <2>3, <2>8 DEF AInv, WriteGoesOn, WriteAt
  <2>10. ReadGoesOn'
    BY <1>8, <2>2 DEF ReadGoesOn
  <2>11. ContentOK'
    BY <1>1, <1>2, <1>8, <2>1, <2>2 DEF AInv, ContentOK
  <2> QED
    BY <1>3, <1>6, <2>1, <2>2, <2>4, <2>5, <2>7, <2>9, <2>10, <2>11 DEF AInv, CallOK
<1>9. CASE Asked = "read"
  <2>1. i' = i + 1 /\ SectorDone
    BY <1>9 DEF CheckPasses, Asked, SectorDone
  <2>2. Count = i + 1 /\ Len(dst) = i + 1 /\ Op # "write" /\ (early => Len(dst) > 1)
    BY <1>1, <1>7, <1>9 DEF AInv, Count, ReadGoesOn, AtWrite
  <2>3. ~early => ReadAt
    BY <1>7, <1>9 DEF AInv, ReadGoesOn
  <2>4. CASE i + 1 < Sectors
    <3>1. pc' = "wait" /\ call' = call /\ ret' = ret /\ content' = content
      BY <2>1, <2>4 DEF SectorDone, Sectors
    <3>2. Asked' = Asked /\ First' = First /\ Sectors' = Sectors /\ Src' = Src
      BY <3>1, CallStays
    <3>3. InLoop' /\ ~Resetting' /\ Count' = i + 1
      BY <2>1, <3>1 DEF Resetting, InLoop, Count
    <3>4. TypeOK'
      <4>1. i' \in 0 .. call'.sectors
        BY <1>4, <2>1, <2>4, <3>1 DEF Sectors
      <4> QED
        BY <1>1, <1>2, <1>3, <3>1, <4>1 DEF TypeOK
    <3>5. Places'
      BY <1>1, <1>7, <1>9, <2>1, <2>4, <3>1, <3>2, <3>3 DEF AInv, Places
    <3>6. ~early => ReadAt'
      <4>1. HasRead(Count)' <=> HasRead(i + 1)
        BY <1>1, <1>2, <3>2, <3>3 DEF HasRead
      <4>2. AtSector(Count)' <=> AtSector(i + 1)
        BY <1>2, <3>2, <3>3 DEF AtSector
      <4> QED
        BY <1>2, <2>2, <2>3, <2>4, <3>2, <3>3, <4>1, <4>2 DEF ReadAt
    <3>7. ReadGoesOn'
      BY <1>1, <1>4, <2>1, <2>2, <3>1, <3>3, <3>6 DEF ReadGoesOn
    <3>8. AtWrite' /\ WriteGoesOn'
      BY <1>2, <1>9, <2>2, <3>2 DEF AtWrite, WriteGoesOn
    <3>9. ContentOK'
      BY <1>1, <1>2, <3>1, <3>2 DEF AInv, ContentOK
    <3> QED
      BY <1>3, <1>6, <3>1, <3>2, <3>4, <3>5, <3>7, <3>8, <3>9 DEF AInv, CallOK
  <2>5. CASE ~(i + 1 < Sectors)
    <3>1. Return(TRUE) /\ i + 1 = Sectors
      <4>1. i + 1 = Sectors
        BY <1>4, <1>7, <2>5
      <4>2. Return(TRUE)
        BY <2>1, <2>5 DEF SectorDone, Sectors
      <4> QED
        BY <4>1, <4>2
    <3>2. ~early => Quiet /\ HasRead(Sectors)
      BY <2>2, <2>3, <2>5, <3>1 DEF ReadAt
    <3>3. /\ pc' = "idle" /\ call' = call /\ ret' = TRUE
          /\ content' \in [LBAs -> SUBSET Data] /\ ContentOK'
      BY <1>2, <1>9, <3>1, ReturnKeeps
    <3>4. i' \in 0 .. Sectors /\ reported' \in BOOLEAN
      BY <1>1, <1>3, <1>4, <2>1, <3>1 DEF TypeOK
    <3> QED
      BY <1>1, <2>2, <3>2, <3>3, <3>4, IdleKeeps
  <2> QED
    BY <2>4, <2>5
<1>10. Asked \in {"read", "write"}
  BY <1>1 DEF AInv, Places
<1> QED
  BY <1>8, <1>9, <1>10

-----------------------------------------------------------------------------
(* The invariant and what follows from it.                                 *)

LEMMA InitHolds == Init => AInv
<1> SUFFICES ASSUME Init PROVE AInv
  OBVIOUS
<1> USE Constants
<1>1. /\ bsy = FALSE /\ drq = FALSE /\ err = FALSE /\ cmd = NoCmd /\ disk \in [LBAs -> Data]
      /\ pc = "idle" /\ call = NoCall /\ i = 0 /\ ready = FALSE /\ dst = <<>>
      /\ ret = FALSE /\ reported = FALSE /\ early = FALSE
      /\ content = [l \in LBAs |-> {disk[l]}]
  BY DEF Init
<1>2. Op = "none" /\ Asked = "none" /\ Sectors = 0 /\ Quiet
  BY <1>1 DEF Op, Asked, Sectors, Quiet, NoCmd, NoCall
<1>3. TypeOK
  <2>1. cmd \in Commands
    BY <1>1 DEF Commands, NoCmd, LBAs
  <2>2. i \in 0 .. call.sectors /\ dst \in Seq(Data \cup {Garbage}) /\ Len(dst) <= call.sectors
    BY <1>1 DEF NoCall
  <2>3. content \in [LBAs -> SUBSET Data]
    BY <1>1
  <2> QED
    BY <1>1, <2>1, <2>2, <2>3 DEF TypeOK, Commands
<1>4. CallOK
  BY <1>1, <1>2 DEF CallOK, NoCall, LBAs
<1>5. ~InLoop /\ ~Resetting
  BY <1>1 DEF InLoop, Resetting
<1>6. DriveOK /\ Places /\ AtWrite /\ WriteGoesOn /\ ReadGoesOn
  BY <1>1, <1>2, <1>5 DEF DriveOK, Places, AtWrite, WriteGoesOn, ReadGoesOn
<1>7. ContentOK
  BY <1>1 DEF ContentOK
<1> QED
  BY <1>3, <1>4, <1>6, <1>7 DEF AInv

LEMMA StutterKeeps == ASSUME AInv, UNCHANGED vars PROVE AInv'
BY DEF vars, drive, driver, AInv, TypeOK, CallOK, DriveOK, Places, AtWrite, WriteGoesOn, ReadGoesOn,
       ContentOK, Quiet, InLoop, Resetting, Handed, AtSector, Written, HasRead, WriteAt, ReadAt, Count,
       Op, Lba, Left, Given, Asked, First, Sectors, Src

LEMMA NextKeeps == AInv /\ [Next]_vars => AInv'
<1> SUFFICES ASSUME AInv, [Next]_vars PROVE AInv'
  OBVIOUS
<1>1. ASSUME NEW lba \in LBAs, NEW sectors \in 0 .. ReadMax, ataread(lba, sectors) PROVE AInv'
  BY <1>1, AtaReadKeeps
<1>2. ASSUME NEW lba \in LBAs, NEW n \in 0 .. WriteMax, NEW src \in [1 .. n -> Data],
             atawrite(lba, src)
      PROVE  AInv'
  BY <1>2, AtaWriteKeeps
<1>3. CASE Driver
  BY <1>3, CacheFlushKeeps, BoundsKeeps, CommandKeeps, WaitKeeps, ReadSectorKeeps,
     WriteSectorKeeps, CheckFailsKeeps, CheckPassesKeeps DEF Driver
<1>4. CASE Drive
  BY <1>4, DriveIdleKeeps, DriveReadyKeeps, DriveWritesKeeps, DriveFailsKeeps DEF Drive
<1>5. CASE UNCHANGED vars
  BY <1>5, StutterKeeps
<1> QED
  BY <1>1, <1>2, <1>3, <1>4, <1>5 DEF Next

(* The inductive invariant holds always: in a write that meets no error    *)
(* the drive's command is at the driver's sector, and in a read until a    *)
(* sector is taken early.                                                  *)
THEOREM AtaInvariant == Spec => []AInv
<1>1. Init => AInv
  BY InitHolds
<1>2. AInv /\ [Next]_vars => AInv'
  BY NextKeeps
<1> QED
  BY <1>1, <1>2, PTL DEF Spec

(* A read that returns true and was at no sector early has the disk's      *)
(* sectors, for every disk and every length of a read, wherever the drive  *)
(* is between the driver's accesses (ata.c:44-97).                         *)
THEOREM AtaReadsTheDisk == Spec => []ReadsTheDisk
<1>1. AInv => ReadsTheDisk
  <2> SUFFICES ASSUME AInv PROVE ReadsTheDisk
    OBVIOUS
  <2>1. Asked = "read" /\ early => Len(dst) > 1
    BY DEF AInv, ReadGoesOn
  <2>2. ASSUME pc = "idle", Asked = "read", ret, ~early
        PROVE  dst = [k \in 1 .. Sectors |-> disk[First + k - 1]]
    <3>1. HasRead(Sectors)
      BY <2>2 DEF AInv, ReadGoesOn
    <3>2. dst \in Seq(Data \cup {Garbage}) /\ Sectors \in Nat
      BY Fields DEF AInv
    <3> QED
      BY <3>1, <3>2 DEF HasRead
  <2> QED
    BY <2>1, <2>2 DEF ReadsTheDisk, Asked, First, Sectors
<1> QED
  BY <1>1, AtaInvariant, PTL

(* Between calls every sector holds what the writes have left there: the   *)
(* last one that returned true and reported nothing, or one that was       *)
(* broken off or reported an error (ata.c:99-149).                         *)
THEOREM AtaDiskAsWritten == Spec => []DiskAsWritten
<1>1. AInv => DiskAsWritten
  BY DEF AInv, ContentOK, DiskAsWritten
<1> QED
  BY <1>1, AtaInvariant, PTL
=============================================================================
