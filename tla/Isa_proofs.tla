----------------------------- MODULE Isa_proofs -----------------------------
(***************************************************************************)
(* The theorems about the drivers of the ISA bus, for every value of their *)
(* constants: the floppy disk, the UART, then accesses and DMA.            *)
(***************************************************************************)
EXTENDS IsaFloppy, IsaSerial, IsaIo, SequenceTheorems, TLAPS

-----------------------------------------------------------------------------
(***************************************************************************)
(* IsaFloppy: its types, and FloppySound.  Calls are nested, and only the  *)
(* drives of calls within calls can be selected for another drive's call.  *)
(* For a call that is alone, and all that is between calls: a cached block *)
(* 0 is fresh while the change line of its drive is clear, but in a call   *)
(* that has found another medium and is going to drop the cache; and only  *)
(* a call that has found its own medium goes on to the disk.               *)
(***************************************************************************)

(* A disk is in one drive, and a line that is clear means there is one.    *)
DisksOK ==
    /\ \A d, e \in FddDrives : d # e /\ fddDisk[d] # NoDisk => fddDisk[d] # fddDisk[e]
    /\ \A d \in FddDrives : ~fddLine[d] => fddDisk[d] # NoDisk

(* A call in the middle of another one, and what it has interrupted.       *)
StackOK ==
    /\ fddOuter # FddIdle =>
           /\ fddPc # FddIdle /\ fddOuter.interrupted
           /\ fddPc.drive \in fddMixed /\ fddOuter.drive \in fddMixed
    /\ fddPc.interrupted => fddPc.drive \in fddMixed
    /\ fddPc # FddIdle => fddSelect = fddPc.drive \/ {fddSelect, fddPc.drive} \subseteq fddMixed

(* Who keeps the motor on: the timer that stops it, or a call.             *)
MotorOK ==
    /\ fddPc # FddIdle /\ ~fddPc.interrupted =>
           fddMotor = fddPc.drive /\ fddPc.drive \notin fddTimer
    /\ fddMotor \in fddTimer \cup {fddPc.drive, fddOuter.drive, NoDrive}

(* Calls stay on the disk.                                                 *)
OnDisk(call) == call.lba <= call.at /\ call.at + call.blocks <= 2
BoundsOK == OnDisk(fddPc) /\ OnDisk(fddOuter)

(* The call that runs is alone; it works on its medium; it will drop the   *)
(* cache of its drive; block 0 of disk k.                                  *)
Alone == fddPc # FddIdle /\ fddPc.drive \notin fddMixed
Works == fddPc.phase = "transfer" \/ (fddPc.phase \in {"notify", "check"} /\ ~FddGone)
Drops(d) == fddPc.phase \in {"notify", "check"} /\ fddPc.drive = d /\ FddGone
Holds(block, k) == block.disk = k /\ block.version = fddData[k][0]

CacheOK ==
    \A d \in FddDrives \ fddMixed :
        ~fddLine[d] /\ fddCache[d] # NoBlock /\ ~Drops(d) => Holds(fddCache[d], fddDisk[d])

(* A call that is alone has the medium that it named until DetectMedia     *)
(* looks; a write from block 0 on has dropped the cache.                   *)
CallOK ==
    Alone =>
        /\ fddPc.phase = "detect" => fddPc.id = fddMedia[fddPc.drive].id
        /\ fddPc.phase \in {"detect", "notify", "check"} => fddPc.first = NoBlock
        /\ fddPc.write /\ fddPc.lba = 0 /\ (fddPc.phase = "detect" \/ Works) => Kept = NoBlock

(* What it knows of its medium when it works on it: where it is, and that  *)
(* the cache and what was read of block 0 are its own.                     *)
WorkOK ==
    Alone /\ Works =>
        /\ fddPc.disk \in FddDisks
        /\ \/ fddDisk[fddPc.drive] = fddPc.disk /\ ~fddLine[fddPc.drive]
           \/ fddDisk[fddPc.drive] = NoDisk /\ fddLine[fddPc.drive]
        /\ Kept # NoBlock => Holds(Kept, fddPc.disk)
        /\ ~fddPc.write /\ fddPc.first # NoBlock /\ fddPc.lba = 0 => Holds(fddPc.first, fddPc.disk)

FddInv ==
    /\ FddTypeOK /\ DisksOK /\ StackOK /\ MotorOK /\ BoundsOK /\ CacheOK /\ CallOK /\ WorkOK
    /\ CacheIsFresh

FddMedium == [present : BOOLEAN, id : Nat, readonly : BOOLEAN]
FddBudget == [calls : Nat, changes : Nat, faults : Nat]

-----------------------------------------------------------------------------
(* What is known of a call that runs.                                      *)
LEMMA Calling ==
    ASSUME FddTypeOK, fddPc.phase # "idle"
    PROVE  fddPc \in FddCall /\ fddPc # FddIdle /\ fddPc.drive \in FddDrives
BY DEF FddTypeOK, FddCall, FddIdle

LEMMA Empty == NoBlock \in FddBlock
BY DEF NoBlock, FddBlock

(* A fault is taken from the budget.                                       *)
LEMMA FaultKeeps ==
    ASSUME fddLeft \in FddBudget, FddFault \/ NoFault
    PROVE  fddLeft' \in FddBudget
<1>1. CASE NoFault
  BY <1>1 DEF NoFault
<1>2. CASE FddFault
  BY <1>2 DEF FddFault, FddBudget
<1> QED BY <1>1, <1>2

LEMMA CallsKeep ==
    ASSUME fddLeft \in FddBudget, fddLeft.calls > 0,
           \/ fddLeft' = [fddLeft EXCEPT !.calls = @ - 1]
           \/ /\ fddLeft.faults > 0
              /\ fddLeft' = [fddLeft EXCEPT !.calls = @ - 1, !.faults = @ - 1]
    PROVE  fddLeft' \in FddBudget
<1>1. fddLeft.calls - 1 \in Nat /\ fddLeft.faults \in Nat /\ fddLeft.changes \in Nat
  BY DEF FddBudget
<1>2. CASE fddLeft' = [fddLeft EXCEPT !.calls = @ - 1]
  BY <1>1, <1>2 DEF FddBudget
<1>3. CASE fddLeft.faults > 0 /\ fddLeft' = [fddLeft EXCEPT !.calls = @ - 1, !.faults = @ - 1]
  <2>1. fddLeft.faults - 1 \in Nat
    BY <1>1, <1>3
  <2> QED BY <1>1, <1>3, <2>1 DEF FddBudget
<1> QED BY <1>2, <1>3

(* The drive that is selected is that of the call, or not to be trusted;   *)
(* an alone call is not interrupted and has its motor.                     *)
LEMMA Selected ==
    ASSUME FddInv, fddPc # FddIdle
    PROVE  /\ fddSelect # fddPc.drive => fddSelect \in fddMixed /\ fddPc.drive \in fddMixed
           /\ Alone => fddSelect = fddPc.drive /\ fddOuter = FddIdle
BY DEF FddInv, StackOK, Alone

(* The end of a call keeps all that is not about the disk: the call that   *)
(* goes on, if any, is not alone.                                          *)
LEMMA FddReturnKeeps ==
    ASSUME FddInv, fddPc # FddIdle, NEW cache \in FddBlock, FddReturns(cache),
           fddMotor' \in {fddMotor, NoDrive}, fddSelect' \in {fddSelect, fddPc.drive}
    PROVE  /\ fddTimer' \in SUBSET FddDrives /\ fddCache' \in [FddDrives -> FddBlock]
           /\ fddPc' \in FddCall \cup {FddIdle} /\ fddOuter' \in FddCall \cup {FddIdle}
           /\ fddMixed' \in SUBSET FddDrives
           /\ fddMotor' \in FddDrives \cup {NoDrive} /\ fddSelect' \in FddDrives
           /\ StackOK' /\ MotorOK' /\ BoundsOK' /\ CallOK' /\ WorkOK'
<1>1. fddPc \in FddCall /\ fddPc.drive \in FddDrives
  BY DEF FddInv, FddTypeOK, FddCall
<1>2. /\ fddTimer' = fddTimer \cup {fddPc.drive} /\ fddPc' = fddOuter /\ fddOuter' = FddIdle
      /\ fddCache' = [fddCache EXCEPT ![fddPc.drive] = cache]
      /\ fddOuter # FddIdle => fddMixed' = fddMixed
      /\ fddMixed' \subseteq fddMixed
  BY DEF FddReturns
<1>3. FddTypeOK
  BY DEF FddInv
<1>4. fddTimer' \in SUBSET FddDrives /\ fddMixed' \in SUBSET FddDrives
  BY <1>1, <1>2, <1>3 DEF FddTypeOK
<1>5. fddCache' \in [FddDrives -> FddBlock]
  BY <1>1, <1>2, <1>3 DEF FddTypeOK
<1>6. fddPc' \in FddCall \cup {FddIdle} /\ fddOuter' \in FddCall \cup {FddIdle}
  BY <1>2, <1>3 DEF FddTypeOK
<1>7. fddMotor' \in FddDrives \cup {NoDrive} /\ fddSelect' \in FddDrives
  BY <1>1, <1>3 DEF FddTypeOK
<1>8. ~Alone'
  BY <1>2 DEF Alone, FddInv, StackOK
<1>9. StackOK'
  <2>1. ~FddIdle.interrupted
    BY DEF FddIdle
  <2> QED BY <1>2, <2>1 DEF FddInv, StackOK
<1>10. MotorOK'
  <2>1. fddPc' # FddIdle => fddPc'.interrupted
    BY <1>2 DEF FddInv, StackOK
  <2>2. fddMotor' \in fddTimer' \cup {fddPc'.drive, NoDrive}
    BY <1>2 DEF FddInv, MotorOK
  <2> QED BY <2>1, <2>2 DEF MotorOK
<1>11. BoundsOK'
  BY <1>2 DEF FddInv, BoundsOK, OnDisk, FddIdle
<1> QED BY <1>4, <1>5, <1>6, <1>7, <1>8, <1>9, <1>10, <1>11 DEF CallOK, WorkOK

(* A call does not touch the lines and the disks of the other drives, but  *)
(* of the one that is selected.                                            *)
OthersKept ==
    \A d \in FddDrives :
        d # fddSelect =>
            /\ fddLine'[d] = fddLine[d]
            /\ fddDisk[d] # NoDisk => fddData'[fddDisk[d]] = fddData[fddDisk[d]]

(* The cache of the other drives stays fresh while a call works, and when  *)
(* it returns.                                                             *)
LEMMA CacheSteps ==
    ASSUME FddInv, fddPc # FddIdle, fddPc'.drive = fddPc.drive, OthersKept,
           UNCHANGED <<fddDisk, fddCache, fddMixed>>,
           Alone /\ ~fddLine'[fddPc.drive] /\ Kept # NoBlock /\ ~Drops(fddPc.drive)' =>
               Holds(Kept, fddDisk[fddPc.drive])'
    PROVE  CacheOK'
<1> SUFFICES ASSUME NEW d \in FddDrives \ fddMixed, ~fddLine'[d], fddCache[d] # NoBlock,
                    ~Drops(d)'
             PROVE  Holds(fddCache[d], fddDisk[d])'
  BY DEF CacheOK
<1>1. CASE d = fddPc.drive
  BY <1>1 DEF Alone, Kept, Holds
<1>2. CASE d # fddPc.drive
  <2>1. d # fddSelect
    BY <1>2, Selected
  <2>2. ~fddLine[d] /\ ~Drops(d)
    BY <1>2, <2>1 DEF OthersKept, Drops
  <2>3. Holds(fddCache[d], fddDisk[d]) /\ fddDisk[d] # NoDisk
    BY <2>2 DEF FddInv, CacheOK, DisksOK
  <2> QED BY <2>1, <2>3 DEF OthersKept, Holds
<1> QED BY <1>1, <1>2

LEMMA CacheReturns ==
    ASSUME FddInv, fddPc # FddIdle, NEW cache \in FddBlock, FddReturns(cache), OthersKept,
           UNCHANGED fddDisk,
           Alone /\ ~fddLine'[fddPc.drive] /\ cache # NoBlock =>
               cache.disk = fddDisk[fddPc.drive] /\ cache.version = fddData'[cache.disk][0]
    PROVE  CacheOK'
<1>1. fddPc.drive \in FddDrives /\ fddCache \in [FddDrives -> FddBlock]
  BY DEF FddInv, FddTypeOK, FddCall
<1>2. fddCache' = [fddCache EXCEPT ![fddPc.drive] = cache]
  BY DEF FddReturns
<1> SUFFICES ASSUME NEW d \in FddDrives \ fddMixed', ~fddLine'[d], fddCache'[d] # NoBlock
             PROVE  Holds(fddCache[d], fddDisk[d])'
  BY DEF CacheOK
<1>3. d \notin fddMixed
  BY DEF FddReturns
<1>4. CASE d = fddPc.drive
  <2>1. fddCache'[d] = cache
    BY <1>1, <1>2, <1>4
  <2> QED BY <1>3, <1>4, <2>1 DEF Alone, Holds
<1>5. CASE d # fddPc.drive
  <2>1. d # fddSelect /\ fddCache'[d] = fddCache[d]
    BY <1>1, <1>2, <1>3, <1>5, Selected
  <2>2. ~fddLine[d] /\ ~Drops(d)
    BY <1>5, <2>1 DEF OthersKept, Drops
  <2>3. Holds(fddCache[d], fddDisk[d]) /\ fddDisk[d] # NoDisk
    BY <1>3, <2>1, <2>2 DEF FddInv, CacheOK, DisksOK
  <2> QED BY <2>1, <2>3 DEF OthersKept, Holds
<1> QED BY <1>4, <1>5

(* A step of the head clears the line of the drive that is selected.       *)
LEMMA SteppedKeeps ==
    ASSUME FddInv, NEW cylinder \in Cylinders, NEW moved \in BOOLEAN, Stepped(cylinder, moved)
    PROVE  /\ fddHead' \in [FddDrives -> Cylinders] /\ fddLine' \in [FddDrives -> BOOLEAN]
           /\ \A d \in FddDrives : d # fddSelect => fddLine'[d] = fddLine[d]
           /\ \A d \in FddDrives : ~fddLine'[d] => fddDisk[d] # NoDisk
           /\ \A d \in FddDrives : ~fddLine[d] => ~fddLine'[d]
           /\ \A d \in FddDrives : fddDisk[d] = NoDisk => fddLine'[d] = fddLine[d]
<1>1. fddSelect \in FddDrives /\ fddLine \in [FddDrives -> BOOLEAN]
      /\ fddHead \in [FddDrives -> Cylinders]
  BY DEF FddInv, FddTypeOK
<1>2. fddHead' \in [FddDrives -> Cylinders]
  BY <1>1 DEF Stepped
<1>3. \/ fddLine' = fddLine
      \/ fddDisk[fddSelect] # NoDisk /\ fddLine' = [fddLine EXCEPT ![fddSelect] = FALSE]
  BY DEF Stepped
<1> QED BY <1>1, <1>2, <1>3 DEF FddInv, DisksOK

-----------------------------------------------------------------------------
(* DetectMedia that has looked at the disk: what it notes is typed, and    *)
(* what the call is about stays.                                           *)
LEMMA MediaKeeps ==
    ASSUME FddInv, fddPc.phase = "detect", NEW media \in FddMedium, MediaDetected(media),
           UNCHANGED fddDisk
    PROVE  /\ fddPc' \in FddCall /\ fddLeft' \in FddBudget
           /\ fddMedia' \in [FddDrives -> FddMedium]
           /\ fddMedia'[fddPc.drive].present = media.present
           /\ fddMedia'[fddPc.drive].id = media.id
           /\ fddPc'.phase \in {"check", "notify"} /\ fddPc'.disk = fddDisk[fddPc.drive]
           /\ fddPc'.drive = fddPc.drive /\ fddPc'.write = fddPc.write /\ fddPc'.id = fddPc.id
           /\ fddPc'.lba = fddPc.lba /\ fddPc'.at = fddPc.at /\ fddPc'.blocks = fddPc.blocks
           /\ fddPc'.first = fddPc.first /\ fddPc'.interrupted = fddPc.interrupted
<1>1. fddPc \in FddCall /\ fddPc.drive \in FddDrives /\ FddTypeOK
  BY Calling DEF FddInv
<1>2. PICK readonly \in BOOLEAN :
          /\ NoFault \/ FddFault
          /\ fddMedia' = [fddMedia EXCEPT ![fddPc.drive] =
                 IF media.present THEN [media EXCEPT !.readonly = readonly] ELSE media]
          /\ fddPc' = [fddPc EXCEPT !.disk = fddDisk[fddPc.drive],
                  !.phase = IF fddMedia'[fddPc.drive] = fddMedia[fddPc.drive]
                            THEN "check" ELSE "notify"]
  BY DEF MediaDetected
<1>3. fddLeft' \in FddBudget
  BY <1>1, <1>2, FaultKeeps DEF FddTypeOK, FddBudget
<1>4. PICK medium \in FddMedium :
          /\ fddMedia' = [fddMedia EXCEPT ![fddPc.drive] = medium]
          /\ medium.present = media.present /\ medium.id = media.id
  <2>1. CASE media.present
    <3>1. [media EXCEPT !.readonly = readonly] \in FddMedium
      BY DEF FddMedium
    <3>2. /\ [media EXCEPT !.readonly = readonly].present = media.present
          /\ [media EXCEPT !.readonly = readonly].id = media.id
      BY DEF FddMedium
    <3> QED BY <1>2, <2>1, <3>1, <3>2
  <2>2. CASE ~media.present
    BY <1>2, <2>2
  <2> QED BY <2>1, <2>2
<1>5. /\ fddMedia' \in [FddDrives -> FddMedium]
      /\ fddMedia'[fddPc.drive].present = media.present
      /\ fddMedia'[fddPc.drive].id = media.id
  BY <1>1, <1>4 DEF FddTypeOK, FddMedium
<1>6. fddDisk[fddPc.drive] \in FddDisks \cup {NoDisk}
  BY <1>1 DEF FddTypeOK
<1>7. PICK phase \in {"check", "notify"} :
          fddPc' = [fddPc EXCEPT !.disk = fddDisk[fddPc.drive], !.phase = phase]
  BY <1>2
<1>8. fddPc' \in FddCall
  BY <1>1, <1>6, <1>7 DEF FddCall
<1> QED BY <1>1, <1>3, <1>5, <1>7, <1>8 DEF FddCall

LEMMA NoChangeKeeps ==
    ASSUME FddInv, NoChange, UNCHANGED <<fddDisk, fddData, fddStale>>
    PROVE  FddInv'
<1>1. FddTypeOK /\ fddPc \in FddCall /\ fddPc # FddIdle /\ fddPc.drive \in FddDrives
  BY Calling DEF FddInv, NoChange
<1>2. fddMedia[fddPc.drive] \in FddMedium
  BY <1>1 DEF FddTypeOK, FddMedium
<1>3. /\ fddPc.phase = "detect" /\ ~fddLine[fddSelect]
      /\ MediaDetected(fddMedia[fddPc.drive])
      /\ UNCHANGED <<fddLine, fddHead, fddCyl, fddRecal, fddMotor, fddSelect, fddTimer, fddCache,
                     fddOuter, fddMixed, fddDisk, fddData, fddStale>>
  BY DEF NoChange, MediaDetected, fddHeads, fddDrive
<1>4. /\ fddPc' \in FddCall /\ fddLeft' \in FddBudget
      /\ fddMedia' \in [FddDrives -> FddMedium]
      /\ fddMedia'[fddPc.drive].present = fddMedia[fddPc.drive].present
      /\ fddMedia'[fddPc.drive].id = fddMedia[fddPc.drive].id
      /\ fddPc'.phase \in {"check", "notify"} /\ fddPc'.disk = fddDisk[fddPc.drive]
      /\ fddPc'.drive = fddPc.drive /\ fddPc'.write = fddPc.write /\ fddPc'.id = fddPc.id
      /\ fddPc'.lba = fddPc.lba /\ fddPc'.at = fddPc.at /\ fddPc'.blocks = fddPc.blocks
      /\ fddPc'.first = fddPc.first /\ fddPc'.interrupted = fddPc.interrupted
  BY <1>2, <1>3, MediaKeeps
<1>5. fddPc' # FddIdle
  BY <1>4 DEF FddIdle
<1>6. FddTypeOK'
  BY <1>1, <1>3, <1>4 DEF FddTypeOK, FddMedium, FddBudget
<1>7. DisksOK'
  BY <1>3 DEF FddInv, DisksOK
<1>8. StackOK' /\ MotorOK' /\ BoundsOK'
  BY <1>1, <1>3, <1>4, <1>5 DEF FddInv, StackOK, MotorOK, BoundsOK, OnDisk
<1>9. Alone => /\ fddSelect = fddPc.drive /\ fddDisk[fddPc.drive] \in FddDisks
               /\ ~fddLine[fddPc.drive]
               /\ Kept # NoBlock => Holds(Kept, fddDisk[fddPc.drive])
  <2>1. ~Drops(fddPc.drive)
    BY <1>3 DEF Drops
  <2> QED BY <1>1, <1>3, <2>1, Selected DEF FddInv, FddTypeOK, DisksOK, CacheOK, Alone, Kept
<1>10. CacheOK'
  <2>1. OthersKept
    BY <1>3 DEF OthersKept
  <2> QED BY <1>1, <1>3, <1>4, <1>9, <2>1, CacheSteps DEF Holds, Kept
<1>11. CallOK'
  BY <1>1, <1>3, <1>4 DEF FddInv, CallOK, Alone, Kept
<1>12. WorkOK'
  BY <1>1, <1>3, <1>4, <1>9 DEF FddInv, CallOK, WorkOK, Alone, Kept, Holds
<1> QED BY <1>3, <1>6, <1>7, <1>8, <1>10, <1>11, <1>12 DEF FddInv, CacheIsFresh

LEMMA DisketChangedKeeps ==
    ASSUME FddInv, DisketChanged, UNCHANGED <<fddDisk, fddData, fddStale>>
    PROVE  FddInv'
<1>1. FddTypeOK /\ fddPc \in FddCall /\ fddPc # FddIdle /\ fddPc.drive \in FddDrives
  BY Calling DEF FddInv, DisketChanged
<1> DEFINE m == fddMedia[fddPc.drive]
           media == IF fddLine'[fddSelect] THEN [m EXCEPT !.present = FALSE]
                    ELSE [m EXCEPT !.present = TRUE, !.id = @ + 1]
<1>2. /\ media \in FddMedium
      /\ fddLine'[fddSelect] => media.present = FALSE
      /\ ~fddLine'[fddSelect] => media.id # m.id
  <2>1. m \in FddMedium
    BY <1>1 DEF FddTypeOK, FddMedium
  <2> HIDE DEF m
  <2>2. CASE fddLine'[fddSelect]
    BY <2>1, <2>2 DEF FddMedium
  <2>3. CASE ~fddLine'[fddSelect]
    <3>1. media = [m EXCEPT !.present = TRUE, !.id = m.id + 1]
      BY <2>1, <2>3 DEF FddMedium
    <3>2. m.id + 1 \in Nat /\ m.id + 1 # m.id
      BY <2>1 DEF FddMedium
    <3> HIDE DEF media
    <3>3. media \in FddMedium /\ media.id = m.id + 1
      BY <2>1, <3>1, <3>2 DEF FddMedium
    <3> QED BY <2>3, <3>2, <3>3
  <2> QED BY <2>2, <2>3
<1>3. /\ fddPc.phase = "detect" /\ MediaDetected(media)
      /\ UNCHANGED <<fddMotor, fddSelect, fddTimer, fddCache, fddOuter, fddMixed, fddDisk,
                     fddData, fddStale>>
  BY DEF DisketChanged, MediaDetected, fddDrive
<1> HIDE DEF media, m
<1>4. /\ fddPc' \in FddCall /\ fddLeft' \in FddBudget
      /\ fddMedia' \in [FddDrives -> FddMedium]
      /\ fddMedia'[fddPc.drive].present = media.present
      /\ fddMedia'[fddPc.drive].id = media.id
      /\ fddPc'.phase \in {"check", "notify"} /\ fddPc'.disk = fddDisk[fddPc.drive]
      /\ fddPc'.drive = fddPc.drive /\ fddPc'.write = fddPc.write /\ fddPc'.id = fddPc.id
      /\ fddPc'.lba = fddPc.lba /\ fddPc'.at = fddPc.at /\ fddPc'.blocks = fddPc.blocks
      /\ fddPc'.first = fddPc.first /\ fddPc'.interrupted = fddPc.interrupted
  BY <1>2, <1>3, MediaKeeps
<1>5. fddPc' # FddIdle
  BY <1>4 DEF FddIdle
<1>6. /\ fddHead' \in [FddDrives -> Cylinders] /\ fddLine' \in [FddDrives -> BOOLEAN]
      /\ \A d \in FddDrives : d # fddSelect => fddLine'[d] = fddLine[d]
      /\ \A d \in FddDrives : ~fddLine'[d] => fddDisk[d] # NoDisk
  BY SteppedKeeps DEF DisketChanged
<1>7. fddCyl' \in [FddDrives -> Cylinders] /\ fddRecal' \in BOOLEAN
  <2>1. StepTarget(fddPc.drive) \in Cylinders
    BY DEF StepTarget, Cylinders
  <2>2. /\ fddCyl' = [fddCyl EXCEPT ![fddPc.drive] = StepTarget(fddPc.drive)]
        /\ fddRecal' = FALSE /\ fddCyl \in [FddDrives -> Cylinders]
    BY <1>1 DEF DisketChanged, FddTypeOK
  <2> QED BY <1>1, <2>1, <2>2
<1>8. FddTypeOK'
  BY <1>1, <1>3, <1>4, <1>6, <1>7 DEF FddTypeOK, FddMedium, FddBudget
<1>9. DisksOK'
  BY <1>3, <1>6 DEF FddInv, DisksOK
<1>10. StackOK' /\ MotorOK' /\ BoundsOK'
  BY <1>1, <1>3, <1>4, <1>5 DEF FddInv, StackOK, MotorOK, BoundsOK, OnDisk
<1>11. Alone => FddGone'
  <2> SUFFICES ASSUME Alone PROVE FddGone'
    OBVIOUS
  <2>1. fddPc.id = m.id /\ fddSelect = fddPc.drive
    BY <1>1, <1>3, Selected DEF FddInv, CallOK, m
  <2> QED BY <1>2, <1>4, <2>1 DEF FddGone
<1>12. CacheOK'
  <2>1. OthersKept
    BY <1>3, <1>6 DEF OthersKept
  <2>2. Alone => Drops(fddPc.drive)'
    BY <1>4, <1>11 DEF Drops
  <2> QED BY <1>1, <1>3, <1>4, <2>1, <2>2, CacheSteps
<1>13. CallOK' /\ WorkOK'
  BY <1>1, <1>3, <1>4, <1>11 DEF FddInv, CallOK, WorkOK, Alone, Works
<1> QED BY <1>3, <1>8, <1>9, <1>10, <1>12, <1>13 DEF FddInv, CacheIsFresh

-----------------------------------------------------------------------------
(* A call that ends keeps the invariant when it leaves the lines right and *)
(* puts into the cache what is in block 0 of the disk.                     *)
LEMMA EndKeeps ==
    ASSUME FddInv, fddPc # FddIdle, NEW cache \in FddBlock, FddReturns(cache), OthersKept,
           fddMotor' \in {fddMotor, NoDrive}, fddSelect' \in {fddSelect, fddPc.drive},
           fddHead' \in [FddDrives -> Cylinders], fddCyl' \in [FddDrives -> Cylinders],
           fddLine' \in [FddDrives -> BOOLEAN], fddRecal' \in BOOLEAN,
           fddData' \in [FddDisks -> [Cylinders -> Nat]], fddLeft' \in FddBudget,
           fddStale' \in SUBSET {"alone", "within"}, CacheIsFresh',
           UNCHANGED <<fddDisk, fddMedia>>,
           \A d \in FddDrives : ~fddLine'[d] => fddDisk[d] # NoDisk,
           Alone /\ ~fddLine'[fddPc.drive] /\ cache # NoBlock =>
               cache.disk = fddDisk[fddPc.drive] /\ cache.version = fddData'[cache.disk][0]
    PROVE  FddInv'
<1>1. /\ fddTimer' \in SUBSET FddDrives /\ fddCache' \in [FddDrives -> FddBlock]
      /\ fddPc' \in FddCall \cup {FddIdle} /\ fddOuter' \in FddCall \cup {FddIdle}
      /\ fddMixed' \in SUBSET FddDrives
      /\ fddMotor' \in FddDrives \cup {NoDrive} /\ fddSelect' \in FddDrives
      /\ StackOK' /\ MotorOK' /\ BoundsOK' /\ CallOK' /\ WorkOK'
  BY FddReturnKeeps
<1>2. FddTypeOK'
  BY <1>1 DEF FddInv, FddTypeOK, FddBudget
<1>3. DisksOK'
  BY DEF FddInv, DisksOK
<1>4. CacheOK'
  BY CacheReturns
<1> QED BY <1>1, <1>2, <1>3, <1>4 DEF FddInv

(* So it does when the disks stay as they are and the cache is dropped or, *)
(* by a call that works on its medium, left alone.                         *)
LEMMA LeaveKeeps ==
    ASSUME FddInv, fddPc # FddIdle, NEW cache \in FddBlock, FddReturns(cache),
           cache = NoBlock \/ (cache = Kept /\ Works),
           fddLeft' \in FddBudget, fddStale' \in SUBSET {"alone", "within"}, CacheIsFresh',
           UNCHANGED <<fddMotor, fddSelect, fddDisk, fddLine, fddHeads, fddMedia, fddData>>
    PROVE  FddInv'
<1>1. OthersKept
  BY DEF OthersKept
<1>2. /\ fddHead' \in [FddDrives -> Cylinders] /\ fddCyl' \in [FddDrives -> Cylinders]
      /\ fddLine' \in [FddDrives -> BOOLEAN] /\ fddRecal' \in BOOLEAN
      /\ fddData' \in [FddDisks -> [Cylinders -> Nat]]
  BY DEF FddInv, FddTypeOK, fddHeads
<1>3. \A d \in FddDrives : ~fddLine'[d] => fddDisk[d] # NoDisk
  BY DEF FddInv, DisksOK
<1>4. Alone /\ ~fddLine'[fddPc.drive] /\ cache # NoBlock =>
          cache.disk = fddDisk[fddPc.drive] /\ cache.version = fddData'[cache.disk][0]
  BY DEF FddInv, WorkOK, Holds
<1> QED BY <1>1, <1>2, <1>3, <1>4, EndKeeps

LEMMA DetectFailsKeeps ==
    ASSUME FddInv, DetectFails, UNCHANGED <<fddDisk, fddData, fddStale>>
    PROVE  FddInv'
<1>1. FddTypeOK /\ fddPc # FddIdle
  BY Calling DEF FddInv, DetectFails
<1>2. /\ FddReturns(NoBlock) /\ fddRecal' = TRUE
      /\ UNCHANGED <<fddMotor, fddSelect, fddCyl, fddMedia, fddDisk, fddData, fddStale>>
  BY DEF DetectFails
<1>3. fddLeft' \in FddBudget
  BY <1>1, FaultKeeps DEF DetectFails, FddTypeOK, FddBudget
<1>4. /\ fddHead' \in [FddDrives -> Cylinders] /\ fddLine' \in [FddDrives -> BOOLEAN]
      /\ \A d \in FddDrives : d # fddSelect => fddLine'[d] = fddLine[d]
      /\ \A d \in FddDrives : ~fddLine'[d] => fddDisk[d] # NoDisk
  <2>1. CASE UNCHANGED <<fddHead, fddLine>>
    BY <1>1, <2>1 DEF FddInv, FddTypeOK, DisksOK
  <2>2. CASE \E cylinder \in Cylinders, moved \in BOOLEAN : Stepped(cylinder, moved)
    BY <2>2, SteppedKeeps
  <2> QED BY <2>1, <2>2 DEF DetectFails
<1>5. OthersKept
  BY <1>2, <1>4 DEF OthersKept
<1>6. /\ fddCyl' \in [FddDrives -> Cylinders] /\ fddRecal' \in BOOLEAN
      /\ fddData' \in [FddDisks -> [Cylinders -> Nat]]
      /\ fddStale' \in SUBSET {"alone", "within"} /\ CacheIsFresh'
  BY <1>1, <1>2 DEF FddInv, FddTypeOK, CacheIsFresh
<1> QED BY <1>1, <1>2, <1>3, <1>4, <1>5, <1>6, EndKeeps, Empty

(* The call goes on to its next phase, on its medium.                      *)
LEMMA GoesKeeps ==
    ASSUME FddInv, fddPc.phase \in {"notify", "check"}, NoFault,
           \/ fddPc.phase = "notify" /\ Goes("check")
           \/ fddPc.phase = "check" /\ ~FddGone /\ Goes("transfer"),
           UNCHANGED <<fddDrive, fddDisk, fddLine, fddHeads, fddMedia, fddCache, fddData, fddStale>>
    PROVE  FddInv'
<1>1. FddTypeOK /\ fddPc \in FddCall /\ fddPc # FddIdle /\ fddPc.drive \in FddDrives
  BY Calling DEF FddInv
<1>2. PICK phase \in {"check", "transfer"} :
          /\ fddPc' = [fddPc EXCEPT !.phase = phase]
          /\ phase = "transfer" => fddPc.phase = "check" /\ ~FddGone
  BY DEF Goes
<1>3. /\ fddPc' \in FddCall /\ fddPc'.phase = phase
      /\ fddPc'.drive = fddPc.drive /\ fddPc'.write = fddPc.write /\ fddPc'.id = fddPc.id
      /\ fddPc'.lba = fddPc.lba /\ fddPc'.at = fddPc.at /\ fddPc'.blocks = fddPc.blocks
      /\ fddPc'.first = fddPc.first /\ fddPc'.interrupted = fddPc.interrupted
      /\ fddPc'.disk = fddPc.disk
  BY <1>1, <1>2 DEF FddCall
<1>4. /\ UNCHANGED <<fddMotor, fddSelect, fddTimer, fddDisk, fddLine, fddHead, fddCyl, fddRecal,
                    fddMedia, fddCache, fddData, fddStale, fddLeft, fddOuter, fddMixed>>
      /\ fddPc' # FddIdle
  BY <1>3 DEF fddDrive, fddHeads, NoFault, Goes, FddIdle
<1>5. FddTypeOK'
  BY <1>1, <1>3, <1>4 DEF FddTypeOK
<1>6. DisksOK'
  BY <1>4 DEF FddInv, DisksOK
<1>7. StackOK' /\ MotorOK' /\ BoundsOK'
  BY <1>1, <1>3, <1>4 DEF FddInv, StackOK, MotorOK, BoundsOK, OnDisk
<1>8. FddGone' <=> FddGone
  BY <1>3, <1>4 DEF FddGone
<1>9. CacheOK'
  BY <1>2, <1>3, <1>4, <1>8 DEF FddInv, CacheOK, Drops, Holds
<1>10. CallOK'
  BY <1>1, <1>2, <1>3, <1>4, <1>8 DEF FddInv, CallOK, Alone, Works, Kept
<1>11. WorkOK'
  BY <1>1, <1>2, <1>3, <1>4, <1>8 DEF FddInv, WorkOK, Alone, Works, Kept, Holds
<1> QED BY <1>4, <1>5, <1>6, <1>7, <1>9, <1>10, <1>11 DEF FddInv, CacheIsFresh

LEMMA ReinstallKeeps == ASSUME FddInv, Reinstall PROVE FddInv'
<1>1. FddTypeOK /\ fddPc # FddIdle /\ fddPc.phase = "notify"
  BY Calling DEF FddInv, Reinstall
<1>2. CASE NoFault /\ Goes("check") /\ UNCHANGED <<fddTimer, fddCache>>
  BY <1>1, <1>2, GoesKeeps DEF Reinstall, fddDrive
<1>3. CASE FddFault /\ FddReturns(NoBlock)
  <2>1. fddLeft' \in FddBudget
    BY <1>1, <1>3, FaultKeeps DEF FddTypeOK, FddBudget
  <2>2. fddStale' \in SUBSET {"alone", "within"} /\ CacheIsFresh'
    BY <1>1 DEF Reinstall, FddInv, FddTypeOK, CacheIsFresh
  <2> QED BY <1>1, <1>3, <2>1, <2>2, LeaveKeeps, Empty DEF Reinstall
<1> QED BY <1>2, <1>3 DEF Reinstall

LEMMA CheckCallKeeps == ASSUME FddInv, CheckCall PROVE FddInv'
<1>1. /\ FddTypeOK /\ fddPc # FddIdle /\ fddPc.phase = "check" /\ fddPc.drive \in FddDrives
      /\ UNCHANGED <<fddMotor, fddSelect, fddDisk, fddLine, fddHeads, fddMedia, fddData>>
  BY Calling DEF FddInv, CheckCall
<1>2. Kept \in FddBlock
  BY <1>1 DEF FddTypeOK, Kept
<1>3. FddFault \/ NoFault => fddLeft' \in FddBudget
  BY <1>1, FaultKeeps DEF FddTypeOK, FddBudget
<1>4. UNCHANGED fddStale => fddStale' \in SUBSET {"alone", "within"} /\ CacheIsFresh'
  BY <1>1 DEF FddInv, FddTypeOK, CacheIsFresh
<1>5. ~FddGone => Works
  BY <1>1 DEF Works
<1>6. CASE DropCall
  BY <1>1, <1>3, <1>4, <1>6, LeaveKeeps, Empty DEF DropCall
<1>7. CASE RefuseCall \/ CheckFails
  BY <1>1, <1>2, <1>3, <1>4, <1>5, <1>7, LeaveKeeps DEF RefuseCall, CheckFails
<1>8. CASE AnswerCached
  <2>1. fddPc.drive \notin fddMixed => ~IsStale
    BY <1>1, <1>5, <1>8 DEF AnswerCached, Cached, IsStale, FddInv, WorkOK, Alone, Holds
  <2>2. fddStale' \in SUBSET {"alone", "within"} /\ CacheIsFresh'
    BY <1>1, <1>8, <2>1 DEF AnswerCached, FddInv, FddTypeOK, CacheIsFresh
  <2>3. FddReturns(Kept) /\ NoFault /\ ~FddGone
    BY <1>8 DEF AnswerCached
  <2> QED BY <1>1, <1>2, <1>3, <1>5, <2>2, <2>3, LeaveKeeps
<1>9. CASE CheckPasses
  BY <1>1, <1>9, GoesKeeps DEF CheckPasses, fddDrive
<1> QED BY <1>6, <1>7, <1>8, <1>9 DEF CheckCall

-----------------------------------------------------------------------------
(* The block that is transferred is on the disk.                           *)
LEMMA Transferring ==
    ASSUME FddInv, fddPc.phase = "transfer", fddPc.blocks > 0
    PROVE  /\ fddPc \in FddCall /\ fddPc # FddIdle /\ fddPc.drive \in FddDrives
           /\ fddPc.at \in Cylinders /\ fddPc.lba <= fddPc.at
           /\ fddPc.at + 1 \in 0..2 /\ fddPc.blocks - 1 \in 0..2
<1>1. fddPc \in FddCall /\ fddPc # FddIdle /\ fddPc.drive \in FddDrives
  BY Calling DEF FddInv
<1>2. fddPc.at \in 0..2 /\ fddPc.blocks \in 0..2 /\ fddPc.at + fddPc.blocks <= 2
  BY <1>1 DEF FddCall, FddInv, BoundsOK, OnDisk
<1>3. fddPc.lba <= fddPc.at
  BY DEF FddInv, BoundsOK, OnDisk
<1> QED BY <1>1, <1>2, <1>3 DEF Cylinders

(* A block is read or written: of the disk in the drive that is selected.  *)
LEMMA TransferredKeeps ==
    ASSUME FddInv, fddPc.phase = "transfer", fddPc.blocks > 0, NEW cylinder \in Cylinders,
           fddData' = fddData \/ (There(cylinder) /\ fddData' = Transferred)
    PROVE  /\ fddData' \in [FddDisks -> [Cylinders -> Nat]]
           /\ \A k \in FddDisks : k # fddDisk[fddSelect] => fddData'[k] = fddData[k]
           /\ ~fddPc.write => fddData' = fddData
           /\ \A k \in FddDisks : fddPc.at # 0 => fddData'[k][0] = fddData[k][0]
<1>1. fddPc.at \in Cylinders /\ FddTypeOK
  BY Transferring DEF FddInv
<1>2. fddData \in [FddDisks -> [Cylinders -> Nat]] /\ 0 \in Cylinders
  BY <1>1 DEF FddTypeOK, Cylinders
<1>3. CASE fddData' = fddData
  BY <1>2, <1>3
<1>4. CASE There(cylinder) /\ fddData' = Transferred /\ fddPc.write
  <2> DEFINE k == fddDisk[fddSelect]
  <2>1. k \in FddDisks
    BY <1>1, <1>4 DEF There, FddTypeOK
  <2>2. fddData' = [fddData EXCEPT ![k][fddPc.at] = fddData[k][fddPc.at] + 1]
    BY <1>4 DEF Transferred, Disk
  <2> HIDE DEF k
  <2>3. fddData[k] \in [Cylinders -> Nat] /\ fddData[k][fddPc.at] + 1 \in Nat
    BY <1>1, <1>2, <2>1
  <2>4. fddData'[k] = [fddData[k] EXCEPT ![fddPc.at] = fddData[k][fddPc.at] + 1]
    BY <1>2, <2>1, <2>2
  <2>5. fddData'[k] \in [Cylinders -> Nat]
    BY <2>3, <2>4
  <2>6. fddData' = [fddData EXCEPT ![k] = fddData'[k]]
    BY <1>2, <2>1, <2>2, <2>4
  <2>7. fddData' \in [FddDisks -> [Cylinders -> Nat]]
    BY <1>2, <2>5, <2>6
  <2>8. \A j \in FddDisks : j # k => fddData'[j] = fddData[j]
    BY <1>2, <2>2
  <2>9. \A j \in FddDisks : fddPc.at # 0 => fddData'[j][0] = fddData[j][0]
    BY <1>2, <2>3, <2>4, <2>8
  <2> QED BY <1>4, <2>7, <2>8, <2>9 DEF k
<1>5. CASE There(cylinder) /\ fddData' = Transferred /\ ~fddPc.write
  BY <1>2, <1>5 DEF Transferred
<1> QED BY <1>3, <1>4, <1>5

(* Neither the other drives nor a cached block 0 is touched by it.         *)
LEMMA TransferLeaves ==
    ASSUME FddInv, fddPc.phase = "transfer", fddPc.blocks > 0, NEW cylinder \in Cylinders,
           fddData' = fddData \/ (There(cylinder) /\ fddData' = Transferred),
           \A d \in FddDrives : d # fddSelect => fddLine'[d] = fddLine[d]
    PROVE  /\ OthersKept
           /\ Alone /\ Kept # NoBlock =>
                  Kept.disk = fddPc.disk /\ Kept.version = fddData'[fddPc.disk][0]
           /\ Alone /\ fddDisk[fddPc.drive] # NoDisk => fddDisk[fddPc.drive] = fddPc.disk
<1>1. FddTypeOK /\ DisksOK /\ fddPc \in FddCall /\ fddPc.drive \in FddDrives
  BY Transferring DEF FddInv
<1>2. /\ \A k \in FddDisks : k # fddDisk[fddSelect] => fddData'[k] = fddData[k]
      /\ ~fddPc.write => fddData' = fddData
      /\ \A k \in FddDisks : fddPc.at # 0 => fddData'[k][0] = fddData[k][0]
  BY TransferredKeeps
<1>3. OthersKept
  <2> SUFFICES ASSUME NEW d \in FddDrives, d # fddSelect, fddDisk[d] # NoDisk
               PROVE  fddData'[fddDisk[d]] = fddData[fddDisk[d]]
    BY DEF OthersKept
  <2>1. fddDisk[d] \in FddDisks /\ fddDisk[d] # fddDisk[fddSelect]
    BY <1>1 DEF FddTypeOK, DisksOK
  <2> QED BY <1>2, <2>1
<1>4. ASSUME Alone, Kept # NoBlock
      PROVE  Kept.disk = fddPc.disk /\ Kept.version = fddData'[fddPc.disk][0]
  <2>1. fddPc.disk \in FddDisks /\ Holds(Kept, fddPc.disk)
    BY <1>4 DEF FddInv, WorkOK, Works
  <2>2. fddPc.write => fddPc.lba # 0
    BY <1>4 DEF FddInv, CallOK, Works
  <2>3. fddPc.write => fddPc.at # 0
    <3>1. fddPc.lba \in 0..1 /\ fddPc.at \in 0..2 /\ fddPc.lba <= fddPc.at
      BY <1>1, Transferring DEF FddCall, Cylinders
    <3> QED BY <2>2, <3>1
  <2>4. fddData'[fddPc.disk][0] = fddData[fddPc.disk][0]
    BY <1>2, <2>1, <2>3
  <2> QED BY <2>1, <2>4 DEF Holds
<1>5. Alone /\ fddDisk[fddPc.drive] # NoDisk => fddDisk[fddPc.drive] = fddPc.disk
  BY DEF FddInv, WorkOK, Works
<1> QED BY <1>3, <1>4, <1>5

LEMMA TransferFailsKeeps == ASSUME FddInv, TransferFails PROVE FddInv'
<1>1. /\ fddPc.phase = "transfer" /\ fddPc.blocks > 0 /\ FddTypeOK
      /\ fddMotor' = NoDrive /\ fddSelect' = fddPc.drive /\ FddReturns(Kept)
      /\ UNCHANGED <<fddDisk, fddMedia, fddStale>>
  BY DEF TransferFails, FddInv
<1>2. fddPc # FddIdle /\ fddPc.drive \in FddDrives /\ fddPc.at \in Cylinders
  BY <1>1, Transferring
<1>3. Kept \in FddBlock
  BY <1>1, <1>2 DEF FddTypeOK, Kept
<1>4. fddLeft' \in FddBudget
  <2>1. FddFault \/ NoFault
    BY DEF TransferFails, NotThere, SeekFails, ResultFails
  <2> QED BY <1>1, <2>1, FaultKeeps DEF FddTypeOK, FddBudget
<1>5. /\ fddHead' \in [FddDrives -> Cylinders] /\ fddLine' \in [FddDrives -> BOOLEAN]
      /\ \A d \in FddDrives : d # fddSelect => fddLine'[d] = fddLine[d]
      /\ \A d \in FddDrives : ~fddLine'[d] => fddDisk[d] # NoDisk
  <2>1. CASE \E cylinder \in Cylinders : Moved(cylinder)
    BY <2>1, SteppedKeeps DEF Moved
  <2>2. CASE UNCHANGED <<fddHead, fddLine>>
    BY <1>1, <2>2 DEF FddInv, FddTypeOK, DisksOK
  <2>3. 0 \in Cylinders
    BY DEF Cylinders
  <2> QED BY <2>1, <2>2, <2>3 DEF TransferFails, NotThere, SeekFails, ResultFails
<1>6. fddCyl' \in [FddDrives -> Cylinders] /\ fddRecal' \in BOOLEAN
  <2>1. 0 \in Cylinders
    BY DEF Cylinders
  <2>2. \/ fddCyl' = [fddCyl EXCEPT ![fddPc.drive] = fddPc.at] \/ fddCyl' = fddCyl
        \/ fddCyl' = [fddCyl EXCEPT ![fddPc.drive] = 0]
    BY DEF TransferFails, NotThere, SeekFails, ResultFails
  <2>3. fddCyl' \in [FddDrives -> Cylinders]
    BY <1>1, <1>2, <2>1, <2>2 DEF FddTypeOK
  <2>4. fddRecal' \in BOOLEAN
    BY <1>1 DEF TransferFails, NotThere, SeekFails, ResultFails, FddTypeOK
  <2> QED BY <2>3, <2>4
<1>7. PICK cylinder \in Cylinders :
          fddData' = fddData \/ (There(cylinder) /\ fddData' = Transferred)
  <2>1. 0 \in Cylinders
    BY DEF Cylinders
  <2>2. CASE fddData' = fddData
    BY <2>1, <2>2
  <2>3. CASE ResultFails
    BY <2>3 DEF ResultFails
  <2>4. CASE NotThere \/ SeekFails
    BY <2>1, <2>4 DEF NotThere, SeekFails
  <2> QED BY <2>3, <2>4 DEF TransferFails
<1>8. fddData' \in [FddDisks -> [Cylinders -> Nat]]
  BY <1>1, <1>7, TransferredKeeps
<1>9. /\ OthersKept
      /\ Alone /\ Kept # NoBlock =>
             Kept.disk = fddPc.disk /\ Kept.version = fddData'[fddPc.disk][0]
      /\ Alone /\ fddDisk[fddPc.drive] # NoDisk => fddDisk[fddPc.drive] = fddPc.disk
  BY <1>1, <1>5, <1>7, TransferLeaves
<1>10. Alone /\ ~fddLine'[fddPc.drive] /\ Kept # NoBlock =>
           Kept.disk = fddDisk[fddPc.drive] /\ Kept.version = fddData'[Kept.disk][0]
  BY <1>2, <1>5, <1>9
<1>11. fddStale' \in SUBSET {"alone", "within"} /\ CacheIsFresh'
  BY <1>1 DEF FddInv, FddTypeOK, CacheIsFresh
<1> QED BY <1>1, <1>2, <1>3, <1>4, <1>5, <1>6, <1>8, <1>9, <1>10, <1>11, EndKeeps

LEMMA EndTransferKeeps == ASSUME FddInv, EndTransfer PROVE FddInv'
<1>1. /\ fddPc.phase = "transfer" /\ FddTypeOK /\ fddPc # FddIdle /\ fddPc \in FddCall
      /\ fddPc.drive \in FddDrives
      /\ UNCHANGED <<fddMotor, fddSelect, fddDisk, fddLine, fddHead, fddCyl, fddRecal, fddMedia,
                     fddData, fddLeft, fddStale>>
  BY Calling DEF EndTransfer, FddInv, fddHeads
<1>2. PICK cache \in FddBlock :
          /\ FddReturns(cache)
          /\ \/ cache = Kept
             \/ cache = fddPc.first /\ ~fddPc.write /\ fddPc.lba = 0
  <2>1. Kept \in FddBlock /\ fddPc.first \in FddBlock
    BY <1>1 DEF FddTypeOK, FddCall, Kept
  <2> QED BY <2>1 DEF EndTransfer
<1>3. OthersKept
  BY <1>1 DEF OthersKept
<1>4. Alone /\ ~fddLine'[fddPc.drive] /\ cache # NoBlock =>
          cache.disk = fddDisk[fddPc.drive] /\ cache.version = fddData'[cache.disk][0]
  BY <1>1, <1>2 DEF FddInv, WorkOK, Works, Holds
<1>5. \A d \in FddDrives : ~fddLine'[d] => fddDisk[d] # NoDisk
  BY <1>1 DEF FddInv, DisksOK
<1>6. /\ fddHead' \in [FddDrives -> Cylinders] /\ fddCyl' \in [FddDrives -> Cylinders]
      /\ fddLine' \in [FddDrives -> BOOLEAN] /\ fddRecal' \in BOOLEAN
      /\ fddData' \in [FddDisks -> [Cylinders -> Nat]] /\ fddLeft' \in FddBudget
      /\ fddStale' \in SUBSET {"alone", "within"} /\ CacheIsFresh'
  BY <1>1 DEF FddInv, FddTypeOK, FddBudget, CacheIsFresh
<1> QED BY <1>1, <1>2, <1>3, <1>4, <1>5, <1>6, EndKeeps

LEMMA TransferBlockKeeps == ASSUME FddInv, TransferBlock PROVE FddInv'
<1>1. /\ fddPc.phase = "transfer" /\ fddPc.blocks > 0 /\ FddTypeOK /\ NoFault
      /\ UNCHANGED <<fddMotor, fddSelect, fddTimer, fddDisk, fddMedia, fddCache, fddOuter,
                     fddMixed, fddStale>>
  BY DEF TransferBlock, FddInv, fddDrive
<1>2. /\ fddPc \in FddCall /\ fddPc # FddIdle /\ fddPc.drive \in FddDrives
      /\ fddPc.at \in Cylinders /\ fddPc.lba <= fddPc.at
      /\ fddPc.at + 1 \in 0..2 /\ fddPc.blocks - 1 \in 0..2
  BY <1>1, Transferring
<1>3. PICK cylinder \in Cylinders : There(cylinder) /\ Moved(cylinder) /\ fddData' = Transferred
  BY DEF TransferBlock
<1>4. /\ fddHead' \in [FddDrives -> Cylinders] /\ fddLine' \in [FddDrives -> BOOLEAN]
      /\ \A d \in FddDrives : d # fddSelect => fddLine'[d] = fddLine[d]
      /\ \A d \in FddDrives : ~fddLine'[d] => fddDisk[d] # NoDisk
      /\ \A d \in FddDrives : ~fddLine[d] => ~fddLine'[d]
  BY <1>3, SteppedKeeps DEF Moved
<1>5. Disk \in FddDisks
  BY <1>1, <1>3 DEF There, Disk, FddTypeOK
<1>6. fddData' \in [FddDisks -> [Cylinders -> Nat]]
  BY <1>1, <1>3, TransferredKeeps
<1>7. PICK block \in FddBlock :
          /\ \/ block = fddPc.first /\ fddPc.at # fddPc.lba
             \/ /\ block = [disk |-> Disk, version |-> fddData'[Disk][fddPc.at]]
                /\ fddPc.at = fddPc.lba
          /\ fddPc' = [fddPc EXCEPT !.at = fddPc.at + 1, !.blocks = fddPc.blocks - 1,
                                    !.first = block]
  <2>1. fddPc.first \in FddBlock
    BY <1>2 DEF FddCall
  <2>2. [disk |-> Disk, version |-> fddData'[Disk][fddPc.at]] \in FddBlock
    BY <1>2, <1>5, <1>6 DEF FddBlock
  <2>3. fddPc' = [fddPc EXCEPT !.at = fddPc.at + 1, !.blocks = fddPc.blocks - 1,
                     !.first = IF fddPc.at # fddPc.lba THEN fddPc.first
                               ELSE [disk |-> Disk, version |-> fddData'[Disk][fddPc.at]]]
    BY <1>2 DEF TransferBlock, FddCall
  <2>4. CASE fddPc.at # fddPc.lba
    BY <2>1, <2>3, <2>4
  <2>5. CASE fddPc.at = fddPc.lba
    BY <2>2, <2>3, <2>5
  <2> QED BY <2>4, <2>5
<1>8. /\ fddPc' \in FddCall /\ fddPc'.phase = "transfer" /\ fddPc'.drive = fddPc.drive
      /\ fddPc'.write = fddPc.write /\ fddPc'.id = fddPc.id /\ fddPc'.lba = fddPc.lba
      /\ fddPc'.at = fddPc.at + 1 /\ fddPc'.blocks = fddPc.blocks - 1
      /\ fddPc'.disk = fddPc.disk /\ fddPc'.first = block
      /\ fddPc'.interrupted = fddPc.interrupted
  BY <1>1, <1>2, <1>7 DEF FddCall
<1>9. fddPc' # FddIdle
  BY <1>8 DEF FddIdle
<1>10. FddTypeOK'
  <2>1. fddCyl' \in [FddDrives -> Cylinders] /\ fddRecal' \in BOOLEAN /\ fddLeft' = fddLeft
    BY <1>1, <1>2 DEF TransferBlock, FddTypeOK, NoFault
  <2> QED BY <1>1, <1>4, <1>6, <1>8, <2>1 DEF FddTypeOK
<1>11. DisksOK'
  BY <1>1, <1>4 DEF FddInv, DisksOK
<1>12. StackOK' /\ MotorOK'
  BY <1>1, <1>2, <1>8, <1>9 DEF FddInv, StackOK, MotorOK
<1>13. BoundsOK'
  <2>1. fddPc.at \in Int /\ fddPc.blocks \in Int /\ fddPc.lba \in Int
    BY <1>2 DEF FddCall, Cylinders
  <2> QED BY <1>1, <1>8, <2>1 DEF FddInv, BoundsOK, OnDisk
<1>14. /\ OthersKept
       /\ Alone /\ Kept # NoBlock =>
              Kept.disk = fddPc.disk /\ Kept.version = fddData'[fddPc.disk][0]
       /\ Alone /\ fddDisk[fddPc.drive] # NoDisk => fddDisk[fddPc.drive] = fddPc.disk
  BY <1>1, <1>3, <1>4, TransferLeaves
<1>15. Alone => /\ Disk = fddPc.disk /\ Disk # NoDisk /\ fddDisk[fddPc.drive] = fddPc.disk
                /\ ~fddLine[fddPc.drive] /\ Works
  BY <1>1, <1>2, <1>3, <1>14, Selected DEF There, Disk, Works, FddInv, WorkOK
<1>16. CacheOK'
  BY <1>1, <1>2, <1>8, <1>14, <1>15, CacheSteps DEF Holds, Kept
<1>17. CallOK'
  BY <1>1, <1>2, <1>8, <1>15 DEF FddInv, CallOK, Alone, Works, Kept
<1>18. WorkOK'
  <2> SUFFICES ASSUME Alone PROVE WorkOK'
    BY <1>1, <1>2, <1>8 DEF WorkOK, Alone
  <2>1. fddPc'.disk \in FddDisks
    BY <1>8, <1>15 DEF FddInv, WorkOK
  <2>2. fddDisk'[fddPc'.drive] = fddPc'.disk /\ ~fddLine'[fddPc'.drive]
    BY <1>1, <1>2, <1>4, <1>8, <1>15
  <2>3. Kept' # NoBlock => Holds(Kept, fddPc.disk)'
    BY <1>1, <1>8, <1>14 DEF Holds, Kept
  <2>4. ~fddPc.write /\ block # NoBlock /\ fddPc.lba = 0 =>
            block.disk = fddPc.disk /\ block.version = fddData'[fddPc.disk][0]
    <3>1. CASE fddPc.at = fddPc.lba
      BY <1>7, <1>15, <3>1
    <3>2. CASE fddPc.at # fddPc.lba
      <4>1. ~fddPc.write => fddData' = fddData
        BY <1>1, <1>3, TransferredKeeps
      <4>2. block = fddPc.first
        BY <1>7, <3>2
      <4> QED BY <1>15, <4>1, <4>2 DEF FddInv, WorkOK, Holds
    <3> QED BY <3>1, <3>2
  <2> QED BY <1>8, <2>1, <2>2, <2>3, <2>4 DEF WorkOK, Holds
<1> QED BY <1>1, <1>10, <1>11, <1>12, <1>13, <1>16, <1>17, <1>18 DEF FddInv, CacheIsFresh

-----------------------------------------------------------------------------
LEMMA ChangeDiskKeeps ==
    ASSUME FddInv, NEW d \in FddDrives, NEW disk \in FddDisks \cup {NoDisk}, ChangeDisk(d, disk)
    PROVE  FddInv'
<1>1. /\ FddTypeOK
      /\ fddDisk' = [fddDisk EXCEPT ![d] = disk] /\ fddLine' = [fddLine EXCEPT ![d] = TRUE]
      /\ UNCHANGED <<fddMotor, fddSelect, fddTimer, fddHead, fddCyl, fddRecal, fddMedia, fddCache,
                     fddData, fddPc, fddOuter, fddMixed, fddStale>>
  BY DEF ChangeDisk, FddInv, fddDrive, fddHeads, fddRun
<1>2. \A e \in FddDrives : /\ fddDisk'[e] = IF e = d THEN disk ELSE fddDisk[e]
                           /\ fddLine'[e] = IF e = d THEN TRUE ELSE fddLine[e]
  BY <1>1 DEF FddTypeOK
<1>3. FddTypeOK'
  <2>1. fddDisk' \in [FddDrives -> FddDisks \cup {NoDisk}] /\ fddLine' \in [FddDrives -> BOOLEAN]
    BY <1>1 DEF FddTypeOK
  <2>2. fddLeft' \in FddBudget
    <3>1. fddLeft \in FddBudget
      BY <1>1 DEF FddTypeOK, FddBudget
    <3>2. fddLeft.changes > 0 /\ fddLeft' = [fddLeft EXCEPT !.changes = @ - 1]
      BY DEF ChangeDisk
    <3> QED BY <3>1, <3>2 DEF FddBudget
  <2> QED BY <1>1, <2>1, <2>2 DEF FddTypeOK, FddBudget
<1>4. DisksOK'
  <2>1. \A e \in FddDrives : disk # NoDisk => fddDisk[e] # disk
    BY DEF ChangeDisk
  <2>2. \A e, f \in FddDrives : e # f /\ fddDisk'[e] # NoDisk => fddDisk'[e] # fddDisk'[f]
    BY <1>2, <2>1 DEF FddInv, DisksOK
  <2>3. \A e \in FddDrives : ~fddLine'[e] => fddDisk'[e] # NoDisk
    BY <1>2 DEF FddInv, DisksOK
  <2> QED BY <2>2, <2>3 DEF DisksOK
<1>5. StackOK' /\ MotorOK' /\ BoundsOK'
  BY <1>1 DEF FddInv, StackOK, MotorOK, BoundsOK, OnDisk
<1>6. (FddGone' <=> FddGone) /\ (Works' <=> Works) /\ (Alone' <=> Alone) /\ Kept' = Kept
  BY <1>1 DEF FddGone, Works, Alone, Kept
<1>7. CacheOK'
  <2> SUFFICES ASSUME NEW e \in FddDrives \ fddMixed, ~fddLine'[e], fddCache[e] # NoBlock,
                      ~Drops(e)'
               PROVE  Holds(fddCache[e], fddDisk'[e])
    BY <1>1 DEF CacheOK, Holds
  <2>1. ~Drops(e) /\ ~fddLine[e] /\ fddDisk'[e] = fddDisk[e]
    BY <1>1, <1>2, <1>6 DEF Drops
  <2> QED BY <2>1 DEF FddInv, CacheOK
<1>8. CallOK'
  BY <1>1, <1>6 DEF FddInv, CallOK
<1>9. WorkOK'
  <2> SUFFICES ASSUME Alone, Works PROVE WorkOK'
    BY <1>6 DEF WorkOK
  <2>1. fddPc.drive \in FddDrives /\ fddPc # FddIdle /\ fddPc.disk \in FddDisks
    BY <1>1 DEF Alone, FddTypeOK, FddCall, FddInv, WorkOK
  <2>2. CASE d = fddPc.drive
    <3>1. disk = NoDisk
      BY <2>1 DEF ChangeDisk
    <3> QED BY <1>1, <1>2, <1>6, <2>1, <2>2, <3>1 DEF FddInv, WorkOK, Holds
  <2>3. CASE d # fddPc.drive
    BY <1>1, <1>2, <1>6, <2>1, <2>3 DEF FddInv, WorkOK, Holds
  <2> QED BY <2>2, <2>3
<1> QED BY <1>1, <1>3, <1>4, <1>5, <1>7, <1>8, <1>9 DEF FddInv, CacheIsFresh

LEMMA FddTimerProcKeeps ==
    ASSUME FddInv, NEW d \in FddDrives, FddTimerProc(d)
    PROVE  FddInv'
<1>1. /\ FddTypeOK /\ d \in fddTimer /\ fddTimer' = fddTimer \ {d}
      /\ fddMotor' = IF fddMotor = d THEN NoDrive ELSE fddMotor
      /\ UNCHANGED <<fddSelect, fddDisk, fddLine, fddHead, fddCyl, fddRecal, fddMedia, fddCache,
                     fddData, fddPc, fddOuter, fddMixed, fddLeft, fddStale>>
  BY DEF FddTimerProc, FddInv, fddHeads, fddRun
<1>2. FddTypeOK'
  BY <1>1 DEF FddTypeOK
<1>3. DisksOK' /\ StackOK' /\ BoundsOK'
  BY <1>1 DEF FddInv, DisksOK, StackOK, BoundsOK, OnDisk
<1>4. MotorOK'
  BY <1>1 DEF FddInv, MotorOK
<1>5. CacheOK' /\ CallOK' /\ WorkOK'
  BY <1>1 DEF FddInv, CacheOK, CallOK, WorkOK, Alone, Works, Drops, FddGone, Holds, Kept
<1> QED BY <1>1, <1>2, <1>3, <1>4, <1>5 DEF FddInv, CacheIsFresh

(* A call that has just begun.                                             *)
LEMMA NewCall ==
    ASSUME NEW d \in FddDrives, NEW c \in FddCalls, NEW id \in Nat
    PROVE  LET call == CallOf(d, c, id)
           IN  /\ call \in FddCall /\ call # FddIdle /\ OnDisk(call)
               /\ call.drive = d /\ call.write = c.write /\ call.lba = c.lba /\ call.id = id
               /\ call.phase = "detect" /\ call.first = NoBlock /\ ~call.interrupted
<1>1. c.write \in BOOLEAN /\ c.lba \in Cylinders /\ c.blocks \in 0..2 /\ c.lba + c.blocks <= 2
  BY FddAssumption
<1>2. c.lba \in 0..2
  BY <1>1 DEF Cylinders
<1> DEFINE call == CallOf(d, c, id)
<1>3. call = [drive |-> d, write |-> c.write, id |-> id, lba |-> c.lba, at |-> c.lba,
              blocks |-> c.blocks, phase |-> "detect", disk |-> NoDisk, first |-> NoBlock,
              interrupted |-> FALSE]
  BY DEF CallOf
<1> HIDE DEF call
<1>4. call \in FddCall
  BY <1>1, <1>2, <1>3, Empty DEF FddCall
<1>5. OnDisk(call)
  BY <1>1, <1>2, <1>3 DEF OnDisk
<1>6. call # FddIdle
  BY <1>3 DEF FddIdle
<1> QED BY <1>3, <1>4, <1>5, <1>6 DEF call

LEMMA Interrupting ==
    ASSUME FddInv, NEW call, call = FddInterrupted(fddPc)
    PROVE  /\ call \in FddCall \cup {FddIdle} /\ OnDisk(call)
           /\ call.drive = fddPc.drive /\ call.phase = fddPc.phase
           /\ fddPc = FddIdle => call = FddIdle
           /\ fddPc # FddIdle => call # FddIdle /\ call.interrupted
<1>1. CASE fddPc = FddIdle
  BY <1>1 DEF FddInterrupted, FddInv, BoundsOK
<1>2. CASE fddPc # FddIdle
  <2>1. fddPc \in FddCall /\ OnDisk(fddPc)
    BY <1>2 DEF FddInv, FddTypeOK, BoundsOK
  <2>2. call = [fddPc EXCEPT !.interrupted = TRUE]
    BY <1>2 DEF FddInterrupted
  <2>3. /\ call \in FddCall /\ call.drive = fddPc.drive /\ call.phase = fddPc.phase
        /\ call.lba = fddPc.lba /\ call.at = fddPc.at /\ call.blocks = fddPc.blocks
        /\ call.interrupted
    BY <2>1, <2>2 DEF FddCall
  <2>4. call # FddIdle
    BY <2>3 DEF FddIdle
  <2> QED BY <1>2, <2>1, <2>3, <2>4 DEF OnDisk
<1> QED BY <1>1, <1>2

(* A call that begins is alone, or all drives with a call are left out.    *)
LEMMA FddReadWriteBlocksKeeps ==
    ASSUME FddInv, NEW d \in FddDrives, NEW c \in FddCalls,
           FddReadWriteBlocks(d, c, fddMedia[d].id)
    PROVE  FddInv'
<1>1. /\ FddTypeOK /\ fddTimer' = fddTimer \ {d}
      /\ fddCache' = fddCache \/ fddCache' = [fddCache EXCEPT ![d] = NoBlock]
      /\ c.write /\ c.lba = 0 => fddCache' = [fddCache EXCEPT ![d] = NoBlock]
      /\ UNCHANGED <<fddDisk, fddLine, fddHead, fddCyl, fddRecal, fddMedia, fddData, fddStale>>
  BY DEF FddReadWriteBlocks, CallBegins, FddInv, fddHeads
<1>2. fddLeft' \in FddBudget
  BY <1>1, CallsKeep DEF FddReadWriteBlocks, CallBegins, FddTypeOK, FddBudget
<1>3. /\ fddCache' \in [FddDrives -> FddBlock]
      /\ \A e \in FddDrives : fddCache'[e] # NoBlock => fddCache'[e] = fddCache[e]
      /\ c.write /\ c.lba = 0 => fddCache'[d] = NoBlock
  BY <1>1, Empty DEF FddTypeOK
<1>4. DisksOK'
  BY <1>1 DEF FddInv, DisksOK
<1>5. CASE /\ fddMotor' = d /\ fddSelect' = d /\ FddWithin(d)
           /\ fddOuter' = FddInterrupted(fddPc) /\ fddPc' = CallOf(d, c, fddMedia[d].id)
  <2>1. fddMedia[d].id \in Nat
    BY <1>1 DEF FddTypeOK
  <2>2. /\ fddPc' \in FddCall /\ fddPc' # FddIdle /\ OnDisk(fddPc')
        /\ fddPc'.drive = d /\ fddPc'.write = c.write /\ fddPc'.lba = c.lba
        /\ fddPc'.id = fddMedia[d].id /\ fddPc'.phase = "detect" /\ fddPc'.first = NoBlock
        /\ ~fddPc'.interrupted
    BY <1>5, <2>1, NewCall
  <2>3. /\ fddOuter' \in FddCall \cup {FddIdle} /\ OnDisk(fddOuter')
        /\ fddOuter'.drive = fddPc.drive
        /\ fddPc = FddIdle => fddOuter' = FddIdle
        /\ fddPc # FddIdle => fddOuter'.interrupted
    BY <1>5, Interrupting
  <2>4. /\ fddOuter = FddIdle
        /\ fddPc = FddIdle => fddMixed' = fddMixed
        /\ fddPc # FddIdle => fddMixed' = fddMixed \cup {d, fddPc.drive}
    BY <1>5 DEF FddWithin
  <2>5. fddMixed' \in SUBSET FddDrives
    BY <1>1, <2>4 DEF FddTypeOK, FddCall
  <2>6. FddTypeOK'
    BY <1>1, <1>2, <1>3, <1>5, <2>2, <2>3, <2>5 DEF FddTypeOK, FddBudget
  <2>7. StackOK'
    BY <1>5, <2>2, <2>3, <2>4 DEF StackOK
  <2>8. MotorOK'
    BY <1>1, <1>5, <2>2 DEF MotorOK
  <2>9. CacheOK'
    <3> SUFFICES ASSUME NEW e \in FddDrives \ fddMixed', ~fddLine[e], fddCache'[e] # NoBlock
                 PROVE  Holds(fddCache'[e], fddDisk[e])
      BY <1>1 DEF CacheOK, Holds
    <3>1. e \notin fddMixed /\ fddCache'[e] = fddCache[e]
      BY <1>3, <2>4
    <3>2. ~Drops(e)
      BY <2>4 DEF Drops, FddIdle
    <3> QED BY <3>1, <3>2 DEF FddInv, CacheOK
  <2>10. CallOK'
    BY <1>1, <1>3, <2>2 DEF CallOK, Works, Kept
  <2>11. WorkOK'
    BY <2>2 DEF WorkOK, Works
  <2>12. BoundsOK'
    BY <2>2, <2>3 DEF BoundsOK
  <2> QED BY <1>1, <1>4, <2>6, <2>7, <2>8, <2>9, <2>10, <2>11, <2>12 DEF FddInv, CacheIsFresh
<1>6. CASE /\ fddMotor # d /\ fddOuter = FddIdle
           /\ UNCHANGED <<fddMotor, fddSelect, fddPc, fddOuter, fddMixed>>
  <2>1. FddTypeOK'
    BY <1>1, <1>2, <1>3, <1>6 DEF FddTypeOK, FddBudget
  <2>2. StackOK' /\ MotorOK' /\ BoundsOK'
    BY <1>1, <1>6 DEF FddInv, StackOK, MotorOK, BoundsOK, OnDisk
  <2>3. (FddGone' <=> FddGone) /\ (Works' <=> Works) /\ (Alone' <=> Alone)
    BY <1>1, <1>6 DEF FddGone, Works, Alone
  <2>4. CacheOK'
    BY <1>1, <1>3, <1>6, <2>3 DEF FddInv, CacheOK, Drops, Holds
  <2>5. Alone => fddPc.drive \in FddDrives
    BY <1>1 DEF Alone, FddTypeOK, FddCall
  <2>6. Alone /\ Kept' # NoBlock => Kept' = Kept
    BY <1>3, <1>6, <2>5 DEF Kept
  <2>7. CallOK'
    BY <1>1, <1>6, <2>3, <2>6 DEF FddInv, CallOK
  <2>8. WorkOK'
    BY <1>1, <1>6, <2>3, <2>6 DEF FddInv, WorkOK, Holds
  <2> QED BY <1>1, <1>4, <2>1, <2>2, <2>4, <2>7, <2>8 DEF FddInv, CacheIsFresh
<1> QED BY <1>5, <1>6 DEF FddReadWriteBlocks, CallBegins, fddRun

LEMMA FdcResetKeeps == ASSUME FddInv, NEW d \in FddDrives, FdcReset(d) PROVE FddInv'
<1>1. /\ FddTypeOK /\ fddMotor' = NoDrive /\ fddSelect' = d /\ FddWithin(d)
      /\ fddPc' = FddInterrupted(fddPc)
      /\ UNCHANGED <<fddTimer, fddDisk, fddLine, fddHead, fddCyl, fddRecal, fddMedia, fddCache,
                     fddData, fddOuter, fddStale>>
  BY DEF FdcReset, FddInv, fddHeads
<1>2. fddLeft' \in FddBudget
  BY <1>1, CallsKeep DEF FdcReset, FddTypeOK, FddBudget
<1>3. /\ fddPc' \in FddCall \cup {FddIdle} /\ OnDisk(fddPc') /\ fddPc'.drive = fddPc.drive
      /\ fddPc = FddIdle => fddPc' = FddIdle
      /\ fddPc # FddIdle => fddPc' # FddIdle /\ fddPc'.interrupted
  BY <1>1, Interrupting
<1>4. /\ fddOuter = FddIdle
      /\ fddPc = FddIdle => fddMixed' = fddMixed
      /\ fddPc # FddIdle => fddMixed' = fddMixed \cup {d, fddPc.drive}
  BY <1>1 DEF FddWithin
<1>5. FddTypeOK'
  <2>1. fddMixed' \in SUBSET FddDrives
    BY <1>1, <1>4 DEF FddTypeOK, FddCall
  <2> QED BY <1>1, <1>2, <1>3, <2>1 DEF FddTypeOK, FddBudget
<1>6. DisksOK'
  BY <1>1 DEF FddInv, DisksOK
<1>7. ~FddIdle.interrupted
  BY DEF FddIdle
<1>8. StackOK' /\ MotorOK'
  BY <1>1, <1>3, <1>4, <1>7 DEF StackOK, MotorOK
<1>9. BoundsOK'
  BY <1>1, <1>3 DEF FddInv, BoundsOK, OnDisk
<1>10. CallOK' /\ WorkOK'
  BY <1>3, <1>4 DEF CallOK, WorkOK, Alone
<1>11. CacheOK'
  <2> SUFFICES ASSUME NEW e \in FddDrives \ fddMixed', ~fddLine[e], fddCache[e] # NoBlock
               PROVE  Holds(fddCache[e], fddDisk[e])
    BY <1>1 DEF CacheOK, Holds
  <2>1. e \notin fddMixed /\ ~Drops(e)
    BY <1>4 DEF Drops, FddIdle
  <2> QED BY <2>1 DEF FddInv, CacheOK
<1> QED BY <1>1, <1>5, <1>6, <1>8, <1>9, <1>10, <1>11 DEF FddInv, CacheIsFresh

-----------------------------------------------------------------------------
LEMMA FddStart == FddInit => FddInv
<1> SUFFICES ASSUME FddInit PROVE FddInv
  OBVIOUS
<1>1. FddTypeOK
  <2>1. fddCache \in [FddDrives -> FddBlock]
    BY Empty DEF FddInit
  <2>2. fddData \in [FddDisks -> [Cylinders -> Nat]]
    BY DEF FddInit
  <2>3. fddMedia \in [FddDrives -> [present : BOOLEAN, id : Nat, readonly : BOOLEAN]]
    BY DEF FddInit
  <2>4. fddHead \in [FddDrives -> Cylinders] /\ fddCyl \in [FddDrives -> Cylinders]
    BY DEF FddInit, Cylinders
  <2>5. fddLine \in [FddDrives -> BOOLEAN]
    BY DEF FddInit
  <2> QED BY <2>1, <2>2, <2>3, <2>4, <2>5, FddAssumption DEF FddInit, FddTypeOK
<1>2. DisksOK
  BY DEF FddInit, DisksOK
<1>3. StackOK /\ MotorOK /\ BoundsOK
  BY DEF FddInit, StackOK, MotorOK, BoundsOK, OnDisk, FddIdle
<1>4. CacheOK /\ CallOK /\ WorkOK /\ CacheIsFresh
  BY DEF FddInit, CacheOK, CallOK, WorkOK, Alone, CacheIsFresh
<1> QED BY <1>1, <1>2, <1>3, <1>4 DEF FddInv

LEMMA FddStays == ASSUME FddInv, [FddNext]_fddVars PROVE FddInv'
<1>1. CASE UNCHANGED fddVars
  <2>1. UNCHANGED <<fddMotor, fddSelect, fddTimer, fddDisk, fddLine, fddHead, fddCyl, fddRecal,
                    fddMedia, fddCache, fddData, fddPc, fddOuter, fddMixed, fddLeft, fddStale>>
    BY <1>1 DEF fddVars, fddDrive, fddHeads, fddRun
  <2> QED BY <2>1 DEF FddInv, FddTypeOK, DisksOK, StackOK, MotorOK, BoundsOK, OnDisk, CacheOK,
                      CallOK, WorkOK, CacheIsFresh, Alone, Works, Drops, FddGone, Holds, Kept
<1>2. CASE DetectMedia
  BY <1>2, NoChangeKeeps, DetectFailsKeeps, DisketChangedKeeps DEF DetectMedia
<1> QED
  BY <1>1, <1>2, ChangeDiskKeeps, FddTimerProcKeeps, FddReadWriteBlocksKeeps, ReinstallKeeps,
     CheckCallKeeps, TransferBlockKeeps, TransferFailsKeeps, EndTransferKeeps, FdcResetKeeps
     DEF FddNext

LEMMA FddAlways == FddSpec => []FddInv
BY FddStart, FddStays, PTL DEF FddSpec

(* The invariant holds what is promised.                                   *)
LEMMA FddSuffices == FddInv => FddTypeOK /\ FloppySound
<1>1. ASSUME FddInv PROVE MotorHasOwner
  <2>1. fddPc = FddIdle => fddOuter = FddIdle
    BY <1>1 DEF FddInv, StackOK
  <2> QED BY <1>1, <2>1 DEF FddInv, MotorOK, MotorHasOwner, FddIdle
<1> QED BY <1>1 DEF FddInv, FloppySound

(* Every variable of the driver keeps its type, for any drives, disks,     *)
(* calls and budgets.                                                      *)
THEOREM FddTypeCorrect == FddSpec => []FddTypeOK
BY FddAlways, FddSuffices, PTL

(* A read that the cache answers gets what is on the disk in the drive and *)
(* no motor stops under a call, but where calls were made in the middle of *)
(* others; in no case does a motor run for ever.                           *)
THEOREM FloppyCorrect == FddSpec => []FloppySound
BY FddAlways, FddSuffices, PTL

-----------------------------------------------------------------------------
(***************************************************************************)
(* IsaSerial: BytesInOrder, for FIFOs of every length and any number of    *)
(* calls, timeouts and faults.  The bytes are in five places, three on the *)
(* way to the readers and two on the way to the wire.  A step moves a byte *)
(* one place on, or loses it, or adds one behind all others, or puts bytes *)
(* of Transmit behind those of Receive when the driver loops back.  What   *)
(* makes that safe is that a byte in Transmit is newer than all that are   *)
(* on the way to the readers.                                              *)
(***************************************************************************)

(* Nobody raises RTS together with flow control: whether there is room in  *)
(* Receive is not looked at by SetControl.                                 *)
RtsLeftAlone == \A control \in SerControls : ~({"flow", "rts"} \subseteq control)

SerSeqs ==
    /\ serIn \in Seq([byte : Int, bad : BOOLEAN])
    /\ serRead \in Seq(Int) /\ serRx \in Seq(Int) /\ Pending \in Seq(Int)
    /\ serWire \in Seq(Int) /\ serTx \in Seq(Int)
    /\ serCame \in Nat /\ serNew \in Nat
    /\ serRts \in BOOLEAN /\ serLossy \in BOOLEAN /\ serFlow \in BOOLEAN /\ serLoop \in BOOLEAN
    /\ Len(serRx) <= SerFifoMax /\ Len(serTx) <= SerFifoMax

(* The bytes that came or were written so far, and those in a FIFO, in the *)
(* UART or with the readers.                                               *)
Given == (- serCame .. -1) \cup (1 .. serNew)
Coming == ToSet(serRead) \cup ToSet(serRx) \cup ToSet(Pending)

(* What is in S comes before what is in T.                                 *)
Before(S, T) == \A a \in S, b \in T : /\ a > 0 /\ b > 0 => a < b
                                      /\ a < 0 /\ b < 0 => b < a

PlacesOK ==
    /\ OldestFirst(serRead) /\ OldestFirst(serRx) /\ OldestFirst(Pending)
    /\ OldestFirst(serWire) /\ OldestFirst(serTx)
AlongOK ==
    /\ Before(ToSet(serRead), ToSet(serRx))
    /\ Before(ToSet(serRead), ToSet(Pending))
    /\ Before(ToSet(serRx), ToSet(Pending))
    /\ Before(ToSet(serWire), ToSet(serTx))
GivenOK ==
    /\ Coming \subseteq Given
    /\ ToSet(Pending) \subseteq - serCame .. -1
    /\ ToSet(serWire) \cup ToSet(serTx) \subseteq 1 .. serNew
NewerOK == \A a \in Coming, b \in ToSet(serTx) : a < b
ApartOK == Coming \cap ToSet(serWire) = {}
WholeOK == ~serLossy => Given \subseteq Coming \cup ToSet(serWire) \cup ToSet(serTx)
BytesOK == PlacesOK /\ AlongOK /\ GivenOK /\ NewerOK /\ ApartOK /\ WholeOK

SerInv == SerSeqs /\ BytesOK

-----------------------------------------------------------------------------
(* The elements of a sequence, and their order, when sequences are joined, *)
(* split, made longer or lose their head.                                  *)
LEMMA Elements ==
    ASSUME NEW s \in Seq(Int)
    PROVE  /\ Len(s) \in Nat /\ DOMAIN s = 1 .. Len(s) /\ ToSet(s) \subseteq Int
           /\ \A i \in 1 .. Len(s) : s[i] \in ToSet(s)
           /\ \A a \in ToSet(s) : \E i \in 1 .. Len(s) : a = s[i]
  BY DEF ToSet

LEMMA Nothing == << >> \in Seq(Int) /\ Len(<< >>) = 0 /\ ToSet(<< >>) = {} /\ OldestFirst(<< >>)
  BY DEF ToSet, OldestFirst

LEMMA Joined ==
    ASSUME NEW s \in Seq(Int), NEW t \in Seq(Int)
    PROVE  /\ s \o t \in Seq(Int) /\ Len(s \o t) = Len(s) + Len(t)
           /\ ToSet(s \o t) = ToSet(s) \cup ToSet(t)
           /\ OldestFirst(s) /\ OldestFirst(t) /\ Before(ToSet(s), ToSet(t)) => OldestFirst(s \o t)
<1>1. /\ s \o t \in Seq(Int) /\ Len(s \o t) = Len(s) + Len(t)
      /\ Len(s) \in Nat /\ Len(t) \in Nat
      /\ DOMAIN (s \o t) = 1 .. Len(s) + Len(t) /\ DOMAIN s = 1 .. Len(s) /\ DOMAIN t = 1 .. Len(t)
      /\ \A i \in 1 .. Len(s) : (s \o t)[i] = s[i]
      /\ \A i \in Len(s) + 1 .. Len(s) + Len(t) : (s \o t)[i] = t[i - Len(s)] /\ i - Len(s) \in 1 .. Len(t)
      /\ \A i \in 1 .. Len(t) : Len(s) + i \in 1 .. Len(s) + Len(t) /\ (s \o t)[Len(s) + i] = t[i]
  OBVIOUS
<1> DEFINE u == s \o t
           n == Len(s)
           m == Len(t)
<1> HIDE DEF u, n, m
<1>2. /\ u \in Seq(Int) /\ n \in Nat /\ m \in Nat
      /\ DOMAIN u = 1 .. n + m /\ DOMAIN s = 1 .. n /\ DOMAIN t = 1 .. m
      /\ \A i \in 1 .. n : u[i] = s[i]
      /\ \A i \in n + 1 .. n + m : u[i] = t[i - n] /\ i - n \in 1 .. m
      /\ \A i \in 1 .. m : n + i \in 1 .. n + m /\ u[n + i] = t[i]
      /\ \A i \in 1 .. n + m : i \in 1 .. n \/ i \in n + 1 .. n + m
  BY <1>1 DEF u, n, m
<1>3. ToSet(u) = ToSet(s) \cup ToSet(t)
  <2>1. ToSet(u) \subseteq ToSet(s) \cup ToSet(t)
    BY <1>2 DEF ToSet
  <2>2. ToSet(s) \subseteq ToSet(u)
    <3>1. \A i \in 1 .. n : i \in 1 .. n + m
      BY <1>2
    <3> QED BY <1>2, <3>1 DEF ToSet
  <2>3. ToSet(t) \subseteq ToSet(u)
    <3>1. \A i \in 1 .. m : n + i \in DOMAIN u /\ u[n + i] = t[i]
      BY <1>2
    <3> SUFFICES ASSUME NEW a \in ToSet(t) PROVE a \in ToSet(u)
      OBVIOUS
    <3>2. PICK i \in 1 .. m : a = t[i]
      BY <1>2 DEF ToSet
    <3>3. PICK j : j = n + i
      OBVIOUS
    <3> QED BY <3>1, <3>2, <3>3 DEF ToSet
  <2> QED BY <2>1, <2>2, <2>3
<1>4. ASSUME OldestFirst(s), OldestFirst(t), Before(ToSet(s), ToSet(t)) PROVE OldestFirst(u)
  <2> SUFFICES ASSUME NEW i \in 1 .. n + m, NEW j \in 1 .. n + m, i < j
               PROVE  /\ u[i] > 0 /\ u[j] > 0 => u[i] < u[j]
                      /\ u[i] < 0 /\ u[j] < 0 => u[j] < u[i]
    BY <1>2 DEF OldestFirst
  <2>1. CASE j \in 1 .. n
    <3>1. i \in 1 .. n
      BY <1>2, <2>1
    <3> QED BY <1>2, <1>4, <2>1, <3>1 DEF OldestFirst
  <2>2. CASE j \in n + 1 .. n + m
    <3>1. u[j] = t[j - n] /\ j - n \in 1 .. m /\ t[j - n] \in ToSet(t)
      BY <1>2, <2>2 DEF ToSet
    <3>2. CASE i \in 1 .. n
      <4>1. u[i] = s[i] /\ s[i] \in ToSet(s)
        BY <1>2, <3>2 DEF ToSet
      <4> QED BY <1>4, <3>1, <4>1 DEF Before
    <3>3. CASE i \in n + 1 .. n + m
      <4>1. u[i] = t[i - n] /\ i - n \in 1 .. m /\ i - n < j - n
        BY <1>2, <3>3
      <4> QED BY <1>2, <1>4, <3>1, <4>1 DEF OldestFirst
    <3> QED BY <1>2, <3>2, <3>3
  <2> QED BY <1>2, <2>1, <2>2
<1> QED BY <1>1, <1>3, <1>4 DEF u

LEMMA Longer ==
    ASSUME NEW s \in Seq(Int), NEW b \in Int
    PROVE  /\ Append(s, b) \in Seq(Int) /\ Len(Append(s, b)) = Len(s) + 1
           /\ ToSet(Append(s, b)) = ToSet(s) \cup {b}
           /\ OldestFirst(s) /\ Before(ToSet(s), {b}) => OldestFirst(Append(s, b))
<1>1. Append(s, b) = s \o << b >> /\ << b >> \in Seq(Int) /\ Len(<< b >>) = 1
  BY AppendIsConcat
<1>2. ToSet(<< b >>) = {b} /\ OldestFirst(<< b >>)
  BY DEF ToSet, OldestFirst
<1> QED BY <1>1, <1>2, Joined

LEMMA Split ==
    ASSUME NEW s \in Seq(Int), NEW k \in 0 .. Len(s), OldestFirst(s)
    PROVE  /\ SubSeq(s, 1, k) \in Seq(Int) /\ Len(SubSeq(s, 1, k)) = k
           /\ SubSeq(s, k + 1, Len(s)) \in Seq(Int) /\ Len(SubSeq(s, k + 1, Len(s))) = Len(s) - k
           /\ ToSet(s) = ToSet(SubSeq(s, 1, k)) \cup ToSet(SubSeq(s, k + 1, Len(s)))
           /\ Before(ToSet(SubSeq(s, 1, k)), ToSet(SubSeq(s, k + 1, Len(s))))
           /\ OldestFirst(SubSeq(s, 1, k)) /\ OldestFirst(SubSeq(s, k + 1, Len(s)))
<1> DEFINE p == SubSeq(s, 1, k)
           q == SubSeq(s, k + 1, Len(s))
           n == Len(s)
<1>1. /\ n \in Nat /\ k \in 0 .. n /\ DOMAIN s = 1 .. n
      /\ p \in Seq(Int) /\ Len(p) = k /\ DOMAIN p = 1 .. k /\ \A i \in 1 .. k : p[i] = s[i]
      /\ q \in Seq(Int) /\ Len(q) = n - k /\ DOMAIN q = 1 .. n - k
      /\ \A i \in 1 .. n - k : q[i] = s[k + i]
  OBVIOUS
<1> HIDE DEF p, q, n
<1>2. /\ \A i \in 1 .. k : i \in 1 .. n
      /\ \A i \in 1 .. n - k : k + i \in 1 .. n /\ \A j \in 1 .. k : j < k + i
      /\ \A i \in 1 .. n : i \in 1 .. k \/ (i - k \in 1 .. n - k /\ k + (i - k) = i)
      /\ \A i, j \in 1 .. n - k : i < j => k + i < k + j
  BY <1>1
<1>3. ToSet(s) \subseteq ToSet(p) \cup ToSet(q)
  <2>0. ToSet(s) = {s[i] : i \in 1 .. n}
    BY <1>1, Zenon DEF ToSet
  <2> SUFFICES ASSUME NEW i \in 1 .. n PROVE s[i] \in ToSet(p) \cup ToSet(q)
    BY <2>0, Zenon
  <2>1. CASE i \in 1 .. k
    BY <1>1, <2>1 DEF ToSet
  <2>2. CASE i - k \in 1 .. n - k /\ k + (i - k) = i
    <3>1. q[i - k] = s[i] /\ i - k \in DOMAIN q
      BY <1>1, <2>2
    <3> QED BY <3>1 DEF ToSet
  <2> QED BY <1>2, <2>1, <2>2
<1>4. ToSet(p) \cup ToSet(q) \subseteq ToSet(s)
  <2>1. \A i \in 1 .. k : p[i] = s[i] /\ i \in DOMAIN s
    BY <1>1, <1>2
  <2>2. \A i \in 1 .. n - k : q[i] = s[k + i] /\ k + i \in DOMAIN s
    BY <1>1, <1>2
  <2>3. ToSet(p) \subseteq ToSet(s)
    BY <1>1, <2>1 DEF ToSet
  <2>4. ASSUME NEW a \in ToSet(q) PROVE a \in ToSet(s)
    <3>1. PICK i \in 1 .. n - k : a = q[i]
      BY <1>1, <2>4 DEF ToSet
    <3>2. PICK j : j = k + i
      OBVIOUS
    <3> QED BY <2>2, <3>1, <3>2 DEF ToSet
  <2> QED BY <2>3, <2>4
<1>5. Before(ToSet(p), ToSet(q))
  <2> SUFFICES ASSUME NEW a \in ToSet(p), NEW b \in ToSet(q)
               PROVE  (a > 0 /\ b > 0 => a < b) /\ (a < 0 /\ b < 0 => b < a)
    BY DEF Before
  <2>1. PICK i \in 1 .. k : a = p[i]
    BY <1>1 DEF ToSet
  <2>2. PICK j \in 1 .. n - k : b = q[j]
    BY <1>1 DEF ToSet
  <2>3. p[i] = s[i] /\ q[j] = s[k + j] /\ i \in DOMAIN s /\ k + j \in DOMAIN s /\ i < k + j
    BY <1>1, <1>2
  <2> QED BY <2>1, <2>2, <2>3 DEF OldestFirst
<1>6. OldestFirst(p)
  BY <1>1, <1>2 DEF OldestFirst
<1>7. OldestFirst(q)
  <2> SUFFICES ASSUME NEW i \in 1 .. n - k, NEW j \in 1 .. n - k, i < j
               PROVE  /\ q[i] > 0 /\ q[j] > 0 => q[i] < q[j]
                      /\ q[i] < 0 /\ q[j] < 0 => q[j] < q[i]
    BY <1>1 DEF OldestFirst
  <2>1. q[i] = s[k + i] /\ q[j] = s[k + j] /\ k + i \in DOMAIN s /\ k + j \in DOMAIN s /\ k + i < k + j
    BY <1>1, <1>2
  <2> QED BY <2>1 DEF OldestFirst
<1> QED BY <1>1, <1>3, <1>4, <1>5, <1>6, <1>7 DEF p, q, n

LEMMA Tailed ==
    ASSUME NEW s \in Seq(Int), s # << >>, OldestFirst(s)
    PROVE  /\ Head(s) \in Int /\ Tail(s) \in Seq(Int) /\ Len(Tail(s)) = Len(s) - 1
           /\ ToSet(s) = {Head(s)} \cup ToSet(Tail(s))
           /\ Before({Head(s)}, ToSet(Tail(s))) /\ OldestFirst(Tail(s))
<1>1. /\ Len(s) \in Nat \ {0} /\ 1 \in 0 .. Len(s) /\ 1 \in 1 .. Len(s)
      /\ Head(s) \in Int /\ Tail(s) \in Seq(Int) /\ Len(Tail(s)) = Len(s) - 1
  BY EmptySeq, HeadTailProperties
<1>2. PICK p : p = SubSeq(s, 1, 1)
  OBVIOUS
<1>3. PICK q : q = SubSeq(s, 2, Len(s))
  OBVIOUS
<1>4. q = Tail(s)
  BY <1>3, TailIsSubSeq
<1>5. /\ p \in Seq(Int) /\ Len(p) = 1 /\ OldestFirst(q)
      /\ ToSet(s) = ToSet(p) \cup ToSet(q) /\ Before(ToSet(p), ToSet(q))
  <2>1. SubSeq(s, 1 + 1, Len(s)) = q
    BY <1>3
  <2> QED BY <1>1, <1>2, <2>1, Split
<1>6. Head(p) = s[1] /\ Head(p) = p[1] /\ Head(s) = s[1]
  <2>1. Head(p) = s[1]
    BY <1>1, <1>2, HeadTailOfSubSeq
  <2> QED BY <2>1
<1>7. ToSet(p) = {Head(s)}
  BY <1>5, <1>6 DEF ToSet
<1> QED BY <1>1, <1>4, <1>5, <1>7

(* The bytes in the UART.                                                  *)
LEMMA PendingBytes ==
    ASSUME NEW s \in Seq([byte : Int, bad : BOOLEAN])
    PROVE  [i \in DOMAIN s |-> s[i].byte] \in Seq(Int)
<1>1. Len(s) \in Nat /\ DOMAIN s = 1 .. Len(s)
      /\ \A i \in 1 .. Len(s) : s[i] \in [byte : Int, bad : BOOLEAN]
  BY ElementOfSeq, LenProperties
<1>2. \A i \in 1 .. Len(s) : s[i].byte \in Int
  BY <1>1
<1> QED BY <1>1, <1>2
LEMMA PendingTail ==
    ASSUME NEW s \in Seq([byte : Int, bad : BOOLEAN]), s # << >>
    PROVE  /\ [i \in DOMAIN s |-> s[i].byte] # << >>
           /\ Head([i \in DOMAIN s |-> s[i].byte]) = Head(s).byte
           /\ Tail([i \in DOMAIN s |-> s[i].byte]) = [i \in DOMAIN Tail(s) |-> Tail(s)[i].byte]
<1>1. PICK p : p = [i \in DOMAIN s |-> s[i].byte]
  OBVIOUS
<1>2. PICK q : q = [i \in DOMAIN Tail(s) |-> Tail(s)[i].byte]
  OBVIOUS
<1>3. /\ Len(s) \in Nat \ {0} /\ DOMAIN s = 1 .. Len(s)
      /\ Tail(s) \in Seq([byte : Int, bad : BOOLEAN]) /\ Len(Tail(s)) = Len(s) - 1
      /\ \A i \in 1 .. Len(s) - 1 : Tail(s)[i] = s[i + 1]
      /\ DOMAIN Tail(s) = 1 .. Len(s) - 1
  BY EmptySeq, LenProperties, HeadTailProperties
<1>4. p \in Seq(Int) /\ DOMAIN p = 1 .. Len(s) /\ q \in Seq(Int) /\ DOMAIN q = 1 .. Len(s) - 1
  BY <1>1, <1>2, <1>3, PendingBytes
<1>5. Len(p) = Len(s) /\ Len(q) = Len(s) - 1 /\ p # << >>
  <2>1. Len(p) \in Nat /\ DOMAIN p = 1 .. Len(p) /\ Len(q) \in Nat /\ DOMAIN q = 1 .. Len(q)
    BY <1>4, LenProperties
  <2>2. Len(p) = Len(s) /\ Len(q) = Len(s) - 1
    <3>1. \A m, n \in Nat : 1 .. m = 1 .. n => m = n
      <4> SUFFICES ASSUME NEW m \in Nat, NEW n \in Nat, 1 .. m = 1 .. n, m < n PROVE FALSE
        OBVIOUS
      <4>1. n \in 1 .. n /\ n \notin 1 .. m
        OBVIOUS
      <4> QED BY <4>1
    <3>2. 1 .. Len(p) = 1 .. Len(s) /\ 1 .. Len(q) = 1 .. Len(s) - 1 /\ Len(s) - 1 \in Nat
      <4>1. 1 .. Len(p) = 1 .. Len(s)
        BY <1>4, <2>1
      <4>2. 1 .. Len(q) = 1 .. Len(s) - 1
        BY <1>4, <2>1
      <4>3. Len(s) - 1 \in Nat
        BY <1>3
      <4> QED BY <4>1, <4>2, <4>3
    <3> QED BY <1>3, <2>1, <3>1, <3>2
  <2>3. Len(p) # 0
    BY <1>3, <2>2
  <2> QED BY <2>2, <2>3, EmptySeq
<1>6. Head(p) = Head(s).byte
  <2>1. Head(p) = p[1] /\ 1 \in DOMAIN s
    BY <1>3, <1>4, <1>5
  <2>2. Head(s) = s[1]
    OBVIOUS
  <2> QED BY <1>1, <2>1, <2>2
<1>7. /\ Tail(p) \in Seq(Int) /\ Len(Tail(p)) = Len(s) - 1
      /\ \A i \in 1 .. Len(s) - 1 : Tail(p)[i] = p[i + 1]
  BY <1>4, <1>5, HeadTailProperties
<1>8. \A i \in 1 .. Len(s) - 1 : Tail(p)[i] = q[i]
  <2> TAKE i \in 1 .. Len(s) - 1
  <2>1. i + 1 \in DOMAIN s
    BY <1>3
  <2> QED BY <1>1, <1>2, <1>3, <1>7, <2>1
<1>9. Tail(p) = q
  BY <1>4, <1>5, <1>7, <1>8, SeqEqual
<1> QED BY <1>1, <1>2, <1>5, <1>6, <1>9
LEMMA PendingLonger ==
    ASSUME NEW s \in Seq([byte : Int, bad : BOOLEAN]), NEW e \in [byte : Int, bad : BOOLEAN]
    PROVE  [i \in DOMAIN Append(s, e) |-> Append(s, e)[i].byte]
             = Append([i \in DOMAIN s |-> s[i].byte], e.byte)
<1> DEFINE p == [i \in DOMAIN s |-> s[i].byte]
<1>1. Len(s) \in Nat /\ DOMAIN s = 1 .. Len(s) /\ p \in Seq(Int) /\ e.byte \in Int
  BY PendingBytes, LenProperties
<1>2. Len(p) = Len(s)
  BY <1>1
<1>3. DOMAIN Append(s, e) = 1 .. Len(s) + 1
      /\ \A i \in 1 .. Len(s) + 1 : Append(s, e)[i] = (IF i = Len(s) + 1 THEN e ELSE s[i])
  BY <1>1, AppendProperties
<1>4. DOMAIN Append(p, e.byte) = 1 .. Len(s) + 1
      /\ \A i \in 1 .. Len(s) + 1 : Append(p, e.byte)[i] = (IF i = Len(s) + 1 THEN e.byte ELSE p[i])
      /\ Append(p, e.byte) \in Seq(Int)
  BY <1>1, <1>2, AppendProperties
<1>5. \A i \in 1 .. Len(s) + 1 : Append(s, e)[i].byte = Append(p, e.byte)[i]
  <2> TAKE i \in 1 .. Len(s) + 1
  <2>1. i # Len(s) + 1 => i \in 1 .. Len(s)
    BY <1>1
  <2> QED BY <1>1, <1>3, <1>4, <2>1
<1>6. Append(p, e.byte) = [i \in 1 .. Len(s) + 1 |-> Append(p, e.byte)[i]]
  BY <1>4
<1> QED BY <1>3, <1>5, <1>6

-----------------------------------------------------------------------------
(* The steps.  Most of them move no byte.                                  *)
LEMMA NoByteMoves ==
    ASSUME SerInv, serRts' \in BOOLEAN, serFlow' \in BOOLEAN, serLoop' \in BOOLEAN,
           UNCHANGED << serIn, serRead, serRx, serWire, serTx, serCame, serNew, serLossy >>
    PROVE  SerInv'
<1>1. Pending' = Pending
  BY DEF Pending
<1>2. SerSeqs'
  BY <1>1 DEF SerInv, SerSeqs
<1>3. BytesOK'
  BY <1>1 DEF SerInv, BytesOK, PlacesOK, AlongOK, GivenOK, NewerOK, ApartOK, WholeOK, Coming, Given,
              OldestFirst, Before
<1> QED BY <1>2, <1>3 DEF SerInv

LEMMA ByteComesKeeps ==
    ASSUME SerInv, ByteComes PROVE SerInv'
<1>1. PICK bad \in BOOLEAN :
          /\ serCame' = serCame + 1
          /\ IF Len(serIn) < SerUartMax
             THEN /\ serIn' = Append(serIn, [byte |-> - serCame', bad |-> bad])
                  /\ UNCHANGED serLossy
             ELSE serLossy' = TRUE /\ UNCHANGED serIn
  BY DEF ByteComes
<1>2. UNCHANGED << serRead, serRx, serWire, serTx, serNew, serRts, serFlow, serLoop >>
  BY DEF ByteComes, serDev
<1>3. serCame \in Nat /\ serCame' = serCame + 1 /\ - serCame' \in Int /\ serNew \in Nat
  BY <1>1 DEF SerInv, SerSeqs
<1>4. Given' = Given \cup {- serCame'} /\ - serCame' .. -1 = (- serCame .. -1) \cup {- serCame'}
  BY <1>2, <1>3 DEF Given
<1>5. CASE Len(serIn) < SerUartMax
  <2>1. PICK e : e = [byte |-> - serCame', bad |-> bad]
    OBVIOUS
  <2>2. e \in [byte : Int, bad : BOOLEAN] /\ e.byte = - serCame' /\ serIn' = Append(serIn, e)
        /\ serLossy' = serLossy
    BY <1>1, <1>3, <1>5, <2>1
  <2>3. Pending' = Append(Pending, - serCame')
    BY <2>2, PendingLonger DEF Pending, SerInv, SerSeqs
  <2>4. \A a \in ToSet(Pending) : a < 0 /\ - serCame' < a /\ a \in Int
    BY <1>3 DEF SerInv, BytesOK, GivenOK
  <2>5. /\ Pending' \in Seq(Int) /\ OldestFirst(Pending)'
        /\ ToSet(Pending)' = ToSet(Pending) \cup {- serCame'}
    <3>1. Before(ToSet(Pending), {- serCame'})
      BY <1>3, <2>4 DEF Before
    <3>2. Pending \in Seq(Int) /\ OldestFirst(Pending)
      BY DEF SerInv, SerSeqs, BytesOK, PlacesOK
    <3> QED BY <1>3, <2>3, <3>1, <3>2, Longer
  <2>6. SerSeqs'
    BY <1>2, <1>3, <2>2, <2>5, AppendProperties DEF SerInv, SerSeqs
  <2>7. Coming' = Coming \cup {- serCame'}
    BY <1>2, <2>5 DEF Coming
  <2>8. PlacesOK' /\ GivenOK'
    BY <1>2, <1>4, <2>5, <2>7 DEF SerInv, BytesOK, PlacesOK, GivenOK
  <2>9. AlongOK'
    <3>1. \A a \in Coming : a \in Int /\ - serCame' < a
      BY <1>3 DEF SerInv, BytesOK, GivenOK, Given
    <3>2. \A a \in ToSet(serRead) \cup ToSet(serRx) : a \in Int /\ - serCame' < a
      BY <3>1 DEF Coming
    <3> QED BY <1>2, <1>3, <2>5, <3>2 DEF SerInv, BytesOK, AlongOK, Before
  <2>10. NewerOK' /\ ApartOK'
    <3>1. \A b \in ToSet(serTx) \cup ToSet(serWire) : b \in Int /\ b > 0
      BY <1>3 DEF SerInv, BytesOK, GivenOK
    <3>2. - serCame' < 0
      BY <1>3
    <3> QED BY <1>2, <1>3, <2>7, <3>1, <3>2 DEF SerInv, BytesOK, NewerOK, ApartOK
  <2>11. WholeOK'
    BY <1>2, <1>4, <2>2, <2>7 DEF SerInv, BytesOK, WholeOK
  <2> QED BY <2>6, <2>8, <2>9, <2>10, <2>11 DEF SerInv, BytesOK
<1>6. CASE ~(Len(serIn) < SerUartMax)
  <2>1. serLossy' = TRUE /\ serIn' = serIn /\ Pending' = Pending
    BY <1>1, <1>6 DEF Pending
  <2>2. SerSeqs'
    BY <1>2, <1>3, <2>1 DEF SerInv, SerSeqs
  <2>3. GivenOK'
    BY <1>2, <1>4, <2>1 DEF SerInv, BytesOK, GivenOK, Coming
  <2>4. PlacesOK' /\ AlongOK' /\ NewerOK' /\ ApartOK' /\ WholeOK'
    BY <1>2, <2>1 DEF SerInv, BytesOK, PlacesOK, AlongOK, NewerOK, ApartOK, WholeOK, Coming
  <2> QED BY <2>2, <2>3, <2>4 DEF SerInv, BytesOK
<1> QED BY <1>5, <1>6

(* What is in a place is still of the kind that place holds when bytes are *)
(* taken away, and no byte is promised any more.                           *)
LEMMA BytesLost ==
    ASSUME SerInv, SerSeqs', serLossy', UNCHANGED << serCame, serNew, serWire, serRead >>,
           OldestFirst(serRx)', OldestFirst(Pending)', OldestFirst(serTx)',
           ToSet(serRx)' \subseteq ToSet(serRx), ToSet(Pending)' \subseteq ToSet(Pending),
           ToSet(serTx)' \subseteq ToSet(serTx)
    PROVE  SerInv'
<1>1. Coming' \subseteq Coming /\ Given' = Given
  BY DEF Coming, Given
<1>2. PlacesOK' /\ GivenOK' /\ ApartOK' /\ WholeOK'
  BY <1>1 DEF SerInv, BytesOK, PlacesOK, GivenOK, ApartOK, WholeOK
<1>3. AlongOK' /\ NewerOK'
  BY <1>1 DEF SerInv, BytesOK, AlongOK, NewerOK, Before
<1> QED BY <1>2, <1>3 DEF SerInv, BytesOK

LEMMA UartHead ==
    ASSUME SerInv, serIn # << >>, serIn' = Tail(serIn)
    PROVE  /\ serIn' \in Seq([byte : Int, bad : BOOLEAN])
           /\ Head(serIn).byte \in Int /\ Pending' \in Seq(Int) /\ OldestFirst(Pending)'
           /\ ToSet(Pending) = {Head(serIn).byte} \cup ToSet(Pending)'
           /\ Before({Head(serIn).byte}, ToSet(Pending)')
<1>1. serIn \in Seq([byte : Int, bad : BOOLEAN]) /\ Pending \in Seq(Int) /\ OldestFirst(Pending)
  BY DEF SerInv, SerSeqs, BytesOK, PlacesOK
<1>2. Pending # << >> /\ Head(Pending) = Head(serIn).byte /\ Pending' = Tail(Pending)
  BY <1>1, PendingTail DEF Pending
<1> QED BY <1>1, <1>2, Tailed, HeadTailProperties

LEMMA TakeByteKeeps ==
    ASSUME SerInv, TakeByte PROVE SerInv'
<1>1. /\ serIn # << >> /\ serIn' = Tail(serIn) /\ Len(serRx) < SerFifoMax
      /\ UNCHANGED << serTx, serFlow, serLoop, serCame, serNew, serRead, serWire >>
  BY DEF TakeByte, TakesByte
<1>2. /\ serRead \in Seq(Int) /\ serRx \in Seq(Int) /\ serWire \in Seq(Int) /\ serTx \in Seq(Int)
      /\ OldestFirst(serRx) /\ OldestFirst(serTx) /\ Len(serRx) \in Nat /\ SerFifoMax \in Nat
  BY SerAssumption DEF SerInv, SerSeqs, BytesOK, PlacesOK
<1>3. CASE Head(serIn).bad
  <2>1. serLossy' = TRUE /\ UNCHANGED << serRx, serRts >>
    BY <1>3 DEF TakeByte
  <2>2. SerSeqs'
    BY <1>1, <2>1, UartHead DEF SerInv, SerSeqs
  <2>3. ToSet(Pending)' \subseteq ToSet(Pending) /\ OldestFirst(Pending)'
    BY <1>1, UartHead
  <2> QED BY <1>1, <1>2, <2>1, <2>2, <2>3, BytesLost
<1>4. CASE ~Head(serIn).bad
  <2>1. PICK b : b = Head(serIn).byte
    OBVIOUS
  <2>2. serRx' = Append(serRx, b) /\ serRts' \in BOOLEAN /\ UNCHANGED serLossy
    BY <1>4, <2>1 DEF TakeByte, SerInv, SerSeqs
  <2>3. /\ b \in Int /\ Pending' \in Seq(Int) /\ OldestFirst(Pending)'
        /\ ToSet(Pending) = {b} \cup ToSet(Pending)' /\ Before({b}, ToSet(Pending)')
        /\ serIn' \in Seq([byte : Int, bad : BOOLEAN])
    BY <1>1, <2>1, UartHead
  <2>4. Before(ToSet(serRx), {b}) /\ Before(ToSet(serRead), {b})
    BY <2>3 DEF SerInv, BytesOK, AlongOK, Before
  <2>5. /\ serRx' \in Seq(Int) /\ Len(serRx') = Len(serRx) + 1
        /\ ToSet(serRx)' = ToSet(serRx) \cup {b} /\ OldestFirst(serRx)'
    BY <1>2, <2>2, <2>3, <2>4, Longer
  <2>6. Len(serRx') <= SerFifoMax
    BY <1>1, <1>2, <2>5
  <2>7. SerSeqs'
    BY <1>1, <2>2, <2>3, <2>5, <2>6 DEF SerInv, SerSeqs
  <2>8. Coming' = Coming
    BY <1>1, <2>3, <2>5 DEF Coming
  <2>9. AlongOK'
    BY <1>1, <2>3, <2>4, <2>5 DEF SerInv, BytesOK, AlongOK, Before
  <2>10. PlacesOK' /\ GivenOK' /\ NewerOK' /\ ApartOK' /\ WholeOK'
    BY <1>1, <2>2, <2>3, <2>5, <2>8
       DEF SerInv, BytesOK, PlacesOK, GivenOK, NewerOK, ApartOK, WholeOK, Given
  <2> QED BY <2>7, <2>9, <2>10 DEF SerInv, BytesOK
<1> QED BY <1>3, <1>4

LEMMA SendByteKeeps ==
    ASSUME SerInv, SendByte PROVE SerInv'
<1>1. /\ serTx # << >>
      /\ UNCHANGED << serIn, serRts, serRx, serFlow, serLoop, serCame, serNew, serRead, serLossy >>
      /\ \/ serWire' = Append(serWire, Head(serTx)) /\ serTx' = Tail(serTx)
         \/ UNCHANGED << serWire, serTx >>
  BY DEF SendByte
<1>2. CASE UNCHANGED << serWire, serTx >>
  BY <1>1, <1>2, NoByteMoves DEF SerInv, SerSeqs
<1>3. CASE serWire' = Append(serWire, Head(serTx)) /\ serTx' = Tail(serTx)
  <2>1. PICK b : b = Head(serTx)
    OBVIOUS
  <2>2. serWire \in Seq(Int) /\ serTx \in Seq(Int) /\ OldestFirst(serWire) /\ OldestFirst(serTx)
        /\ Len(serTx) \in Nat /\ SerFifoMax \in Nat /\ Len(serTx) <= SerFifoMax
    BY SerAssumption DEF SerInv, SerSeqs, BytesOK, PlacesOK
  <2>3. /\ b \in Int /\ serTx' \in Seq(Int) /\ Len(serTx') = Len(serTx) - 1 /\ OldestFirst(serTx)'
        /\ ToSet(serTx) = {b} \cup ToSet(serTx)' /\ Before({b}, ToSet(serTx)')
    BY <1>1, <1>3, <2>1, <2>2, Tailed
  <2>4. Before(ToSet(serWire), {b})
    BY <2>3 DEF SerInv, BytesOK, AlongOK, Before
  <2>5. serWire' \in Seq(Int) /\ ToSet(serWire)' = ToSet(serWire) \cup {b} /\ OldestFirst(serWire)'
    BY <1>3, <2>1, <2>2, <2>3, <2>4, Longer
  <2>6. Pending' = Pending /\ Coming' = Coming /\ Given' = Given
    BY <1>1 DEF Pending, Coming, Given
  <2>7. SerSeqs'
    BY <1>1, <2>2, <2>3, <2>5, <2>6 DEF SerInv, SerSeqs
  <2>8. AlongOK'
    BY <1>1, <2>3, <2>5, <2>6 DEF SerInv, BytesOK, AlongOK, Before
  <2>9. NewerOK' /\ ApartOK'
    <3>1. \A a \in Coming : a \in Int /\ a < b
      <4>1. b \in ToSet(serTx) /\ serCame \in Nat /\ serNew \in Nat
        BY <2>3 DEF SerInv, SerSeqs
      <4>2. \A a \in Coming : a \in Int
        BY <4>1 DEF SerInv, BytesOK, GivenOK, Given
      <4> QED BY <4>1, <4>2 DEF SerInv, BytesOK, NewerOK
    <3> QED BY <2>3, <2>5, <2>6, <3>1 DEF SerInv, BytesOK, NewerOK, ApartOK
  <2>10. PlacesOK' /\ GivenOK' /\ WholeOK'
    BY <1>1, <2>3, <2>5, <2>6 DEF SerInv, BytesOK, PlacesOK, GivenOK, WholeOK
  <2> QED BY <2>7, <2>8, <2>9, <2>10 DEF SerInv, BytesOK
<1> QED BY <1>1, <1>2, <1>3

LEMMA WriteAddsKeeps ==
    ASSUME SerInv, WriteAdds PROVE SerInv'
<1>1. /\ serNew' = serNew + 1
      /\ serTx' = IF Len(serTx) < SerFifoMax THEN Append(serTx, serNew') ELSE serTx
      /\ serLossy' = (serLossy \/ Len(serTx) = SerFifoMax)
      /\ UNCHANGED << serIn, serRx, serFlow, serLoop, serCame, serRead, serWire >>
  BY DEF WriteAdds, serUart
<1>2. /\ serTx \in Seq(Int) /\ OldestFirst(serTx) /\ Len(serTx) \in Nat /\ SerFifoMax \in Nat
      /\ Len(serTx) <= SerFifoMax /\ serNew \in Nat /\ serNew' \in Int
  BY <1>1, SerAssumption DEF SerInv, SerSeqs, BytesOK, PlacesOK
<1>3. serRts' \in BOOLEAN
  BY DEF WriteAdds, Polls, SerInv, SerSeqs
<1>4. /\ Pending' = Pending /\ Coming' = Coming /\ Given' = Given \cup {serNew'}
      /\ 1 .. serNew' = (1 .. serNew) \cup {serNew'}
  BY <1>1, <1>2 DEF Pending, Coming, Given
<1>5. \A a \in Coming \cup ToSet(serWire) \cup ToSet(serTx) : a \in Int /\ a < serNew'
  BY <1>1, <1>2 DEF SerInv, BytesOK, GivenOK, Given
<1>6. CASE Len(serTx) < SerFifoMax
  <2>1. serTx' = Append(serTx, serNew') /\ serLossy' = serLossy
    BY <1>1, <1>2, <1>6 DEF SerInv, SerSeqs
  <2>2. /\ serTx' \in Seq(Int) /\ Len(serTx') = Len(serTx) + 1 /\ OldestFirst(serTx)'
        /\ ToSet(serTx)' = ToSet(serTx) \cup {serNew'}
    <3>1. Before(ToSet(serTx), {serNew'})
      BY <1>1, <1>2, <1>5 DEF Before
    <3> QED BY <1>2, <2>1, <3>1, Longer
  <2>3. SerSeqs'
    BY <1>1, <1>2, <1>3, <1>4, <1>6, <2>1, <2>2 DEF SerInv, SerSeqs
  <2>4. AlongOK'
    BY <1>1, <1>2, <1>4, <1>5, <2>2 DEF SerInv, BytesOK, AlongOK, Before
  <2>5. NewerOK' /\ ApartOK'
    BY <1>1, <1>4, <1>5, <2>2 DEF SerInv, BytesOK, NewerOK, ApartOK
  <2>6. PlacesOK' /\ GivenOK' /\ WholeOK'
    BY <1>1, <1>4, <2>1, <2>2 DEF SerInv, BytesOK, PlacesOK, GivenOK, WholeOK
  <2> QED BY <2>3, <2>4, <2>5, <2>6 DEF SerInv, BytesOK
<1>7. CASE ~(Len(serTx) < SerFifoMax)
  <2>1. serTx' = serTx /\ serLossy'
    <3>1. Len(serTx) = SerFifoMax
      BY <1>2, <1>7
    <3> QED BY <1>1, <1>7, <3>1
  <2>2. SerSeqs'
    BY <1>1, <1>2, <1>3, <1>4, <2>1 DEF SerInv, SerSeqs
  <2>3. GivenOK'
    BY <1>1, <1>4, <2>1 DEF SerInv, BytesOK, GivenOK
  <2>4. PlacesOK' /\ AlongOK' /\ NewerOK' /\ ApartOK' /\ WholeOK'
    BY <1>1, <1>4, <2>1 DEF SerInv, BytesOK, PlacesOK, AlongOK, NewerOK, ApartOK, WholeOK
  <2> QED BY <2>2, <2>3, <2>4 DEF SerInv, BytesOK
<1> QED BY <1>6, <1>7

LEMMA ReadChecksKeeps ==
    ASSUME SerInv, serRx # << >>, serRead' = Append(serRead, Head(serRx)), serRx' = Tail(serRx),
           serRts' \in BOOLEAN,
           UNCHANGED << serIn, serTx, serFlow, serLoop, serCame, serNew, serWire, serLossy >>
    PROVE  SerInv'
<1>1. PICK b : b = Head(serRx)
  OBVIOUS
<1>2. /\ serRead \in Seq(Int) /\ serRx \in Seq(Int) /\ OldestFirst(serRead) /\ OldestFirst(serRx)
      /\ Len(serRx) \in Nat /\ SerFifoMax \in Nat /\ Len(serRx) <= SerFifoMax
  BY SerAssumption DEF SerInv, SerSeqs, BytesOK, PlacesOK
<1>3. /\ b \in Int /\ serRx' \in Seq(Int) /\ Len(serRx') = Len(serRx) - 1 /\ OldestFirst(serRx)'
      /\ ToSet(serRx) = {b} \cup ToSet(serRx)' /\ Before({b}, ToSet(serRx)')
  BY <1>1, <1>2, Tailed
<1>4. Before(ToSet(serRead), {b}) /\ Before({b}, ToSet(Pending))
  BY <1>3 DEF SerInv, BytesOK, AlongOK, Before
<1>5. serRead' \in Seq(Int) /\ ToSet(serRead)' = ToSet(serRead) \cup {b} /\ OldestFirst(serRead)'
  BY <1>1, <1>2, <1>3, <1>4, Longer
<1>6. Pending' = Pending /\ Given' = Given
  BY DEF Pending, Given
<1>7. Coming' = Coming
  BY <1>3, <1>5, <1>6 DEF Coming
<1>8. SerSeqs'
  BY <1>2, <1>3, <1>5, <1>6 DEF SerInv, SerSeqs
<1>9. AlongOK'
  BY <1>3, <1>4, <1>5, <1>6 DEF SerInv, BytesOK, AlongOK, Before
<1>10. PlacesOK' /\ GivenOK' /\ NewerOK' /\ ApartOK' /\ WholeOK'
  BY <1>3, <1>5, <1>6, <1>7 DEF SerInv, BytesOK, PlacesOK, GivenOK, NewerOK, ApartOK, WholeOK
<1> QED BY <1>8, <1>9, <1>10 DEF SerInv, BytesOK

LEMMA LoopBackKeeps ==
    ASSUME SerInv, LoopBack PROVE SerInv'
<1>1. PICK room : room = SerFifoMax - Len(serRx)
  OBVIOUS
<1>2. PICK k : k = IF Len(serTx) <= room THEN Len(serTx) ELSE room
  OBVIOUS
<1>3. PICK p : p = SubSeq(serTx, 1, k)
  OBVIOUS
<1>4. PICK q : q = SubSeq(serTx, k + 1, Len(serTx))
  OBVIOUS
<1>5. /\ serRx \in Seq(Int) /\ serTx \in Seq(Int) /\ OldestFirst(serRx) /\ OldestFirst(serTx)
      /\ Len(serRx) \in Nat /\ Len(serTx) \in Nat /\ SerFifoMax \in Nat
      /\ Len(serRx) <= SerFifoMax /\ Len(serTx) <= SerFifoMax /\ serLossy \in BOOLEAN
  BY SerAssumption DEF SerInv, SerSeqs, BytesOK, PlacesOK
<1>6. room \in Nat /\ k \in 0 .. Len(serTx) /\ k <= room
  BY <1>1, <1>2, <1>5
<1>7. /\ p \in Seq(Int) /\ Len(p) = k /\ q \in Seq(Int) /\ Len(q) = Len(serTx) - k
      /\ ToSet(serTx) = ToSet(p) \cup ToSet(q) /\ Before(ToSet(p), ToSet(q))
      /\ OldestFirst(p) /\ OldestFirst(q)
  BY <1>3, <1>4, <1>5, <1>6, Split
<1>8. /\ UNCHANGED << serIn, serRts, serFlow, serLoop, serCame, serNew, serRead, serWire >>
      /\ serLossy' = (serLossy \/ ~(Len(serTx) <= room))
      /\ serRx' = serRx \o (IF Len(serTx) <= room THEN serTx ELSE SubSeq(serTx, 1, room))
      /\ serTx' = IF Len(serTx) <= room THEN << >> ELSE SubSeq(serTx, room + 2, Len(serTx))
  BY <1>1 DEF LoopBack, serUart
<1>9. serRx' = serRx \o p
  <2>1. CASE Len(serTx) <= room
    <3>1. p = serTx
      BY <1>2, <1>3, <1>5, <2>1, SubSeqFull
    <3> QED BY <1>8, <2>1, <3>1
  <2>2. CASE ~(Len(serTx) <= room)
    BY <1>2, <1>3, <1>8, <2>2
  <2> QED BY <2>1, <2>2
(* What stays in Transmit, and what it lacks.                              *)
<1>10. /\ serTx' \in Seq(Int) /\ OldestFirst(serTx)' /\ Len(serTx') <= SerFifoMax
       /\ ToSet(serTx)' \subseteq ToSet(q)
       /\ ~serLossy' => ~serLossy /\ ToSet(q) = {}
  <2>1. CASE Len(serTx) <= room
    <3>1. serTx' = << >> /\ Len(q) = 0 /\ k = Len(serTx)
      BY <1>2, <1>5, <1>7, <1>8, <2>1
    <3>2. q = << >>
      BY <1>7, <3>1
    <3>3. ~serLossy' => ~serLossy
      BY <1>5, <1>8
    <3>4. Len(<< >>) <= SerFifoMax
      BY <1>5
    <3> QED BY <3>1, <3>2, <3>3, <3>4, Nothing
  <2>2. CASE ~(Len(serTx) <= room)
    <3>1. k = room /\ Len(q) = Len(serTx) - room /\ Len(q) >= 1 /\ serLossy'
          /\ serTx' = SubSeq(serTx, room + 2, Len(serTx))
      <4>1. k = room /\ serTx' = SubSeq(serTx, room + 2, Len(serTx))
        BY <1>2, <1>8, <2>2
      <4>2. serLossy'
        BY <1>8, <2>2
      <4>3. Len(q) = Len(serTx) - room /\ Len(q) >= 1
        BY <1>5, <1>6, <1>7, <2>2, <4>1
      <4> QED BY <4>1, <4>2, <4>3
    <3>2. q # << >>
      BY <3>1
    <3>3. serTx' = Tail(q)
      <4>1. q = SubSeq(serTx, k + 1, Len(serTx)) /\ k + 1 \in 1 .. Len(serTx)
            /\ Len(serTx) \in k + 1 .. Len(serTx) /\ k + 1 + 1 = room + 2
        BY <1>4, <1>5, <1>6, <2>2, <3>1
      <4>2. PICK i : i = k + 1
        OBVIOUS
      <4>3. Tail(q) = SubSeq(serTx, i + 1, Len(serTx))
        BY <1>5, <4>1, <4>2, HeadTailOfSubSeq
      <4> QED BY <3>1, <4>1, <4>2, <4>3
    <3>4. /\ Tail(q) \in Seq(Int) /\ Len(Tail(q)) = Len(q) - 1 /\ OldestFirst(Tail(q))
          /\ ToSet(q) = {Head(q)} \cup ToSet(Tail(q))
      BY <1>7, <3>2, Tailed
    <3>5. Len(q) - 1 <= SerFifoMax
      BY <1>5, <1>6, <3>1
    <3> QED BY <3>1, <3>3, <3>4, <3>5
  <2> QED BY <2>1, <2>2
<1>11. Before(ToSet(serRx), ToSet(p)) /\ Before(ToSet(serRead), ToSet(p)) /\ Before(ToSet(p), ToSet(Pending))
  <2>1. \A a \in Coming, b \in ToSet(p) : a < b /\ a \in Int /\ b \in Int /\ b > 0
    BY <1>7 DEF SerInv, SerSeqs, BytesOK, NewerOK, GivenOK, Given
  <2>2. \A a \in ToSet(Pending) : a < 0 /\ a \in Int
    BY DEF SerInv, SerSeqs, BytesOK, GivenOK
  <2> QED BY <2>1, <2>2 DEF Before, Coming
<1>12. /\ serRx' \in Seq(Int) /\ Len(serRx') <= SerFifoMax /\ OldestFirst(serRx)'
       /\ ToSet(serRx)' = ToSet(serRx) \cup ToSet(p)
  <2>1. /\ serRx' \in Seq(Int) /\ Len(serRx') = Len(serRx) + k /\ OldestFirst(serRx)'
        /\ ToSet(serRx)' = ToSet(serRx) \cup ToSet(p)
    BY <1>5, <1>7, <1>9, <1>11, Joined
  <2> QED BY <1>1, <1>5, <1>6, <2>1
<1>13. Pending' = Pending /\ Given' = Given
  BY <1>8 DEF Pending, Given
<1>14. Coming' = Coming \cup ToSet(p)
  BY <1>8, <1>12, <1>13 DEF Coming
<1>15. SerSeqs'
  BY <1>8, <1>10, <1>12, <1>13 DEF SerInv, SerSeqs
<1>16. PlacesOK'
  BY <1>8, <1>10, <1>12, <1>13 DEF SerInv, BytesOK, PlacesOK
<1>17. AlongOK'
  <2>1. Before(ToSet(serRead), ToSet(serRx))'
    BY <1>8, <1>11, <1>12 DEF SerInv, BytesOK, AlongOK, Before
  <2>2. Before(ToSet(serRx), ToSet(Pending))' /\ Before(ToSet(serRead), ToSet(Pending))'
    BY <1>8, <1>11, <1>12, <1>13 DEF SerInv, BytesOK, AlongOK, Before
  <2>3. Before(ToSet(serWire), ToSet(serTx))'
    BY <1>7, <1>8, <1>10 DEF SerInv, BytesOK, AlongOK, Before
  <2> QED BY <2>1, <2>2, <2>3 DEF AlongOK
<1>18. GivenOK'
  BY <1>7, <1>8, <1>10, <1>13, <1>14 DEF SerInv, BytesOK, GivenOK, Given
<1>19. NewerOK'
  <2>1. \A a \in ToSet(p), b \in ToSet(q) : a < b
    <3>1. \A a \in ToSet(serTx) : a > 0
      BY DEF SerInv, SerSeqs, BytesOK, GivenOK
    <3> QED BY <1>7, <3>1 DEF Before
  <2> QED BY <1>7, <1>10, <1>14, <2>1 DEF SerInv, BytesOK, NewerOK
<1>20. ApartOK'
  <2>1. \A a \in ToSet(serWire), b \in ToSet(p) : a # b
    <3>1. \A a \in ToSet(serTx) \cup ToSet(serWire) : a > 0 /\ a \in Int
      BY DEF SerInv, SerSeqs, BytesOK, GivenOK
    <3>2. \A a \in ToSet(serWire), b \in ToSet(p) : a < b
      BY <1>7, <3>1 DEF SerInv, BytesOK, AlongOK, Before
    <3> QED BY <1>7, <3>1, <3>2
  <2> QED BY <1>8, <1>14, <2>1 DEF SerInv, BytesOK, ApartOK
<1>21. WholeOK'
  BY <1>7, <1>8, <1>10, <1>13, <1>14 DEF SerInv, BytesOK, WholeOK
<1> QED BY <1>15, <1>16, <1>17, <1>18, <1>19, <1>20, <1>21 DEF SerInv, BytesOK

LEMMA ResetKeeps ==
    ASSUME SerInv, IsaSerialReset PROVE SerInv'
<1>1. /\ serIn' = << >> /\ serLossy' = TRUE
      /\ UNCHANGED << serFlow, serLoop, serCame, serNew, serRead, serWire >>
      /\ \/ serRts' = FALSE /\ serRx' = << >> /\ serTx' = << >>
         \/ UNCHANGED << serRts, serRx, serTx >>
  BY DEF IsaSerialReset
<1>2. Pending' = << >>
  BY <1>1 DEF Pending
<1>3. OldestFirst(serRx)' /\ OldestFirst(serTx)' /\ ToSet(serRx)' \subseteq ToSet(serRx)
      /\ ToSet(serTx)' \subseteq ToSet(serTx)
  <2>1. OldestFirst(serRx) /\ OldestFirst(serTx)
    BY DEF SerInv, BytesOK, PlacesOK
  <2>2. CASE serRx' = << >> /\ serTx' = << >>
    BY <2>2, Nothing
  <2>3. CASE UNCHANGED << serRx, serTx >>
    BY <2>1, <2>3
  <2> QED BY <1>1, <2>2, <2>3
<1>5. SerSeqs'
  <2>1. serIn' \in Seq([byte : Int, bad : BOOLEAN])
    BY <1>1, EmptySeq
  <2>2. << >> \in Seq(Int) /\ Len(<< >>) <= SerFifoMax
    BY Nothing, SerAssumption
  <2>3. CASE serRx' = << >> /\ serTx' = << >> /\ serRts' = FALSE
    BY <1>1, <1>2, <2>1, <2>2, <2>3 DEF SerInv, SerSeqs
  <2>4. CASE UNCHANGED << serRts, serRx, serTx >>
    BY <1>1, <1>2, <2>1, <2>2, <2>4 DEF SerInv, SerSeqs
  <2> QED BY <1>1, <2>3, <2>4
<1>4. OldestFirst(Pending)' /\ ToSet(Pending)' = {}
  BY <1>2, Nothing
<1> QED BY <1>1, <1>3, <1>4, <1>5, BytesLost

-----------------------------------------------------------------------------
LEMMA SerInitOK == SerInit => SerInv
<1> SUFFICES ASSUME SerInit PROVE SerInv
  OBVIOUS
<1>1. /\ serIn = << >> /\ serRx = << >> /\ serTx = << >> /\ serRead = << >> /\ serWire = << >>
      /\ serCame = 0 /\ serNew = 0 /\ serLossy = FALSE
      /\ serRts = FALSE /\ serFlow = FALSE /\ serLoop = FALSE
  BY DEF SerInit
<1>2. Pending = << >>
  BY <1>1 DEF Pending
<1>3. SerSeqs
  <2>1. serIn \in Seq([byte : Int, bad : BOOLEAN])
    BY <1>1, EmptySeq
  <2>2. << >> \in Seq(Int) /\ Len(<< >>) <= SerFifoMax
    BY Nothing, SerAssumption
  <2> QED BY <1>1, <1>2, <2>1, <2>2 DEF SerSeqs
<1>4. Coming = {} /\ Given = {}
  BY <1>1, <1>2, Nothing DEF Coming, Given
<1>5. BytesOK
  BY <1>1, <1>2, <1>4, Nothing
     DEF BytesOK, PlacesOK, AlongOK, GivenOK, NewerOK, ApartOK, WholeOK, Before
<1> QED BY <1>3, <1>5 DEF SerInv

LEMMA SerNextOK == SerInv /\ [SerNext]_serVars => SerInv'
<1> SUFFICES ASSUME SerInv, [SerNext]_serVars PROVE SerInv'
  OBVIOUS
<1>1. serRts \in BOOLEAN /\ serFlow \in BOOLEAN /\ serLoop \in BOOLEAN
  BY DEF SerInv, SerSeqs
<1>2. CASE ByteComes
  BY <1>2, ByteComesKeeps
<1>3. CASE TransmitterEmpties \/ RemoteChanges \/ NothingToDo
  BY <1>1, <1>3, NoByteMoves
     DEF TransmitterEmpties, RemoteChanges, NothingToDo, serUart, serDev, serHistory
<1>4. CASE TakeByte
  BY <1>4, TakeByteKeeps
<1>5. CASE SendByte
  BY <1>5, SendByteKeeps
<1>6. CASE LoopBack
  BY <1>6, LoopBackKeeps
<1>7. ASSUME NEW n \in 1 .. 2, IsaSerialWrite(n) \/ IsaSerialRead(n) PROVE SerInv'
  BY <1>1, <1>7, NoByteMoves DEF IsaSerialWrite, IsaSerialRead, Polls, serUart, serDev, serHistory
<1>8. CASE WriteAdds
  BY <1>8, WriteAddsKeeps
<1>9. CASE WriteChecks
  <2>1. UNCHANGED << serUart, serDev, serHistory >> /\ serRts' \in BOOLEAN
    BY <1>1, <1>9 DEF WriteChecks, Waits, TimesOut, Polls
  <2> QED BY <1>1, <2>1, NoByteMoves DEF serUart, serDev, serHistory
<1>10. CASE ReadChecks
  <2>1. CASE UNCHANGED << serUart, serDev, serHistory >> /\ serRts' \in BOOLEAN
    BY <1>1, <2>1, NoByteMoves DEF serUart, serDev, serHistory
  <2>2. CASE /\ serRx # << >> /\ serRead' = Append(serRead, Head(serRx)) /\ serRx' = Tail(serRx)
             /\ serRts' \in BOOLEAN
             /\ UNCHANGED << serUart, serTx, serFlow, serLoop, serCame, serNew, serWire, serLossy >>
    BY <2>2, ReadChecksKeeps DEF serUart
  <2> QED BY <1>1, <1>10, <2>1, <2>2 DEF ReadChecks, Waits, TimesOut, Polls
<1>11. CASE IsaSerialGetControl \/ GetControlChecks
  <2>1. UNCHANGED << serUart, serDev, serHistory >> /\ serRts' \in BOOLEAN
    BY <1>1, <1>11 DEF IsaSerialGetControl, GetControlChecks, Polls
  <2> QED BY <1>1, <2>1, NoByteMoves DEF serUart, serDev, serHistory
<1>12. ASSUME NEW control \in SerControls, IsaSerialSetControl(control) PROVE SerInv'
  BY <1>12, NoByteMoves DEF IsaSerialSetControl, serUart, serHistory
<1>13. ASSUME NEW rate \in SerRates, IsaSerialSetAttributes(rate) PROVE SerInv'
  BY <1>1, <1>13, NoByteMoves DEF IsaSerialSetAttributes, serUart, serDev, serHistory
<1>14. CASE IsaSerialReset
  BY <1>14, ResetKeeps
<1>15. CASE UNCHANGED serVars
  BY <1>1, <1>15, NoByteMoves DEF serVars, serUart, serDev, serHistory
<1> QED BY <1>2, <1>3, <1>4, <1>5, <1>6, <1>7, <1>8, <1>9, <1>10, <1>11, <1>12, <1>13, <1>14, <1>15
        DEF SerNext

(* The places together are the two lines.                                  *)
LEMMA InvBytes == SerInv => BytesKept
<1> SUFFICES ASSUME SerInv PROVE BytesKept
  OBVIOUS
<1>1. /\ serRead \in Seq(Int) /\ serRx \in Seq(Int) /\ Pending \in Seq(Int)
      /\ serWire \in Seq(Int) /\ serTx \in Seq(Int)
  BY DEF SerInv, SerSeqs
<1>2. PICK s : s = serRead \o serRx
  OBVIOUS
<1>3. s \in Seq(Int) /\ ToSet(s) = ToSet(serRead) \cup ToSet(serRx) /\ OldestFirst(s)
  BY <1>1, <1>2, Joined DEF SerInv, BytesOK, PlacesOK, AlongOK
<1>4. Inbound = s \o Pending
  BY <1>2 DEF Inbound
<1>5. Before(ToSet(s), ToSet(Pending))
  BY <1>3 DEF SerInv, BytesOK, AlongOK, Before
<1>6. OldestFirst(Inbound) /\ ToSet(Inbound) = Coming
  <2>1. OldestFirst(s \o Pending) /\ ToSet(s \o Pending) = ToSet(s) \cup ToSet(Pending)
    <3>1. OldestFirst(Pending)
      BY DEF SerInv, BytesOK, PlacesOK
    <3> QED BY <1>1, <1>3, <1>5, <3>1, Joined
  <2> QED BY <1>3, <1>4, <2>1, Zenon DEF Coming
<1>7. OldestFirst(Outbound) /\ ToSet(Outbound) = ToSet(serWire) \cup ToSet(serTx)
  BY <1>1, Joined DEF SerInv, BytesOK, PlacesOK, AlongOK, Outbound
<1>8. ToSet(Inbound) \cap ToSet(Outbound) = {}
  <2>1. Coming \cap ToSet(serTx) = {}
    <3>1. \A a \in ToSet(serTx) : a \in Int /\ ~(a < a)
      BY DEF SerInv, SerSeqs, BytesOK, GivenOK
    <3> QED BY <3>1 DEF SerInv, BytesOK, NewerOK
  <2> QED BY <1>6, <1>7, <2>1 DEF SerInv, BytesOK, ApartOK
<1>9. ~serLossy => ToSet(Inbound) \cup ToSet(Outbound) = Given
  BY <1>6, <1>7 DEF SerInv, BytesOK, WholeOK, GivenOK, Given
<1> QED BY <1>6, <1>7, <1>8, <1>9 DEF BytesKept, Given

(* Read returns, and the wire carries, the bytes in their order and none   *)
(* twice, and no byte goes that was not damaged, dropped at a full FIFO or *)
(* reset (IsaSerialReceiveTransmit, IsaSerialWrite, IsaSerialRead): FIFOs  *)
(* of every length, every timeout and every way to switch flow control and *)
(* loopback.                                                               *)
THEOREM BytesCorrect == SerSpec => []BytesKept
<1>1. SerInit => SerInv
  BY SerInitOK
<1>2. SerInv /\ [SerNext]_serVars => SerInv'
  BY SerNextOK
<1>3. SerInv => BytesKept
  BY InvBytes
<1> QED BY <1>1, <1>2, <1>3, PTL DEF SerSpec

(* RTS is off while Receive is full and flow control is on, so that a      *)
(* remote end that obeys it is not asked for bytes there is no room for.   *)
(* This needs that SetControl is not called with both.                     *)
LEMMA RtsStep ==
    ASSUME RtsLeftAlone, SerInv, NoRtsWhenFull, [SerNext]_serVars
    PROVE  NoRtsWhenFull'
<1>1. /\ serRts \in BOOLEAN /\ serFlow \in BOOLEAN /\ serLoop \in BOOLEAN
      /\ serRx \in Seq(Int) /\ Len(serRx) \in Nat /\ SerFifoMax \in Nat \ {0} /\ Len(serRx) <= SerFifoMax
  BY SerAssumption DEF SerInv, SerSeqs
<1>2. ASSUME UNCHANGED << serFlow, serLoop, serRx >>,
             \/ UNCHANGED serRts
             \/ serRts' = (serRts \/ (serFlow /\ ~serLoop /\ Len(serRx') < SerFifoMax))
      PROVE  NoRtsWhenFull'
  BY <1>1, <1>2 DEF NoRtsWhenFull
<1>3. CASE ByteComes \/ TransmitterEmpties \/ RemoteChanges \/ SendByte \/ NothingToDo
  BY <1>2, <1>3 DEF ByteComes, TransmitterEmpties, RemoteChanges, SendByte, NothingToDo, serDev
<1>4. CASE TakeByte
  <2>1. CASE Head(serIn).bad
    BY <1>2, <1>4, <2>1 DEF TakeByte
  <2>2. CASE ~Head(serIn).bad
    <3>1. serRts' = (serRts /\ ~(serFlow /\ Len(serRx') = SerFifoMax)) /\ UNCHANGED << serFlow, serLoop >>
      BY <1>4, <2>2 DEF TakeByte
    <3> QED BY <3>1 DEF NoRtsWhenFull
  <2> QED BY <2>1, <2>2
<1>5. CASE LoopBack
  BY <1>5 DEF LoopBack, NoRtsWhenFull
<1>6. ASSUME NEW n \in 1 .. 2, IsaSerialWrite(n) \/ IsaSerialRead(n) PROVE NoRtsWhenFull'
  BY <1>2, <1>6 DEF IsaSerialWrite, IsaSerialRead, Polls, serDev
<1>7. CASE WriteAdds \/ WriteChecks \/ IsaSerialGetControl \/ GetControlChecks
  <2>1. UNCHANGED << serFlow, serLoop, serRx >>
    BY <1>7 DEF WriteAdds, WriteChecks, IsaSerialGetControl, GetControlChecks, Waits, TimesOut, serDev
  <2>2. \/ UNCHANGED serRts
        \/ serRts' = (serRts \/ (serFlow /\ ~serLoop /\ Len(serRx') < SerFifoMax))
    BY <1>7 DEF WriteAdds, WriteChecks, IsaSerialGetControl, GetControlChecks, Waits, TimesOut, Polls
  <2> QED BY <1>2, <2>1, <2>2
<1>8. CASE ReadChecks
  <2>1. CASE serRx' = serRx /\ UNCHANGED << serFlow, serLoop >>
    BY <1>2, <1>8, <2>1 DEF ReadChecks, Waits, TimesOut, Polls
  <2>2. CASE serRx # << >> /\ serRx' = Tail(serRx)
    <3>1. Len(serRx') = Len(serRx) - 1
      BY <1>1, <2>2
    <3>2. Len(serRx') # SerFifoMax
      BY <1>1, <3>1
    <3> QED BY <3>2 DEF NoRtsWhenFull
  <2> QED BY <1>8, <2>1, <2>2 DEF ReadChecks, Waits, TimesOut, serDev
<1>9. ASSUME NEW control \in SerControls, IsaSerialSetControl(control) PROVE NoRtsWhenFull'
  BY <1>9 DEF IsaSerialSetControl, RtsLeftAlone, NoRtsWhenFull
<1>10. ASSUME NEW rate \in SerRates, IsaSerialSetAttributes(rate) PROVE NoRtsWhenFull'
  BY <1>2, <1>10 DEF IsaSerialSetAttributes, serDev
<1>11. CASE IsaSerialReset
  BY <1>2, <1>11 DEF IsaSerialReset, NoRtsWhenFull
<1>12. CASE UNCHANGED serVars
  BY <1>2, <1>12 DEF serVars, serDev
<1> QED BY <1>3, <1>4, <1>5, <1>6, <1>7, <1>8, <1>9, <1>10, <1>11, <1>12 DEF SerNext

(* The UART driver passes bytes on in their order, none twice, keeps them  *)
(* unless they are damaged, dropped or reset, and holds the remote end     *)
(* back while Receive is full, when SetControl is not told to raise RTS    *)
(* together with flow control.                                             *)
THEOREM SerialCorrect == ASSUME RtsLeftAlone PROVE SerSpec => []BytesInOrder
<1>1. SerInit => SerInv /\ NoRtsWhenFull
  BY SerInitOK DEF SerInit, NoRtsWhenFull
<1>2. SerInv /\ NoRtsWhenFull /\ [SerNext]_serVars => SerInv' /\ NoRtsWhenFull'
  BY SerNextOK, RtsStep
<1>3. SerInv /\ NoRtsWhenFull => BytesInOrder
  BY InvBytes DEF BytesInOrder
<1> QED BY <1>1, <1>2, <1>3, PTL DEF SerSpec

-----------------------------------------------------------------------------
(***************************************************************************)
(* IsaIo: its types, and DmaWhereMapped.  The memory of two mappings is    *)
(* apart, a bounce buffer from every caller's buffer too; the registers of *)
(* a channel that is not masked name the byte of its mapping that is next, *)
(* and as many as are left of it; what was moved is at its place.          *)
(***************************************************************************)
IsaMemory == 0..(IsaTop - 1)
IsaBytes == {HostByte(a) : a \in IsaMemory} \cup {DeviceByte(c, k) : c \in 0..7, k \in Nat}
Callers == UNION {IsaSpan(m.host, m.n) : m \in IsaMaps}
HostOf(p) == IsaSpan(p.host, p.bytes)
DevOf(p) == IsaSpan(p.dev, p.bytes)
AreaOf(p) == HostOf(p) \cup DevOf(p)
HasMap(c) == isaMaps[c] # NoMapping
Setting == {"mask", "mode", "address", "page", "count", "unmask"}

Mappings ==
    [op : Slave \cup BusMaster \cup {"none"}, chan : Nat, host : Nat, n : Nat, bytes : Nat,
     dev : Nat, bounced : BOOLEAN, moved : Nat, got : Seq(IsaBytes)]
Channels ==
    [masked : BOOLEAN, mode : {"none", "MEM2IO", "IO2MEM"}, base : Nat, page : Nat,
     left : 0..Segment]
IsaTypes ==
    /\ isaMem \in [IsaMemory -> IsaBytes]
    /\ isaMaps \in [0..7 -> Mappings]
    /\ isaAt \in [at : Setting \cup {"idle", "done"}, chan : 0..7]
    /\ isaDma \in [0..7 -> Channels]
    /\ isaDone \in Mappings
    /\ isaUsed \subseteq IsaMemory /\ isaHosts \subseteq IsaMemory

(* A mapping of channel c: where it is, and how far it is.                 *)
MappingOK(c, p) ==
    /\ p.op # "none" /\ p.chan = c
    /\ p.n \in 1..p.bytes /\ p.moved \in 0..p.n
    /\ HostOf(p) \subseteq Callers
    /\ ~p.bounced => p.dev = p.host
    /\ p.op = "BusMasterCommonBuffer" => ~p.bounced
    /\ c # 4 => p.n <= Segment - (p.dev % Segment)
    /\ c # 4 /\ Wide(c) => p.dev % 2 = 0 /\ p.n % 2 = 0 /\ p.moved % 2 = 0
PlaceOK(p, used, buffers, hosts) ==
    /\ p.bounced => DevOf(p) \subseteq used \ (Callers \cup buffers)
    /\ DevOf(p) \subseteq hosts
    /\ ~FromMemory(p.op) => HostOf(p) \subseteq hosts
(* What the device got is what is at the caller's, and what it wrote is in *)
(* the memory that was mapped.                                             *)
DataOK(p, mem) ==
    IF FromMemory(p.op)
    THEN /\ Len(p.got) = p.moved
         /\ \A i \in 0..(p.moved - 1) : p.got[i + 1] = mem[p.host + i]
         /\ \A i \in 0..(p.bytes - 1) : mem[p.dev + i] = mem[p.host + i]
    ELSE \A i \in 0..(p.moved - 1) : mem[p.dev + i] = DeviceByte(p.chan, i)
MapsOK ==
    \A c \in 0..7 : HasMap(c) =>
        /\ MappingOK(c, isaMaps[c])
        /\ PlaceOK(isaMaps[c], isaUsed, isaBuffers, isaHosts)
        /\ DataOK(isaMaps[c], isaMem)
MapsApart ==
    \A c, d \in 0..7 :
        c # d /\ HasMap(c) /\ HasMap(d) => AreaOf(isaMaps[c]) \cap AreaOf(isaMaps[d]) = {}
UsedOK == Callers \subseteq isaUsed /\ isaBuffers \subseteq isaUsed \ Callers

(* The registers, as far as they have been written.                        *)
Programs(c) == isaAt.at \in Setting /\ isaAt.chan = c
WayOf(p) == IF FromMemory(p.op) THEN "MEM2IO" ELSE "IO2MEM"
ModeSet(ch, p) == ch.mode = WayOf(p)
BaseSet(c, ch, p) == ch.base * Width(c) = (p.dev % Segment) + p.moved
PageSet(ch, p) == ch.page = p.dev \div Segment
LeftSet(c, ch, p) == ch.left * Width(c) = p.n - p.moved
SetSoFar(c, ch, p, at) ==
    /\ p.moved = 0
    /\ at # "mask" => ch.masked
    /\ at \in {"address", "page", "count", "unmask"} => ModeSet(ch, p)
    /\ at \in {"page", "count", "unmask"} => BaseSet(c, ch, p)
    /\ at \in {"count", "unmask"} => PageSet(ch, p)
    /\ at = "unmask" => LeftSet(c, ch, p)
Runs(c, ch, p) ==
    ModeSet(ch, p) /\ BaseSet(c, ch, p) /\ PageSet(ch, p) /\ LeftSet(c, ch, p)
PortsOK ==
    /\ isaDma[4].masked
    /\ isaAt.at # "idle" => isaAt.chan # 4 /\ HasMap(isaAt.chan)
    /\ \A c \in 0..7 \ {4} : HasMap(c) =>
           /\ Programs(c) => SetSoFar(c, isaDma[c], isaMaps[c], isaAt.at)
           /\ ~Programs(c) /\ ~isaDma[c].masked => Runs(c, isaDma[c], isaMaps[c])

(* The mapping that was undone last.                                       *)
MovedOK(p, mem) ==
    IF FromMemory(p.op)
    THEN \A i \in 0..(p.moved - 1) : p.got[i + 1] = mem[p.host + i]
    ELSE p.op # "SlaveWrite" \/ ~p.bounced =>
             \A i \in 0..(p.moved - 1) : mem[p.host + i] = DeviceByte(p.chan, i)
DoneOK ==
    isaDone # NoMapping =>
        /\ isaDone.n \in 1..isaDone.bytes /\ isaDone.moved \in 0..isaDone.n
        /\ HostOf(isaDone) \subseteq Callers
        /\ \A c \in 0..7 : HasMap(c) => HostOf(isaDone) \cap AreaOf(isaMaps[c]) = {}
        /\ MovedOK(isaDone, isaMem)
KeptOK == \A a \in IsaMemory \ isaHosts : isaMem[a] = HostByte(a)
TouchedOK ==
    \A t \in isaTouched :
        \E r \in ToSet(ResourceList) : r.kind = t.space /\ t.address \in r.start..r.end

IsaInv ==
    IsaTypes /\ MapsOK /\ MapsApart /\ UsedOK /\ PortsOK /\ DoneOK /\ KeptOK /\ TouchedOK

-----------------------------------------------------------------------------
LEMMA SpanHas ==
    ASSUME NEW f \in Nat, NEW n \in Nat, NEW x
    PROVE  x \in IsaSpan(f, n) <=> x \in Nat /\ f <= x /\ x < f + n
BY DEF IsaSpan

LEMMA LesserOf ==
    ASSUME NEW a \in Int, NEW b \in Int
    PROVE  Min({a, b}) = IF a <= b THEN a ELSE b
<1>1. CASE a <= b
  <2>1. a \in {a, b} /\ \A y \in {a, b} : a <= y
    BY <1>1
  <2>2. \A x \in {a, b} : (\A y \in {a, b} : x <= y) => x = a
    BY <1>1
  <2> QED BY <1>1, <2>1, <2>2 DEF Min
<1>2. CASE ~(a <= b)
  <2>1. b \in {a, b} /\ \A y \in {a, b} : b <= y
    BY <1>2
  <2>2. \A x \in {a, b} : (\A y \in {a, b} : x <= y) => x = b
    BY <1>2
  <2> QED BY <1>2, <2>1, <2>2 DEF Min
<1> QED BY <1>1, <1>2

LEMMA NoMappingTyped == NoMapping \in Mappings /\ NoMapping.op = "none"
<1>1. <<>> \in Seq(IsaBytes)
  OBVIOUS
<1> QED BY <1>1 DEF NoMapping, Mappings

(* A mapping has its data wherever its memory is as it was.                *)
LEMMA DataKept ==
    ASSUME NEW p \in Mappings, NEW mem, NEW new, DataOK(p, mem), p.moved <= p.bytes,
           \A x \in AreaOf(p) : new[x] = mem[x]
    PROVE  DataOK(p, new)
<1>1. p.host \in Nat /\ p.dev \in Nat /\ p.bytes \in Nat /\ p.moved \in Nat
  BY DEF Mappings
<1>2. \A i \in 0..(p.bytes - 1) : p.host + i \in AreaOf(p) /\ p.dev + i \in AreaOf(p)
  BY <1>1 DEF AreaOf, HostOf, DevOf, IsaSpan
<1>3. \A i \in 0..(p.bytes - 1) : new[p.host + i] = mem[p.host + i]
                                  /\ new[p.dev + i] = mem[p.dev + i]
  BY <1>2
<1>4. \A i \in 0..(p.moved - 1) : i \in 0..(p.bytes - 1)
  BY <1>1
<1> QED BY <1>3, <1>4 DEF DataOK

LEMMA MovedKept ==
    ASSUME NEW p \in Mappings, NEW mem, NEW new, MovedOK(p, mem), p.moved <= p.bytes,
           \A x \in HostOf(p) : new[x] = mem[x]
    PROVE  MovedOK(p, new)
<1>1. p.host \in Nat /\ p.bytes \in Nat /\ p.moved \in Nat
  BY DEF Mappings
<1>2. \A i \in 0..(p.moved - 1) : p.host + i \in HostOf(p)
  BY <1>1 DEF HostOf, IsaSpan
<1>3. \A i \in 0..(p.moved - 1) : new[p.host + i] = mem[p.host + i]
  BY <1>2
<1> QED BY <1>3 DEF MovedOK

(* The memory of a mapping is allocated, and there is that memory.         *)
LEMMA AreaUsed ==
    ASSUME IsaInv, NEW c \in 0..7, HasMap(c)
    PROVE  /\ AreaOf(isaMaps[c]) \subseteq isaUsed
           /\ isaMaps[c].bounced => HostOf(isaMaps[c]) \cap DevOf(isaMaps[c]) = {}
<1>1. MappingOK(c, isaMaps[c]) /\ PlaceOK(isaMaps[c], isaUsed, isaBuffers, isaHosts)
  BY DEF IsaInv, MapsOK
<1>2. HostOf(isaMaps[c]) \subseteq Callers
  BY <1>1 DEF MappingOK
<1>3. isaMaps[c].bounced \in BOOLEAN
  BY DEF IsaInv, IsaTypes, Mappings
<1>4. CASE isaMaps[c].bounced
  <2>1. DevOf(isaMaps[c]) \subseteq isaUsed \ Callers
    BY <1>1, <1>4 DEF PlaceOK
  <2> QED BY <1>2, <2>1 DEF IsaInv, UsedOK, AreaOf
<1>5. CASE ~isaMaps[c].bounced
  <2>1. DevOf(isaMaps[c]) = HostOf(isaMaps[c])
    BY <1>1, <1>5 DEF MappingOK, DevOf, HostOf
  <2> QED BY <1>2, <1>5, <2>1 DEF IsaInv, UsedOK, AreaOf
<1> QED BY <1>3, <1>4, <1>5
LEMMA StillData ==
    ASSUME IsaInv, NEW c \in 0..7, HasMap(c), NEW new,
           \A x \in AreaOf(isaMaps[c]) : new[x] = isaMem[x]
    PROVE  DataOK(isaMaps[c], new)
<1>1. isaMaps[c] \in Mappings /\ MappingOK(c, isaMaps[c]) /\ DataOK(isaMaps[c], isaMem)
  BY DEF IsaInv, IsaTypes, MapsOK
<1>2. isaMaps[c].moved <= isaMaps[c].bytes
  BY <1>1 DEF MappingOK, Mappings
<1> QED BY <1>1, <1>2, DataKept

LEMMA StillDone ==
    ASSUME IsaInv, isaDone # NoMapping, NEW new,
           \A x \in HostOf(isaDone) : new[x] = isaMem[x]
    PROVE  MovedOK(isaDone, new)
<1>1. isaDone \in Mappings /\ MovedOK(isaDone, isaMem)
  BY DEF IsaInv, IsaTypes, DoneOK
<1>2. isaDone.moved <= isaDone.bytes
  <2>1. isaDone.n \in 1..isaDone.bytes /\ isaDone.moved \in 0..isaDone.n
    BY DEF IsaInv, DoneOK
  <2>2. isaDone.n \in Nat /\ isaDone.bytes \in Nat /\ isaDone.moved \in Nat
    BY <1>1 DEF Mappings
  <2> QED BY <2>1, <2>2
<1> QED BY <1>1, <1>2, MovedKept

-----------------------------------------------------------------------------
LEMMA IsaStarts == IsaInit => IsaInv
<1> SUFFICES ASSUME IsaInit PROVE IsaInv
  OBVIOUS
<1> USE DEF IsaInit
<1>1. \A c \in 0..7 : ~HasMap(c)
  BY DEF HasMap
<1>2. IsaTypes
  <2>1. isaMem \in [IsaMemory -> IsaBytes]
    BY DEF IsaMemory, IsaBytes
  <2>2. isaMaps \in [0..7 -> Mappings] /\ isaDone \in Mappings
    BY NoMappingTyped
  <2>3. isaAt \in [at : Setting \cup {"idle", "done"}, chan : 0..7]
    BY DEF IsaIdle, Setting
  <2>4. isaDma \in [0..7 -> Channels]
    BY DEF Masked, Channels, Segment
  <2>5. isaUsed \subseteq IsaMemory
    <3>1. ASSUME NEW m \in IsaMaps PROVE IsaSpan(m.host, m.n) \subseteq IsaMemory
      <4>1. m.host \in Nat /\ m.n \in Nat \ {0} /\ m.host + m.n <= IsaTop /\ IsaTop \in Nat
        BY IsaMapsAssumption, Zenon
      <4>2. PICK h \in Nat, n \in Nat : h = m.host /\ n = m.n
        BY <4>1, Zenon
      <4>3. h + n <= IsaTop
        BY <4>1, <4>2, Zenon
      <4>4. h..(h + n - 1) \subseteq 0..(IsaTop - 1)
        <5> HIDE DEF IsaInit
        <5> QED BY <4>1, <4>3
      <4> QED BY <4>2, <4>4, Zenon DEF IsaMemory, IsaSpan
    <3>2. isaUsed = UNION {IsaSpan(m.host, m.n) : m \in IsaMaps}
      OBVIOUS
    <3> QED BY <3>1, <3>2, Zenon
  <2> QED BY <2>1, <2>2, <2>3, <2>4, <2>5 DEF IsaTypes
<1>3. MapsOK /\ MapsApart
  BY <1>1 DEF MapsOK, MapsApart
<1>4. UsedOK
  BY DEF UsedOK, Callers
<1>5. PortsOK
  BY <1>1 DEF PortsOK, IsaIdle, Masked
<1>6. DoneOK /\ TouchedOK
  BY DEF DoneOK, TouchedOK
<1>7. KeptOK
  BY DEF KeptOK, IsaMemory
<1> QED BY <1>2, <1>3, <1>4, <1>5, <1>6, <1>7 DEF IsaInv

(* An access touches what it asked for when that is within one range.      *)
LEMMA AccessKeeps ==
    ASSUME IsaInv, NEW a \in IsaAccesses, IsaIoAccess(a)
    PROVE  IsaInv'
<1>1. UNCHANGED <<isaMem, isaUsed, isaBuffers, isaMaps, isaAt, isaDma, isaDone, isaHosts>>
  BY DEF IsaIoAccess, isaMapVars
<1>2. TouchedOK'
  <2>1. CASE IsaIoVerifyAccess(a)
    <3>1. PICK r \in ToSet(ResourceList) :
              r.kind = a.space /\ a.offset >= r.start /\ AccessEnd(a) <= r.end
      BY <2>1 DEF IsaIoVerifyAccess
    <3>2. r.start \in Int /\ r.end \in Int /\ a.offset \in Int /\ AccessEnd(a) \in Int
      <4>1. a.offset \in Int /\ a.width \in Nat /\ a.count \in Nat
        BY IsaRangesAssumption
      <4>2. (IF a.fifo THEN 1 ELSE a.count) \in Nat
        BY <4>1
      <4>3. \A x, y \in Nat : x * y \in Nat
        OBVIOUS
      <4>4. (IF a.fifo THEN 1 ELSE a.count) * a.width \in Nat
        BY <4>1, <4>2, <4>3
      <4> QED BY <4>1, <4>4, IsaRangesAssumption DEF AccessEnd
    <3>3. \A p \in a.offset..AccessEnd(a) : p \in r.start..r.end
      BY <3>1, <3>2
    <3>4. \A t \in Accessed(a) : r.kind = t.space /\ t.address \in r.start..r.end
      BY <3>1, <3>3 DEF Accessed
    <3>5. isaTouched' \subseteq isaTouched \cup Accessed(a)
      BY DEF IsaIoAccess
    <3> QED BY <3>4, <3>5 DEF IsaInv, TouchedOK
  <2>2. CASE ~IsaIoVerifyAccess(a)
    <3>1. isaTouched' = isaTouched
      BY <2>2 DEF IsaIoAccess
    <3> QED BY <3>1 DEF IsaInv, TouchedOK
  <2> QED BY <2>1, <2>2
<1>3. IsaTypes' /\ UsedOK' /\ KeptOK'
  BY <1>1 DEF IsaInv, IsaTypes, UsedOK, KeptOK
<1>4. MapsOK' /\ MapsApart'
  BY <1>1 DEF IsaInv, MapsOK, MapsApart, HasMap
<1>5. PortsOK'
  BY <1>1 DEF IsaInv, PortsOK, HasMap, Programs
<1>6. DoneOK'
  BY <1>1 DEF IsaInv, DoneOK, HasMap
<1> QED BY <1>2, <1>3, <1>4, <1>5, <1>6 DEF IsaInv

-----------------------------------------------------------------------------
(* What the functions take, and the mapping they make of it.               *)
LEMMA TakenIs ==
    ASSUME NEW m \in IsaMaps, MapTaken(m)
    PROVE  /\ m.chan \in 0..7 /\ (m.op \in Slave => m.chan # 4)
           /\ m.op \notin Slave => m.op \in BusMaster /\ m.chan = 4
           /\ OperationKept(m.op) \in Slave \cup BusMaster
           /\ FromMemory(OperationKept(m.op)) <=> FromMemory(m.op)
           /\ OperationKept(m.op) = "BusMasterCommonBuffer" => m.op = "BusMasterCommonBuffer"
<1>1. m.op \in Slave \cup BusMaster /\ m.chan \in Nat /\ (m.op \in BusMaster => m.chan = 4)
  BY IsaMapsAssumption
<1>2. m.chan \in 0..7 /\ (m.op \in Slave => m.chan # 4)
  <2>1. CASE "slave only" \in isaPcd
    <3>1. m.op \in Slave /\ m.chan < 4
      BY <2>1 DEF MapTaken, SlaveOnlyTakes
    <3> QED BY <1>1, <3>1
  <2>2. CASE "slave only" \notin isaPcd
    <3>1. m.op \in Slave => m.chan # 4 /\ m.chan <= 7
      BY <2>2 DEF MapTaken, FullTakes
    <3>2. CASE m.op \in Slave
      BY <1>1, <3>1, <3>2
    <3>3. CASE m.op \notin Slave
      BY <1>1, <3>3
    <3> QED BY <3>2, <3>3
  <2> QED BY <2>1, <2>2
<1>3. OperationKept(m.op) \in Slave \cup BusMaster
      /\ (FromMemory(OperationKept(m.op)) <=> FromMemory(m.op))
      /\ (OperationKept(m.op) = "BusMasterCommonBuffer" => m.op = "BusMasterCommonBuffer")
  BY <1>1 DEF OperationKept, FromMemory, Slave, BusMaster
<1> QED BY <1>1, <1>2, <1>3

LEMMA MappedOK ==
    ASSUME NEW m \in IsaMaps, MapTaken(m), NEW dev \in Nat, NEW bounced \in BOOLEAN,
           ~bounced => dev = m.host,
           bounced => m.op # "BusMasterCommonBuffer",
           bounced /\ Wide(m.chan) => dev % 2 = 0
    PROVE  /\ Mapped(m, dev, bounced) \in Mappings
           /\ MappingOK(m.chan, Mapped(m, dev, bounced))
<1> DEFINE p == Mapped(m, dev, bounced)
<1>1. /\ m.chan \in Nat /\ m.host \in Nat /\ m.n \in Nat \ {0}
      /\ m.op \in Slave /\ Wide(m.chan) => m.host % 2 = 0 /\ m.n % 2 = 0
  BY IsaMapsAssumption
<1>2. m.op \in Slave => MappedBytes(m, dev) = IF m.n <= Segment - (dev % Segment) THEN m.n
                                              ELSE Segment - (dev % Segment)
  BY <1>1, LesserOf DEF MappedBytes, Segment
<1>3. m.op \notin Slave => MappedBytes(m, dev) = m.n
  BY DEF MappedBytes
<1>4. MappedBytes(m, dev) \in 1..m.n
  BY <1>1, <1>2, <1>3 DEF Segment
<1>5. /\ p.op = OperationKept(m.op) /\ p.chan = m.chan /\ p.host = m.host
      /\ p.n = MappedBytes(m, dev) /\ p.bytes = m.n /\ p.dev = dev /\ p.bounced = bounced
      /\ p.moved = 0 /\ p.got = <<>>
  BY DEF Mapped
<1>6. p \in Mappings
  <2>1. <<>> \in Seq(IsaBytes)
    OBVIOUS
  <2> QED BY <1>1, <1>4, <2>1, TakenIs DEF Mapped, Mappings
<1>7. HostOf(p) \subseteq Callers
  BY <1>5 DEF HostOf, Callers
<1>8. p.op # "none"
  BY <1>5, TakenIs DEF Slave, BusMaster
<1>9. m.chan # 4 => m.op \in Slave /\ p.n <= Segment - (p.dev % Segment)
  BY <1>1, <1>2, <1>5, TakenIs DEF Segment
<1>10. m.chan # 4 /\ Wide(m.chan) => p.dev % 2 = 0 /\ p.n % 2 = 0 /\ p.moved % 2 = 0
  <2> SUFFICES ASSUME m.chan # 4, Wide(m.chan)
               PROVE  p.dev % 2 = 0 /\ p.n % 2 = 0 /\ p.moved % 2 = 0
    OBVIOUS
  <2>1. dev % 2 = 0
    BY <1>1, <1>9
  <2>2. (Segment - (dev % Segment)) % 2 = 0
    BY <2>1 DEF Segment
  <2>3. m.n % 2 = 0
    BY <1>1, <1>9
  <2> QED BY <1>2, <1>5, <1>9, <2>1, <2>2, <2>3
<1>11. p.n \in 1..p.bytes /\ p.moved \in 0..p.n
  BY <1>4, <1>5
<1>12. p.op = "BusMasterCommonBuffer" => ~p.bounced
  BY <1>5, TakenIs
<1>13. ~p.bounced => p.dev = p.host
  BY <1>5
<1>14. MappingOK(m.chan, p)
  BY <1>5, <1>7, <1>8, <1>9, <1>10, <1>11, <1>12, <1>13 DEF MappingOK
<1> HIDE DEF p
<1> QED BY <1>6, <1>14 DEF p
(* Where Map puts a mapping: at the caller's, or in pages that were free.  *)
Places(m, dev, bounced) ==
    /\ Begins(m, Mapped(m, dev, bounced))
    /\ bounced =>
           /\ m.op # "BusMasterCommonBuffer" /\ (Wide(m.chan) => dev % 2 = 0)
           /\ dev \in FreeRuns(m.n)
           /\ isaUsed' = isaUsed \cup IsaSpan(dev, m.n)
           /\ IF FromMemory(OperationKept(m.op)) THEN Copied(m.host, dev, m.n)
              ELSE UNCHANGED isaMem
    /\ ~bounced => dev = m.host /\ UNCHANGED <<isaUsed, isaMem>>

LEMMA MapPlaces ==
    ASSUME NEW m \in IsaMaps, IsaIoMap(m)
    PROVE  \E dev \in Nat, bounced \in BOOLEAN : Places(m, dev, bounced)
<1>1. m.host \in Nat /\ m.n \in Nat
  BY IsaMapsAssumption
<1>2. CASE MapBounced(m)
  <2>1. PICK b \in FreeRuns(m.n) :
            /\ Wide(m.chan) => b % 2 = 0
            /\ isaUsed' = isaUsed \cup IsaSpan(b, m.n)
            /\ IF FromMemory(OperationKept(m.op)) THEN Copied(m.host, b, m.n)
               ELSE UNCHANGED isaMem
            /\ Begins(m, Mapped(m, b, TRUE))
    BY <1>2 DEF MapBounced
  <2>2. b \in Nat
    BY <1>1 DEF FreeRuns, Base16MB
  <2>3. m.op # "BusMasterCommonBuffer"
    BY <1>2 DEF MapBounced
  <2>4. Places(m, b, TRUE)
    BY <2>1, <2>3 DEF Places
  <2> QED BY <2>2, <2>4
<1>3. CASE MapDirect(m)
  <2>1. Places(m, m.host, FALSE)
    BY <1>3 DEF Places, MapDirect
  <2> QED BY <1>1, <2>1
<1> QED BY <1>2, <1>3 DEF IsaIoMap

LEMMA MapKeeps ==
    ASSUME IsaInv, NEW m \in IsaMaps, IsaIoMap(m)
    PROVE  IsaInv'
<1>1. PICK dev \in Nat, bounced \in BOOLEAN : Places(m, dev, bounced)
  BY MapPlaces
<1> DEFINE p == Mapped(m, dev, bounced)
<1>2. /\ MapTaken(m) /\ isaAt.at = "idle" /\ isaMaps[m.chan] = NoMapping
      /\ isaDone' = NoMapping
      /\ UNCHANGED <<isaBuffers, isaDma, isaTouched>>
  BY DEF IsaIoMap, IsaCalled
<1>3. p \in Mappings /\ MappingOK(m.chan, p)
  <2>1. /\ ~bounced => dev = m.host
        /\ bounced => m.op # "BusMasterCommonBuffer"
        /\ bounced /\ Wide(m.chan) => dev % 2 = 0
    BY <1>1 DEF Places
  <2> QED BY <1>2, <2>1, MappedOK
<1>4. /\ p.host = m.host /\ p.bytes = m.n /\ p.dev = dev /\ p.bounced = bounced
      /\ p.moved = 0 /\ p.got = <<>> /\ p.chan = m.chan /\ p.op = OperationKept(m.op)
  BY DEF Mapped
<1>5. /\ isaMaps' = [isaMaps EXCEPT ![m.chan] = p]
      /\ isaAt' = IF m.op \in Slave THEN [at |-> "mask", chan |-> m.chan] ELSE IsaIdle
      /\ isaHosts' = isaHosts \cup DevOf(p)
                         \cup (IF FromMemory(m.op) THEN {} ELSE HostOf(p))
  BY <1>1, <1>4 DEF Places, Begins, DevOf, HostOf
<1> HIDE DEF p
<1>6. /\ m.chan \in 0..7 /\ (m.op \in Slave => m.chan # 4)
      /\ m.op \notin Slave => m.op \in BusMaster /\ m.chan = 4
      /\ FromMemory(p.op) <=> FromMemory(m.op)
  BY <1>2, <1>4, TakenIs
<1>7. m.host \in Nat /\ m.n \in Nat \ {0} /\ m.host + m.n <= IsaTop
  BY IsaMapsAssumption
<1>8. HostOf(p) \subseteq Callers /\ Callers \subseteq isaUsed
  BY <1>3 DEF MappingOK, IsaInv, UsedOK
<1>9. bounced => DevOf(p) \cap isaUsed = {} /\ dev + m.n <= IsaTop
  BY <1>1, <1>4, <1>7, IsaMapsAssumption DEF Places, FreeRuns, DevOf, Base16MB
<1>10. ~bounced => DevOf(p) = HostOf(p)
  BY <1>1, <1>4 DEF Places, DevOf, HostOf
<1>11. isaMem \in [IsaMemory -> IsaBytes]
  BY DEF IsaInv, IsaTypes
<1>12. AreaOf(p) \subseteq IsaMemory
  <2>1. HostOf(p) \subseteq IsaMemory
    BY <1>4, <1>7, IsaMapsAssumption DEF HostOf, IsaSpan, IsaMemory
  <2>2. CASE bounced
    <3>1. DevOf(p) \subseteq IsaMemory
      BY <1>4, <1>7, <1>9, <2>2, IsaMapsAssumption DEF DevOf, IsaSpan, IsaMemory
    <3> QED BY <2>1, <3>1 DEF AreaOf
  <2>3. CASE ~bounced
    BY <1>10, <2>1, <2>3 DEF AreaOf
  <2> QED BY <2>2, <2>3
<1>13. isaMem' \in [IsaMemory -> IsaBytes]
       /\ (\A x \in IsaMemory : ~(bounced /\ x \in DevOf(p)) => isaMem'[x] = isaMem[x])
  <2>1. CASE UNCHANGED isaMem
    BY <1>11, <2>1
  <2>2. CASE bounced /\ Copied(m.host, dev, m.n)
    <3>1. isaMem' = [a \in IsaMemory |->
                        IF a \in IsaSpan(dev, m.n) THEN isaMem[m.host + (a - dev)] ELSE isaMem[a]]
      BY <1>11, <2>2 DEF Copied
    <3>2. \A a \in IsaSpan(dev, m.n) : m.host + (a - dev) \in IsaMemory
      BY <1>7, IsaMapsAssumption DEF IsaSpan, IsaMemory
    <3>3. isaMem' \in [IsaMemory -> IsaBytes]
      BY <1>11, <3>1, <3>2
    <3>4. \A x \in IsaMemory : x \notin DevOf(p) => isaMem'[x] = isaMem[x]
      BY <1>4, <3>1 DEF DevOf
    <3> QED BY <2>2, <3>3, <3>4
  <2> QED BY <1>1, <2>1, <2>2 DEF Places
<1>14. \A x \in isaUsed : isaMem'[x] = isaMem[x]
  BY <1>9, <1>13 DEF IsaInv, IsaTypes
<1>15. DataOK(p, isaMem')
  <2>1. CASE ~FromMemory(p.op)
    BY <1>4, <2>1 DEF DataOK
  <2>2. CASE FromMemory(p.op)
    <3>1. Len(p.got) = p.moved /\ 0..(p.moved - 1) = {}
      BY <1>4
    <3>2. \A i \in 0..(p.bytes - 1) : isaMem'[p.dev + i] = isaMem'[p.host + i]
      <4>1. CASE ~bounced
        BY <1>1, <1>4, <4>1 DEF Places
      <4>2. CASE bounced
        <5>1. isaMem' = [a \in IsaMemory |->
                  IF a \in IsaSpan(dev, m.n) THEN isaMem[m.host + (a - dev)] ELSE isaMem[a]]
          BY <1>1, <1>4, <1>11, <2>2, <4>2 DEF Places, Copied
        <5> SUFFICES ASSUME NEW i \in 0..(m.n - 1)
                     PROVE  isaMem'[dev + i] = isaMem'[m.host + i]
          BY <1>4
        <5>2. dev + i \in IsaSpan(dev, m.n) /\ dev + i \in IsaMemory
          BY <1>7, <1>9, <4>2, IsaMapsAssumption DEF IsaSpan, IsaMemory
        <5>3. m.host + (dev + i - dev) = m.host + i
          BY <1>7
        <5>4. isaMem'[dev + i] = isaMem[m.host + i]
          BY <5>1, <5>2, <5>3
        <5>5. m.host + i \in isaUsed
          <6>1. m.host + i \in HostOf(p)
            BY <1>4, <1>7 DEF HostOf, IsaSpan
          <6> QED BY <1>8, <6>1
        <5> QED BY <1>14, <5>4, <5>5
      <4> QED BY <4>1, <4>2
    <3> QED BY <3>1, <3>2, <2>2 DEF DataOK
  <2> QED BY <2>1, <2>2
<1>16. \A c \in 0..7 : HasMap(c) => AreaOf(isaMaps[c]) \cap AreaOf(p) = {}
  <2> SUFFICES ASSUME NEW c \in 0..7, HasMap(c)
               PROVE  AreaOf(isaMaps[c]) \cap AreaOf(p) = {}
    OBVIOUS
  <2>1. HostOf(isaMaps[c]) \cap HostOf(p) = {}
    <3>1. IsaSpan(isaMaps[c].host, isaMaps[c].bytes) \cap IsaSpan(m.host, m.n) = {}
      BY DEF IsaIoMap, IsaInv, IsaTypes
    <3> QED BY <1>4, <3>1 DEF HostOf
  <2>2. AreaOf(isaMaps[c]) \subseteq isaUsed
    BY AreaUsed
  <2>3. DevOf(isaMaps[c]) \cap HostOf(p) = {}
    <3>1. MappingOK(c, isaMaps[c]) /\ PlaceOK(isaMaps[c], isaUsed, isaBuffers, isaHosts)
      BY DEF IsaInv, MapsOK
    <3>2. CASE isaMaps[c].bounced
      BY <1>8, <3>1, <3>2 DEF PlaceOK
    <3>3. CASE ~isaMaps[c].bounced
      <4>1. DevOf(isaMaps[c]) = HostOf(isaMaps[c])
        BY <3>1, <3>3 DEF MappingOK, DevOf, HostOf
      <4> QED BY <2>1, <4>1
    <3>4. isaMaps[c].bounced \in BOOLEAN
      BY DEF IsaInv, IsaTypes, Mappings
    <3> QED BY <3>2, <3>3, <3>4
  <2>4. CASE bounced
    BY <1>9, <2>1, <2>2, <2>3, <2>4 DEF AreaOf
  <2>5. CASE ~bounced
    BY <1>10, <2>1, <2>3, <2>5 DEF AreaOf
  <2> QED BY <2>4, <2>5
<1>17. /\ isaMaps'[m.chan] = p /\ isaMaps' \in [0..7 -> Mappings]
       /\ \A c \in 0..7 : c # m.chan => isaMaps'[c] = isaMaps[c]
       /\ p # NoMapping
  BY <1>3, <1>5, <1>6, NoMappingTyped DEF IsaInv, IsaTypes, MappingOK
<1>18. isaUsed' = isaUsed \cup DevOf(p)
  <2>1. CASE bounced
    BY <1>1, <1>4, <2>1 DEF Places, DevOf
  <2>2. CASE ~bounced
    BY <1>1, <1>8, <1>10, <2>2 DEF Places
  <2> QED BY <2>1, <2>2
<1>19. IsaTypes'
  <2>1. isaAt' \in [at : Setting \cup {"idle", "done"}, chan : 0..7]
    BY <1>5, <1>6 DEF Setting, IsaIdle
  <2>2. isaUsed' \subseteq IsaMemory /\ isaHosts' \subseteq IsaMemory
    BY <1>5, <1>12, <1>18 DEF IsaInv, IsaTypes, AreaOf
  <2>3. isaDma' \in [0..7 -> Channels] /\ isaDone' \in Mappings
    BY <1>2, NoMappingTyped DEF IsaInv, IsaTypes
  <2> QED BY <1>13, <1>17, <2>1, <2>2, <2>3 DEF IsaTypes
<1>20. MapsOK'
  <2> SUFFICES ASSUME NEW c \in 0..7, isaMaps'[c] # NoMapping
               PROVE  /\ MappingOK(c, isaMaps'[c])
                      /\ PlaceOK(isaMaps'[c], isaUsed', isaBuffers', isaHosts')
                      /\ DataOK(isaMaps'[c], isaMem')
    BY DEF MapsOK, HasMap
  <2>1. CASE c = m.chan
    <3>1. p.bounced => DevOf(p) \subseteq isaUsed' \ (Callers \cup isaBuffers')
      BY <1>2, <1>4, <1>8, <1>9, <1>18 DEF IsaInv, UsedOK
    <3>2. DevOf(p) \subseteq isaHosts' /\ (~FromMemory(p.op) => HostOf(p) \subseteq isaHosts')
      BY <1>5, <1>6
    <3>3. PlaceOK(p, isaUsed', isaBuffers', isaHosts')
      BY <3>1, <3>2 DEF PlaceOK
    <3> QED BY <1>3, <1>15, <1>17, <2>1, <3>3
  <2>2. CASE c # m.chan
    <3>1. isaMaps'[c] = isaMaps[c] /\ HasMap(c)
      BY <1>17, <2>2 DEF HasMap
    <3>2. MappingOK(c, isaMaps[c]) /\ PlaceOK(isaMaps[c], isaUsed, isaBuffers, isaHosts)
      BY <3>1 DEF IsaInv, MapsOK
    <3>3. PlaceOK(isaMaps[c], isaUsed', isaBuffers', isaHosts')
      BY <1>2, <1>5, <1>18, <3>2 DEF PlaceOK
    <3>4. DataOK(isaMaps[c], isaMem')
      <4>1. \A x \in AreaOf(isaMaps[c]) : isaMem'[x] = isaMem[x]
        BY <1>14, <3>1, AreaUsed
      <4> QED BY <3>1, <4>1, StillData
    <3> QED BY <3>1, <3>2, <3>3, <3>4
  <2> QED BY <2>1, <2>2
<1>21. MapsApart'
  <2> SUFFICES ASSUME NEW c \in 0..7, NEW d \in 0..7, c # d,
                      isaMaps'[c] # NoMapping, isaMaps'[d] # NoMapping
               PROVE  AreaOf(isaMaps'[c]) \cap AreaOf(isaMaps'[d]) = {}
    BY DEF MapsApart, HasMap
  <2>1. CASE c = m.chan
    BY <1>16, <1>17, <2>1 DEF HasMap
  <2>2. CASE d = m.chan
    BY <1>16, <1>17, <2>2 DEF HasMap
  <2>3. CASE c # m.chan /\ d # m.chan
    BY <1>17, <2>3 DEF IsaInv, MapsApart, HasMap
  <2> QED BY <2>1, <2>2, <2>3
<1>22. UsedOK'
  <2>1. CASE bounced
    BY <1>2, <1>8, <1>18 DEF IsaInv, UsedOK
  <2> QED BY <1>2, <1>18 DEF IsaInv, UsedOK
<1>23. PortsOK'
  <2>1. isaDma'[4].masked
    BY <1>2 DEF IsaInv, PortsOK
  <2>2. isaAt'.at # "idle" => isaAt'.chan # 4 /\ isaMaps'[isaAt'.chan] # NoMapping
    BY <1>5, <1>6, <1>17 DEF IsaIdle
  <2>3. ASSUME NEW c \in 0..7 \ {4}, isaMaps'[c] # NoMapping
        PROVE  /\ Programs(c)' => SetSoFar(c, isaDma'[c], isaMaps'[c], isaAt'.at)
               /\ ~Programs(c)' /\ ~isaDma'[c].masked => Runs(c, isaDma'[c], isaMaps'[c])
    <3>1. CASE c = m.chan
      <4>1. m.op \in Slave
        BY <1>6, <3>1
      <4>2. isaAt' = [at |-> "mask", chan |-> c]
        BY <1>5, <3>1, <4>1
      <4>3. Programs(c)'
        BY <4>2 DEF Programs, Setting
      <4>4. SetSoFar(c, isaDma'[c], isaMaps'[c], "mask")
        BY <1>4, <1>17, <3>1 DEF SetSoFar
      <4> QED BY <4>2, <4>3, <4>4
    <3>2. CASE c # m.chan
      <4>1. ~Programs(c)
        BY <1>2 DEF Programs, Setting
      <4>2. ~Programs(c)'
        BY <1>5, <3>2 DEF Programs, Setting, IsaIdle
      <4>3. isaMaps'[c] = isaMaps[c] /\ HasMap(c) /\ isaDma' = isaDma
        BY <1>2, <1>17, <2>3, <3>2 DEF HasMap
      <4>4. ~isaDma[c].masked => Runs(c, isaDma[c], isaMaps[c])
        BY <4>1, <4>3 DEF IsaInv, PortsOK
      <4> QED BY <4>2, <4>3, <4>4
    <3> QED BY <3>1, <3>2
  <2> QED BY <2>1, <2>2, <2>3 DEF PortsOK, HasMap
<1>24. DoneOK' /\ TouchedOK'
  BY <1>2 DEF DoneOK, IsaInv, TouchedOK
<1>25. KeptOK'
  BY <1>5, <1>13 DEF IsaInv, KeptOK
<1> QED BY <1>19, <1>20, <1>21, <1>22, <1>23, <1>24, <1>25 DEF IsaInv
-----------------------------------------------------------------------------
(* A port of the channel that is being set, written or not.                *)
LEMMA PortCases ==
    ASSUME IsaInv, NEW step \in Setting, NEW next \in Setting \cup {"done"}, Port(step, next)
    PROVE  /\ isaAt.at = step /\ isaAt.chan \in 0..7 \ {4} /\ HasMap(isaAt.chan)
           /\ isaAt'.at \in {next, "idle"}
           /\ isaAt'.at = next => isaAt' = [at |-> next, chan |-> isaAt.chan] /\ isaMaps' = isaMaps
           /\ isaAt'.at = "idle" => isaAt' = IsaIdle
                                    /\ isaMaps' = [isaMaps EXCEPT ![isaAt.chan] = NoMapping]
           /\ UNCHANGED <<isaMem, isaUsed, isaBuffers, isaDone, isaTouched, isaHosts>>
<1>1. isaAt \in [at : Setting \cup {"idle", "done"}, chan : 0..7] /\ isaAt.at = step
  BY DEF IsaInv, IsaTypes, Port
<1>2. step # "idle" /\ next # "idle"
  BY DEF Setting
<1>3. isaAt.chan \in 0..7 \ {4} /\ HasMap(isaAt.chan)
  BY <1>1, <1>2 DEF IsaInv, PortsOK
<1>4. UNCHANGED <<isaMem, isaUsed, isaBuffers, isaDone, isaTouched, isaHosts>>
  BY DEF Port
<1>5. CASE isaAt' = [isaAt EXCEPT !.at = next] /\ UNCHANGED isaMaps
  <2>1. isaAt' = [at |-> next, chan |-> isaAt.chan]
    BY <1>1, <1>5
  <2> QED BY <1>1, <1>2, <1>3, <1>4, <1>5, <2>1
<1>6. CASE isaAt' = IsaIdle /\ isaMaps' = [isaMaps EXCEPT ![isaAt.chan] = NoMapping]
  <2>1. isaAt'.at = "idle"
    BY <1>6 DEF IsaIdle
  <2> QED BY <1>1, <1>2, <1>3, <1>4, <1>6, <2>1
<1> QED BY <1>5, <1>6 DEF Port

(* All but the registers stands: a mapping that failed is gone.            *)
LEMMA PortStands ==
    ASSUME IsaInv, NEW step \in Setting, NEW next \in Setting \cup {"done"}, Port(step, next),
           isaDma' \in [0..7 -> Channels]
    PROVE  /\ IsaTypes' /\ MapsOK' /\ MapsApart' /\ UsedOK' /\ DoneOK' /\ KeptOK' /\ TouchedOK'
           /\ \A c \in 0..7 : isaMaps'[c] # NoMapping => isaMaps'[c] = isaMaps[c] /\ HasMap(c)
<1>1. UNCHANGED <<isaMem, isaUsed, isaBuffers, isaDone, isaTouched, isaHosts>>
  BY PortCases
<1>2. isaMaps' \in [0..7 -> Mappings]
      /\ \A c \in 0..7 : isaMaps'[c] # NoMapping => isaMaps'[c] = isaMaps[c] /\ HasMap(c)
  BY PortCases, NoMappingTyped DEF IsaInv, IsaTypes, HasMap
<1>3. isaAt' \in [at : Setting \cup {"idle", "done"}, chan : 0..7]
  BY PortCases DEF IsaIdle
<1>4. IsaTypes'
  BY <1>1, <1>2, <1>3 DEF IsaInv, IsaTypes
<1>5. MapsOK' /\ MapsApart'
  BY <1>1, <1>2 DEF IsaInv, MapsOK, MapsApart, HasMap
<1>6. UsedOK' /\ KeptOK' /\ TouchedOK'
  BY <1>1 DEF IsaInv, UsedOK, KeptOK, TouchedOK
<1>7. DoneOK'
  BY <1>1, <1>2 DEF IsaInv, DoneOK, HasMap
<1> QED BY <1>2, <1>4, <1>5, <1>6, <1>7

LEMMA PortsStand ==
    ASSUME IsaInv, NEW step \in Setting, NEW next \in Setting \cup {"done"}, Port(step, next),
           isaDma' \in [0..7 -> Channels],
           \A c \in 0..7 : c # isaAt.chan => isaDma'[c] = isaDma[c],
           isaAt'.at = next =>
               IF next \in Setting
               THEN SetSoFar(isaAt.chan, isaDma'[isaAt.chan], isaMaps[isaAt.chan], next)
               ELSE Runs(isaAt.chan, isaDma'[isaAt.chan], isaMaps[isaAt.chan])
    PROVE  IsaInv'
<1>1. IsaTypes' /\ MapsOK' /\ MapsApart' /\ UsedOK' /\ DoneOK' /\ KeptOK' /\ TouchedOK'
  BY PortStands
<1>2. isaAt.chan \in 0..7 \ {4} /\ HasMap(isaAt.chan) /\ isaAt'.at \in {next, "idle"}
  BY PortCases
<1>3. isaDma'[4].masked
  BY <1>2 DEF IsaInv, PortsOK
<1>4. isaAt'.at # "idle" => isaAt'.chan # 4 /\ isaMaps'[isaAt'.chan] # NoMapping
  BY <1>2, PortCases DEF HasMap
<1>5. ASSUME NEW c \in 0..7 \ {4}, isaMaps'[c] # NoMapping
      PROVE  /\ Programs(c)' => SetSoFar(c, isaDma'[c], isaMaps'[c], isaAt'.at)
             /\ ~Programs(c)' /\ ~isaDma'[c].masked => Runs(c, isaDma'[c], isaMaps'[c])
  <2>1. CASE c = isaAt.chan
    <3>1. isaAt'.at = next
      <4>1. SUFFICES ASSUME isaAt'.at = "idle" PROVE FALSE
        BY <1>2
      <4>2. isaMaps' = [isaMaps EXCEPT ![c] = NoMapping]
        BY <2>1, <4>1, PortCases
      <4> QED BY <1>5, <4>2 DEF IsaInv, IsaTypes
    <3>2. isaAt' = [at |-> next, chan |-> c] /\ isaMaps' = isaMaps
      BY <2>1, <3>1, PortCases
    <3>3. CASE next \in Setting
      <4>1. Programs(c)'
        BY <3>2, <3>3 DEF Programs
      <4>2. SetSoFar(c, isaDma'[c], isaMaps[c], next)
        BY <2>1, <3>1, <3>3
      <4> QED BY <3>2, <4>1, <4>2
    <3>4. CASE next \notin Setting
      <4>1. ~Programs(c)'
        BY <3>2, <3>4 DEF Programs
      <4>2. Runs(c, isaDma'[c], isaMaps[c])
        BY <2>1, <3>1, <3>4
      <4> QED BY <3>2, <4>1, <4>2
    <3> QED BY <3>3, <3>4
  <2>2. CASE c # isaAt.chan
    <3>1. isaDma'[c] = isaDma[c]
      BY <2>2
    <3>2. isaMaps'[c] = isaMaps[c] /\ HasMap(c)
      BY <1>5, PortStands
    <3>3. ~Programs(c)
      BY <2>2 DEF Programs
    <3>4. ~Programs(c)'
      <4>1. CASE isaAt'.at = "idle"
        BY <4>1 DEF Programs, Setting
      <4>2. CASE isaAt'.at = next
        BY <2>2, <4>2, PortCases DEF Programs
      <4> QED BY <1>2, <4>1, <4>2
    <3>5. ~isaDma[c].masked => Runs(c, isaDma[c], isaMaps[c])
      BY <3>2, <3>3 DEF IsaInv, PortsOK
    <3> QED BY <3>1, <3>2, <3>4, <3>5
  <2> QED BY <2>1, <2>2
<1>6. PortsOK'
  BY <1>3, <1>4, <1>5 DEF PortsOK, HasMap
<1> QED BY <1>1, <1>6 DEF IsaInv
(* The channel that is being set, and its mapping of which nothing is      *)
(* moved.                                                                  *)
LEMMA SettingIs ==
    ASSUME IsaInv, isaAt.at \in Setting
    PROVE  /\ isaAt.chan \in 0..7 \ {4}
           /\ isaDma \in [0..7 -> Channels]
           /\ TheMap \in Mappings /\ MappingOK(isaAt.chan, TheMap)
           /\ SetSoFar(isaAt.chan, isaDma[isaAt.chan], TheMap, isaAt.at)
<1>1. isaAt.at # "idle"
  BY DEF Setting
<1>2. isaAt.chan \in 0..7 \ {4} /\ HasMap(isaAt.chan)
  BY <1>1 DEF IsaInv, PortsOK, IsaTypes
<1>3. Programs(isaAt.chan)
  BY DEF Programs
<1> QED BY <1>2, <1>3 DEF IsaInv, PortsOK, IsaTypes, MapsOK, TheMap

LEMMA Halves ==
    ASSUME NEW d \in Nat, NEW n \in Nat, n >= 1, n <= 4 - (d % 4), d % 2 = 0, n % 2 = 0
    PROVE  /\ (d % 4) \div 2 \in Nat /\ ((d % 4) \div 2) * 2 = d % 4
           /\ (n - 1) \div 2 + 1 \in 0..4 /\ ((n - 1) \div 2 + 1) * 2 = n
<1>1. d % 4 = 0 \/ d % 4 = 2
  OBVIOUS
<1>2. n = 2 \/ n = 4
  OBVIOUS
<1>3. (d % 4) \div 2 \in Nat /\ ((d % 4) \div 2) * 2 = d % 4
  BY <1>1
<1>4. CASE n = 2
  BY <1>3, <1>4
<1>5. CASE n = 4
  BY <1>3, <1>5
<1> QED BY <1>2, <1>4, <1>5

LEMMA ChannelTyped ==
    ASSUME NEW dma \in [0..7 -> Channels], NEW c \in 0..7
    PROVE  /\ [dma EXCEPT ![c].masked = TRUE] \in [0..7 -> Channels]
           /\ [dma EXCEPT ![c].masked = FALSE] \in [0..7 -> Channels]
<1>1. \A b \in BOOLEAN : [dma EXCEPT ![c].masked = b] \in [0..7 -> Channels]
  <2> SUFFICES ASSUME NEW b \in BOOLEAN
               PROVE  [dma EXCEPT ![c].masked = b] \in [0..7 -> Channels]
    OBVIOUS
  <2>1. dma[c] \in Channels
    OBVIOUS
  <2>2. [dma[c] EXCEPT !.masked = b] \in Channels
    BY <2>1 DEF Channels
  <2> QED BY <2>2
<1>2. TRUE \in BOOLEAN /\ FALSE \in BOOLEAN
  OBVIOUS
<1> QED BY <1>1, <1>2, Zenon

(* The numbers that are written for a mapping.                             *)
LEMMA HalfIs ==
    ASSUME IsaInv, isaAt.at \in Setting
    PROVE  /\ Half(TheMap.dev % Segment) \in Nat
           /\ Half(TheMap.dev % Segment) * Width(isaAt.chan) = TheMap.dev % Segment
           /\ Half(TheMap.n - 1) + 1 \in 0..Segment
           /\ (Half(TheMap.n - 1) + 1) * Width(isaAt.chan) = TheMap.n
<1>1. /\ isaAt.chan \in 0..7 \ {4} /\ TheMap \in Mappings /\ MappingOK(isaAt.chan, TheMap)
  BY SettingIs
<1>2. TheMap.dev \in Nat /\ TheMap.n \in Nat /\ TheMap.n >= 1
  BY <1>1 DEF Mappings, MappingOK
<1>3. TheMap.n <= Segment - (TheMap.dev % Segment)
  BY <1>1 DEF MappingOK
<1>4. CASE Wide(isaAt.chan)
  <2>1. TheMap.dev % 2 = 0 /\ TheMap.n % 2 = 0
    BY <1>1, <1>4 DEF MappingOK
  <2>2. /\ Half(TheMap.dev % Segment) = (TheMap.dev % 4) \div 2
        /\ Half(TheMap.n - 1) = (TheMap.n - 1) \div 2
        /\ Width(isaAt.chan) = 2
    BY <1>4 DEF Half, Width, Segment
  <2>3. TheMap.n <= 4 - (TheMap.dev % 4)
    BY <1>3 DEF Segment
  <2>4. /\ (TheMap.dev % 4) \div 2 \in Nat
        /\ ((TheMap.dev % 4) \div 2) * 2 = TheMap.dev % 4
        /\ (TheMap.n - 1) \div 2 + 1 \in 0..4
        /\ ((TheMap.n - 1) \div 2 + 1) * 2 = TheMap.n
    BY <1>2, <2>1, <2>3, Halves
  <2> QED BY <2>2, <2>4 DEF Segment
<1>5. CASE ~Wide(isaAt.chan)
  <2>1. /\ Half(TheMap.dev % Segment) = TheMap.dev % 4
        /\ Half(TheMap.n - 1) = TheMap.n - 1
        /\ Width(isaAt.chan) = 1
    BY <1>5 DEF Half, Width, Segment
  <2> QED BY <1>2, <1>3, <2>1 DEF Segment
<1> QED BY <1>4, <1>5

LEMMA MaskKeeps == IsaInv /\ MaskChannel => IsaInv'
<1> SUFFICES ASSUME IsaInv, MaskChannel PROVE IsaInv'
  OBVIOUS
<1> DEFINE ch == isaAt.chan
<1>1. Port("mask", "mode") /\ "mask" \in Setting /\ "mode" \in Setting
  BY DEF MaskChannel, Setting
<1>2. isaAt.at = "mask"
  BY <1>1 DEF Port
<1>3. ch \in 0..7 \ {4} /\ isaDma \in [0..7 -> Channels] /\ TheMap.moved = 0
  BY <1>1, <1>2, SettingIs DEF SetSoFar
<1>4. isaDma' = isaDma \/ isaDma' = [isaDma EXCEPT ![ch].masked = TRUE]
  BY DEF MaskChannel, WritesPort
<1>5. isaDma' \in [0..7 -> Channels] /\ \A c \in 0..7 : c # ch => isaDma'[c] = isaDma[c]
  <2>1. isaDma' \in [0..7 -> Channels]
    <3>1. [isaDma EXCEPT ![ch].masked = TRUE] \in [0..7 -> Channels]
      <4>1. isaDma \in [0..7 -> Channels] /\ ch \in 0..7
        BY <1>3
      <4> QED BY <4>1, ChannelTyped, Zenon
    <3> QED BY <1>3, <1>4, <3>1, Zenon
  <2>2. \A c \in 0..7 : c # ch => isaDma'[c] = isaDma[c]
    BY <1>3, <1>4
  <2> QED BY <2>1, <2>2
<1>6. isaAt'.at = "mode" => SetSoFar(ch, isaDma'[ch], isaMaps[ch], "mode")
  <2> SUFFICES ASSUME isaAt'.at = "mode"
               PROVE  SetSoFar(ch, isaDma'[ch], isaMaps[ch], "mode")
    OBVIOUS
  <2>1. isaDma' = [isaDma EXCEPT ![ch].masked = TRUE]
    BY DEF MaskChannel, WritesPort
  <2>2. isaDma'[ch].masked
    BY <1>3, <2>1 DEF Channels
  <2> QED BY <1>3, <2>2 DEF SetSoFar, TheMap
<1> QED BY <1>1, <1>5, <1>6, PortsStand

LEMMA ModeKeeps == IsaInv /\ WriteMode => IsaInv'
<1> SUFFICES ASSUME IsaInv, WriteMode PROVE IsaInv'
  OBVIOUS
<1> DEFINE ch == isaAt.chan
<1>1. Port("mode", "address") /\ "mode" \in Setting /\ "address" \in Setting
  BY DEF WriteMode, Setting
<1>2. isaAt.at = "mode"
  BY <1>1 DEF Port
<1>3. /\ ch \in 0..7 \ {4} /\ isaDma \in [0..7 -> Channels]
      /\ SetSoFar(ch, isaDma[ch], isaMaps[ch], "mode")
  BY <1>1, <1>2, SettingIs DEF TheMap
<1>4. isaDma' = isaDma \/ isaDma' = [isaDma EXCEPT ![ch].mode = Direction]
  BY DEF WriteMode, WritesPort
<1>5. isaDma' \in [0..7 -> Channels] /\ \A c \in 0..7 : c # ch => isaDma'[c] = isaDma[c]
  <2>1. Direction \in {"none", "MEM2IO", "IO2MEM"}
    BY DEF Direction
  <2> QED BY <1>3, <1>4, <2>1 DEF Channels
<1>6. isaAt'.at = "address" => SetSoFar(ch, isaDma'[ch], isaMaps[ch], "address")
  <2> SUFFICES ASSUME isaAt'.at = "address"
               PROVE  SetSoFar(ch, isaDma'[ch], isaMaps[ch], "address")
    OBVIOUS
  <2>1. isaDma' = [isaDma EXCEPT ![ch].mode = Direction]
    BY DEF WriteMode, WritesPort
  <2>2. isaDma'[ch].masked = isaDma[ch].masked /\ isaDma'[ch].mode = Direction
    BY <1>3, <2>1 DEF Channels
  <2>3. ModeSet(isaDma'[ch], isaMaps[ch])
    BY <2>2 DEF ModeSet, WayOf, Direction, TheMap
  <2> QED BY <1>3, <2>2, <2>3 DEF SetSoFar
<1> QED BY <1>1, <1>5, <1>6, PortsStand

LEMMA AddressKeeps == IsaInv /\ WriteDmaAddress => IsaInv'
<1> SUFFICES ASSUME IsaInv, WriteDmaAddress PROVE IsaInv'
  OBVIOUS
<1> DEFINE ch == isaAt.chan
           base == Half(TheMap.dev % Segment)
<1>1. Port("address", "page") /\ "address" \in Setting /\ "page" \in Setting
  BY DEF WriteDmaAddress, Setting
<1>2. isaAt.at = "address"
  BY <1>1 DEF Port
<1>3. /\ ch \in 0..7 \ {4} /\ isaDma \in [0..7 -> Channels]
      /\ SetSoFar(ch, isaDma[ch], isaMaps[ch], "address")
      /\ isaMaps[ch].dev \in Nat
  BY <1>1, <1>2, SettingIs DEF TheMap, Mappings
<1>4. isaDma' = isaDma \/ isaDma' = [isaDma EXCEPT ![ch].base = base]
  BY DEF WriteDmaAddress, WritesPort
<1>5. base \in Nat /\ base * Width(ch) = isaMaps[ch].dev % Segment
  BY <1>1, <1>2, HalfIs DEF TheMap
<1> HIDE DEF base
<1>6. isaDma' \in [0..7 -> Channels] /\ \A c \in 0..7 : c # ch => isaDma'[c] = isaDma[c]
  BY <1>3, <1>4, <1>5 DEF Channels
<1>7. isaAt'.at = "page" => SetSoFar(ch, isaDma'[ch], isaMaps[ch], "page")
  <2> SUFFICES ASSUME isaAt'.at = "page"
               PROVE  SetSoFar(ch, isaDma'[ch], isaMaps[ch], "page")
    OBVIOUS
  <2>1. isaDma' = [isaDma EXCEPT ![ch].base = base]
    BY DEF WriteDmaAddress, WritesPort, base
  <2>2. /\ isaDma'[ch].masked = isaDma[ch].masked /\ isaDma'[ch].mode = isaDma[ch].mode
        /\ isaDma'[ch].base = base
    BY <1>3, <2>1 DEF Channels
  <2>3. isaMaps[ch].moved = 0 /\ isaDma[ch].masked /\ ModeSet(isaDma[ch], isaMaps[ch])
    BY <1>3 DEF SetSoFar
  <2>4. BaseSet(ch, isaDma'[ch], isaMaps[ch])
    BY <1>3, <1>5, <2>2, <2>3 DEF BaseSet, Segment
  <2>5. ModeSet(isaDma'[ch], isaMaps[ch])
    BY <2>2, <2>3 DEF ModeSet
  <2> QED BY <2>2, <2>3, <2>4, <2>5 DEF SetSoFar
<1> QED BY <1>1, <1>6, <1>7, PortsStand

LEMMA PageKeeps == IsaInv /\ WriteDmaPage => IsaInv'
<1> SUFFICES ASSUME IsaInv, WriteDmaPage PROVE IsaInv'
  OBVIOUS
<1> DEFINE ch == isaAt.chan
           page == TheMap.dev \div Segment
<1>1. Port("page", "count") /\ "page" \in Setting /\ "count" \in Setting
  BY DEF WriteDmaPage, Setting
<1>2. isaAt.at = "page"
  BY <1>1 DEF Port
<1>3. /\ ch \in 0..7 \ {4} /\ isaDma \in [0..7 -> Channels]
      /\ SetSoFar(ch, isaDma[ch], isaMaps[ch], "page")
      /\ TheMap.dev \in Nat
  BY <1>1, <1>2, SettingIs DEF TheMap, Mappings
<1>4. isaDma' = isaDma \/ isaDma' = [isaDma EXCEPT ![ch].page = page]
  BY DEF WriteDmaPage, WritesPort
<1>5. page \in Nat /\ page = isaMaps[ch].dev \div Segment
  BY <1>3 DEF TheMap, Segment
<1> HIDE DEF page
<1>6. isaDma' \in [0..7 -> Channels] /\ \A c \in 0..7 : c # ch => isaDma'[c] = isaDma[c]
  BY <1>3, <1>4, <1>5 DEF Channels
<1>7. isaAt'.at = "count" => SetSoFar(ch, isaDma'[ch], isaMaps[ch], "count")
  <2> SUFFICES ASSUME isaAt'.at = "count"
               PROVE  SetSoFar(ch, isaDma'[ch], isaMaps[ch], "count")
    OBVIOUS
  <2>1. isaDma' = [isaDma EXCEPT ![ch].page = page]
    BY DEF WriteDmaPage, WritesPort, page
  <2>2. /\ isaDma'[ch].masked = isaDma[ch].masked /\ isaDma'[ch].mode = isaDma[ch].mode
        /\ isaDma'[ch].base = isaDma[ch].base /\ isaDma'[ch].page = page
    BY <1>3, <2>1 DEF Channels
  <2>3. /\ isaMaps[ch].moved = 0 /\ isaDma[ch].masked /\ ModeSet(isaDma[ch], isaMaps[ch])
        /\ BaseSet(ch, isaDma[ch], isaMaps[ch])
    BY <1>3 DEF SetSoFar
  <2>4. ModeSet(isaDma'[ch], isaMaps[ch]) /\ BaseSet(ch, isaDma'[ch], isaMaps[ch])
        /\ PageSet(isaDma'[ch], isaMaps[ch])
    BY <1>5, <2>2, <2>3 DEF ModeSet, BaseSet, PageSet
  <2> QED BY <2>2, <2>3, <2>4 DEF SetSoFar
<1> QED BY <1>1, <1>6, <1>7, PortsStand

LEMMA CountKeeps == IsaInv /\ WriteDmaCount => IsaInv'
<1> SUFFICES ASSUME IsaInv, WriteDmaCount PROVE IsaInv'
  OBVIOUS
<1> DEFINE ch == isaAt.chan
           left == Half(TheMap.n - 1) + 1
<1>1. Port("count", "unmask") /\ "count" \in Setting /\ "unmask" \in Setting
  BY DEF WriteDmaCount, Setting
<1>2. isaAt.at = "count"
  BY <1>1 DEF Port
<1>3. /\ ch \in 0..7 \ {4} /\ isaDma \in [0..7 -> Channels]
      /\ SetSoFar(ch, isaDma[ch], isaMaps[ch], "count")
      /\ isaMaps[ch].n \in Nat
  BY <1>1, <1>2, SettingIs DEF TheMap, Mappings
<1>4. isaDma' = isaDma \/ isaDma' = [isaDma EXCEPT ![ch].left = left]
  BY DEF WriteDmaCount, WritesPort
<1>5. left \in 0..Segment /\ left * Width(ch) = isaMaps[ch].n
  BY <1>1, <1>2, HalfIs DEF TheMap
<1> HIDE DEF left
<1>6. isaDma' \in [0..7 -> Channels] /\ \A c \in 0..7 : c # ch => isaDma'[c] = isaDma[c]
  BY <1>3, <1>4, <1>5 DEF Channels
<1>7. isaAt'.at = "unmask" => SetSoFar(ch, isaDma'[ch], isaMaps[ch], "unmask")
  <2> SUFFICES ASSUME isaAt'.at = "unmask"
               PROVE  SetSoFar(ch, isaDma'[ch], isaMaps[ch], "unmask")
    OBVIOUS
  <2>1. isaDma' = [isaDma EXCEPT ![ch].left = left]
    BY DEF WriteDmaCount, WritesPort, left
  <2>2. /\ isaDma'[ch].masked = isaDma[ch].masked /\ isaDma'[ch].mode = isaDma[ch].mode
        /\ isaDma'[ch].base = isaDma[ch].base /\ isaDma'[ch].page = isaDma[ch].page
        /\ isaDma'[ch].left = left
    BY <1>3, <2>1 DEF Channels
  <2>3. /\ isaMaps[ch].moved = 0 /\ isaDma[ch].masked /\ ModeSet(isaDma[ch], isaMaps[ch])
        /\ BaseSet(ch, isaDma[ch], isaMaps[ch]) /\ PageSet(isaDma[ch], isaMaps[ch])
    BY <1>3 DEF SetSoFar
  <2>4. ModeSet(isaDma'[ch], isaMaps[ch]) /\ BaseSet(ch, isaDma'[ch], isaMaps[ch])
        /\ PageSet(isaDma'[ch], isaMaps[ch])
    BY <2>2, <2>3 DEF ModeSet, BaseSet, PageSet
  <2>5. LeftSet(ch, isaDma'[ch], isaMaps[ch])
    BY <1>3, <1>5, <2>2, <2>3 DEF LeftSet
  <2> QED BY <2>2, <2>3, <2>4, <2>5 DEF SetSoFar
<1> QED BY <1>1, <1>6, <1>7, PortsStand

LEMMA UnmaskKeeps == IsaInv /\ UnmaskChannel => IsaInv'
<1> SUFFICES ASSUME IsaInv, UnmaskChannel PROVE IsaInv'
  OBVIOUS
<1> DEFINE ch == isaAt.chan
<1>1. Port("unmask", "done") /\ "unmask" \in Setting /\ "done" \notin Setting
  BY DEF UnmaskChannel, Setting
<1>2. isaAt.at = "unmask"
  BY <1>1 DEF Port
<1>3. /\ ch \in 0..7 \ {4} /\ isaDma \in [0..7 -> Channels]
      /\ SetSoFar(ch, isaDma[ch], isaMaps[ch], "unmask")
  BY <1>1, <1>2, SettingIs DEF TheMap
<1>4. isaDma' = isaDma \/ isaDma' = [isaDma EXCEPT ![ch].masked = FALSE]
  BY DEF UnmaskChannel
<1>5. isaDma' \in [0..7 -> Channels] /\ \A c \in 0..7 : c # ch => isaDma'[c] = isaDma[c]
  <2>1. isaDma' \in [0..7 -> Channels]
    <3>1. [isaDma EXCEPT ![ch].masked = FALSE] \in [0..7 -> Channels]
      <4>1. isaDma \in [0..7 -> Channels] /\ ch \in 0..7
        BY <1>3
      <4> QED BY <4>1, ChannelTyped, Zenon
    <3> QED BY <1>3, <1>4, <3>1, Zenon
  <2>2. \A c \in 0..7 : c # ch => isaDma'[c] = isaDma[c]
    BY <1>3, <1>4
  <2> QED BY <2>1, <2>2
<1>6. /\ isaDma'[ch].mode = isaDma[ch].mode /\ isaDma'[ch].base = isaDma[ch].base
      /\ isaDma'[ch].page = isaDma[ch].page /\ isaDma'[ch].left = isaDma[ch].left
  BY <1>3, <1>4 DEF Channels
<1>7. Runs(ch, isaDma'[ch], isaMaps[ch])
  BY <1>3, <1>6 DEF SetSoFar, Runs, ModeSet, BaseSet, PageSet, LeftSet
<1> QED BY <1>1, <1>5, <1>7, PortsStand

LEMMA ReturnKeeps == IsaInv /\ MapReturns => IsaInv'
<1> SUFFICES ASSUME IsaInv, MapReturns PROVE IsaInv'
  OBVIOUS
<1>1. isaAt.at = "done" /\ isaAt' = IsaIdle
      /\ UNCHANGED <<isaMem, isaUsed, isaBuffers, isaMaps, isaDma, isaDone, isaTouched, isaHosts>>
  BY DEF MapReturns
<1>2. IsaTypes'
  BY <1>1 DEF IsaInv, IsaTypes, IsaIdle
<1>3. MapsOK' /\ MapsApart' /\ UsedOK' /\ DoneOK' /\ KeptOK' /\ TouchedOK'
  BY <1>1 DEF IsaInv, MapsOK, MapsApart, UsedOK, DoneOK, KeptOK, TouchedOK, HasMap
<1>4. \A c \in 0..7 : ~Programs(c) /\ ~Programs(c)'
  BY <1>1 DEF Programs, Setting, IsaIdle
<1>5. PortsOK'
  BY <1>1, <1>4 DEF IsaInv, PortsOK, HasMap, IsaIdle
<1> QED BY <1>2, <1>3, <1>5 DEF IsaInv
-----------------------------------------------------------------------------
(* A mapping of which more is moved: memory changes where it is mapped.    *)
LEMMA MovedOn ==
    ASSUME IsaInv, NEW c \in 0..7, HasMap(c), NEW q \in Mappings, MappingOK(c, q),
           DataOK(q, isaMem'),
           q.host = isaMaps[c].host, q.dev = isaMaps[c].dev, q.bytes = isaMaps[c].bytes,
           q.bounced = isaMaps[c].bounced, q.op = isaMaps[c].op,
           isaMaps' = [isaMaps EXCEPT ![c] = q],
           isaMem' \in [IsaMemory -> IsaBytes],
           \A x \in IsaMemory \ DevOf(isaMaps[c]) : isaMem'[x] = isaMem[x],
           isaDma' \in [0..7 -> Channels],
           UNCHANGED <<isaUsed, isaBuffers, isaAt, isaDone, isaTouched, isaHosts>>,
           PortsOK'
    PROVE  IsaInv'
<1> DEFINE p == isaMaps[c]
<1>1. q # NoMapping
  BY NoMappingTyped DEF MappingOK
<1>2. /\ isaMaps' \in [0..7 -> Mappings] /\ isaMaps'[c] = q
      /\ \A d \in 0..7 : d # c => isaMaps'[d] = isaMaps[d]
  BY DEF IsaInv, IsaTypes
<1>3. AreaOf(q) = AreaOf(p) /\ HostOf(q) = HostOf(p) /\ DevOf(q) = DevOf(p)
  BY DEF AreaOf, HostOf, DevOf
<1>4. IsaTypes'
  BY <1>2 DEF IsaInv, IsaTypes
<1>5. \A d \in 0..7 : isaMaps'[d] # NoMapping => HasMap(d)
  BY <1>2 DEF HasMap
<1>6. \A x \in isaUsed : x \notin AreaOf(p) => isaMem'[x] = isaMem[x]
  BY DEF IsaInv, IsaTypes, AreaOf
<1>7. MapsOK'
  <2> SUFFICES ASSUME NEW d \in 0..7, isaMaps'[d] # NoMapping
               PROVE  /\ MappingOK(d, isaMaps'[d])
                      /\ PlaceOK(isaMaps'[d], isaUsed, isaBuffers, isaHosts)
                      /\ DataOK(isaMaps'[d], isaMem')
    BY DEF MapsOK, HasMap
  <2>1. CASE d = c
    <3>1. PlaceOK(p, isaUsed, isaBuffers, isaHosts)
      BY DEF IsaInv, MapsOK
    <3>2. PlaceOK(q, isaUsed, isaBuffers, isaHosts)
      BY <1>3, <3>1 DEF PlaceOK
    <3> QED BY <1>2, <2>1, <3>2
  <2>2. CASE d # c
    <3>1. isaMaps'[d] = isaMaps[d] /\ HasMap(d)
      BY <1>2, <1>5, <2>2
    <3>2. MappingOK(d, isaMaps[d]) /\ PlaceOK(isaMaps[d], isaUsed, isaBuffers, isaHosts)
      BY <3>1 DEF IsaInv, MapsOK
    <3>3. AreaOf(isaMaps[d]) \cap AreaOf(p) = {} /\ AreaOf(isaMaps[d]) \subseteq isaUsed
      BY <2>2, <3>1, AreaUsed DEF IsaInv, MapsApart
    <3>4. DataOK(isaMaps[d], isaMem')
      <4>1. \A x \in AreaOf(isaMaps[d]) : isaMem'[x] = isaMem[x]
        BY <1>6, <3>3
      <4> QED BY <3>1, <4>1, StillData
    <3> QED BY <3>1, <3>2, <3>4
  <2> QED BY <2>1, <2>2
<1>8. MapsApart'
  <2> SUFFICES ASSUME NEW d \in 0..7, NEW e \in 0..7, d # e,
                      isaMaps'[d] # NoMapping, isaMaps'[e] # NoMapping
               PROVE  AreaOf(isaMaps'[d]) \cap AreaOf(isaMaps'[e]) = {}
    BY DEF MapsApart, HasMap
  <2>1. HasMap(d) /\ HasMap(e)
    BY <1>5
  <2>2. AreaOf(isaMaps[d]) \cap AreaOf(isaMaps[e]) = {}
    BY <2>1 DEF IsaInv, MapsApart
  <2>3. AreaOf(isaMaps'[d]) = AreaOf(isaMaps[d]) /\ AreaOf(isaMaps'[e]) = AreaOf(isaMaps[e])
    BY <1>2, <1>3
  <2> QED BY <2>2, <2>3
<1>9. UsedOK' /\ TouchedOK'
  BY DEF IsaInv, UsedOK, TouchedOK
<1>10. DoneOK'
  <2> SUFFICES ASSUME isaDone # NoMapping
               PROVE  /\ isaDone.n \in 1..isaDone.bytes /\ isaDone.moved \in 0..isaDone.n
                      /\ HostOf(isaDone) \subseteq Callers
                      /\ \A d \in 0..7 : isaMaps'[d] # NoMapping =>
                             HostOf(isaDone) \cap AreaOf(isaMaps'[d]) = {}
                      /\ MovedOK(isaDone, isaMem')
    BY DEF DoneOK, HasMap
  <2>1. /\ isaDone.n \in 1..isaDone.bytes /\ isaDone.moved \in 0..isaDone.n
        /\ HostOf(isaDone) \subseteq Callers
        /\ \A d \in 0..7 : HasMap(d) => HostOf(isaDone) \cap AreaOf(isaMaps[d]) = {}
    BY DEF IsaInv, DoneOK
  <2>2. ASSUME NEW d \in 0..7, isaMaps'[d] # NoMapping
        PROVE  HostOf(isaDone) \cap AreaOf(isaMaps'[d]) = {}
    <3>1. HostOf(isaDone) \cap AreaOf(isaMaps[d]) = {}
      BY <1>5, <2>1, <2>2
    <3>2. AreaOf(isaMaps'[d]) = AreaOf(isaMaps[d])
      BY <1>2, <1>3
    <3> QED BY <3>1, <3>2
  <2>3. \A x \in HostOf(isaDone) : isaMem'[x] = isaMem[x]
    BY <1>6, <2>1 DEF IsaInv, UsedOK
  <2>4. MovedOK(isaDone, isaMem')
    BY <2>3, StillDone
  <2> QED BY <2>1, <2>2, <2>4
<1>11. KeptOK'
  <2>1. DevOf(p) \subseteq isaHosts
    BY DEF IsaInv, MapsOK, PlaceOK
  <2> QED BY <2>1 DEF IsaInv, KeptOK
<1> QED BY <1>4, <1>7, <1>8, <1>9, <1>10, <1>11 DEF IsaInv
(* A channel that transfers names the next byte of its mapping, and there  *)
(* is room for as many as it transfers.                                    *)
LEMMA AimIs ==
    ASSUME IsaInv, NEW c \in 0..7, Requests(c), ~isaDma[c].masked, isaDma[c].left > 0
    PROVE  /\ c # 4 /\ HasMap(c) /\ ~Programs(c)
           /\ Runs(c, isaDma[c], isaMaps[c])
           /\ ChannelAddress(c) = isaMaps[c].dev + isaMaps[c].moved
           /\ isaMaps[c].moved + Width(c) <= isaMaps[c].n
<1>1. HasMap(c) /\ c # 4
  BY DEF Requests, HasMap, IsaInv, PortsOK
<1>2. ~Programs(c)
  <2> SUFFICES ASSUME Programs(c) PROVE FALSE
    OBVIOUS
  <2>1. SetSoFar(c, isaDma[c], isaMaps[c], isaAt.at)
    BY <1>1 DEF IsaInv, PortsOK
  <2>2. isaAt.at # "mask"
    BY DEF Requests, Programs
  <2> QED BY <2>1, <2>2 DEF SetSoFar
<1>3. Runs(c, isaDma[c], isaMaps[c])
  BY <1>1, <1>2 DEF IsaInv, PortsOK
<1>4. /\ isaMaps[c].dev \in Nat /\ isaMaps[c].moved \in Nat /\ isaMaps[c].n \in Nat
      /\ isaDma[c].base \in Nat /\ isaDma[c].page \in Nat /\ isaDma[c].left \in Nat
  <2>1. isaMaps[c] \in Mappings /\ isaDma[c] \in Channels
    BY DEF IsaInv, IsaTypes
  <2>2. isaMaps[c].dev \in Nat /\ isaMaps[c].moved \in Nat /\ isaMaps[c].n \in Nat
    BY <2>1 DEF Mappings
  <2>3. isaDma[c].base \in Nat /\ isaDma[c].page \in Nat /\ isaDma[c].left \in 0..4
    BY <2>1 DEF Channels, Segment
  <2> QED BY <2>2, <2>3
<1>5. Width(c) = 1 \/ Width(c) = 2
  BY DEF Width
<1>6. ChannelAddress(c) = isaMaps[c].dev + isaMaps[c].moved
  <2>1. isaDma[c].base * Width(c) = (isaMaps[c].dev % 4) + isaMaps[c].moved
        /\ isaDma[c].page = isaMaps[c].dev \div 4
    BY <1>3 DEF Runs, BaseSet, PageSet, Segment
  <2>2. ChannelAddress(c) = (isaMaps[c].dev \div 4) * 4
                                + ((isaMaps[c].dev % 4) + isaMaps[c].moved)
    BY <2>1 DEF ChannelAddress, Segment
  <2> QED BY <1>4, <2>2
<1>7. isaMaps[c].moved + Width(c) <= isaMaps[c].n
  <2>1. isaDma[c].left * Width(c) = isaMaps[c].n - isaMaps[c].moved
    BY <1>3 DEF Runs, LeftSet
  <2>2. CASE Width(c) = 1
    BY <1>4, <2>1, <2>2
  <2>3. CASE Width(c) = 2
    BY <1>4, <2>1, <2>3
  <2> QED BY <1>5, <2>2, <2>3
<1> QED BY <1>1, <1>2, <1>3, <1>6, <1>7

(* What is left after a transfer of w bytes of which the channel has done  *)
(* all but the last.                                                       *)
Aims(w, dev, moved, n, base, left) ==
    /\ w \in {1, 2} /\ dev \in Nat /\ moved \in Nat /\ n \in Nat /\ base \in Nat /\ left \in Nat
    /\ n <= 4 - (dev % 4)
    /\ base * w = (dev % 4) + moved
    /\ left * w = n - moved
LEMMA AimsNext ==
    ASSUME NEW w, NEW dev, NEW moved, NEW n, NEW base, NEW left,
           Aims(w, dev, moved, n, base, left), left > 1
    PROVE  /\ ((base + 1) % (4 \div w)) * w = (dev % 4) + (moved + w)
           /\ (left - 1) * w = n - (moved + w)
<1> USE DEF Aims
<1>1. CASE w = 1
  <2>1. base + 1 < 4
    BY <1>1
  <2>2. (base + 1) % 4 = base + 1
    BY <2>1
  <2>3. 4 \div w = 4
    BY <1>1
  <2> QED BY <1>1, <2>2, <2>3
<1>2. CASE w = 2
  <2>1. base + 1 < 2
    BY <1>2
  <2>2. (base + 1) % 2 = base + 1
    BY <2>1
  <2>3. 4 \div w = 2
    BY <1>2
  <2> QED BY <1>2, <2>2, <2>3
<1> QED BY <1>1, <1>2

(* The mapping of which w bytes more are moved, but for the data.          *)
WithMore(p, w, got, q) ==
    /\ w \in {1, 2} /\ p.moved + w <= p.n /\ got \in Seq(IsaBytes)
    /\ q = [p EXCEPT !.moved = @ + w, !.got = got]
LEMMA MoreIsOK ==
    ASSUME NEW c \in 0..7, NEW p \in Mappings, MappingOK(c, p),
           NEW w, NEW got, NEW q, WithMore(p, w, got, q), c # 4 /\ Wide(c) => w = 2
    PROVE  /\ q \in Mappings /\ MappingOK(c, q)
           /\ q.host = p.host /\ q.dev = p.dev /\ q.bytes = p.bytes
           /\ q.bounced = p.bounced /\ q.op = p.op /\ q.n = p.n /\ q.chan = p.chan
           /\ q.moved = p.moved + w /\ q.got = got
<1> USE DEF WithMore
<1>1. p.moved \in Nat /\ p.n \in Nat /\ w \in Nat
  BY DEF Mappings
<1>2. q \in Mappings
  <2>1. p.moved + w \in Nat
    BY <1>1
  <2> QED BY <2>1 DEF Mappings
<1>3. /\ q.host = p.host /\ q.dev = p.dev /\ q.bytes = p.bytes
      /\ q.bounced = p.bounced /\ q.op = p.op /\ q.n = p.n /\ q.chan = p.chan
      /\ q.moved = p.moved + w /\ q.got = got
  BY DEF Mappings
<1>4. q.moved \in 0..q.n
  BY <1>1, <1>3
<1>5. c # 4 /\ Wide(c) => q.moved % 2 = 0
  <2> SUFFICES ASSUME c # 4, Wide(c) PROVE q.moved % 2 = 0
    OBVIOUS
  <2>1. p.moved % 2 = 0 /\ w = 2
    BY DEF MappingOK
  <2> QED BY <1>1, <1>3, <2>1
<1>6. HostOf(q) = HostOf(p)
  BY <1>3 DEF HostOf
<1>7. MappingOK(c, q)
  BY <1>3, <1>4, <1>5, <1>6 DEF MappingOK
<1> QED BY <1>2, <1>3, <1>7

(* w bytes that the device wrote to where the mapping is.                  *)
HasRoom(dev, moved, w, bytes) ==
    /\ dev \in Nat /\ moved \in Nat /\ w \in Nat /\ bytes \in Nat
    /\ moved + w <= bytes /\ IsaSpan(dev, bytes) \subseteq IsaMemory
Writes(new, mem, c, dev, moved, w) ==
    new = [x \in IsaMemory |->
              IF x \in IsaSpan(dev + moved, w) THEN DeviceByte(c, moved + (x - (dev + moved)))
              ELSE mem[x]]
Wrote(mem, c, dev, moved) == \A i \in 0..(moved - 1) : mem[dev + i] = DeviceByte(c, i)
LEMMA WroteMore ==
    ASSUME NEW c \in 0..7, NEW dev, NEW moved, NEW bytes, NEW w, HasRoom(dev, moved, w, bytes),
           NEW mem \in [IsaMemory -> IsaBytes], Wrote(mem, c, dev, moved),
           NEW new, Writes(new, mem, c, dev, moved, w)
    PROVE  /\ new \in [IsaMemory -> IsaBytes]
           /\ \A x \in IsaMemory \ IsaSpan(dev, bytes) : new[x] = mem[x]
           /\ Wrote(new, c, dev, moved + w)
<1> USE DEF HasRoom, Writes, Wrote
<1> DEFINE a == dev + moved
<1>1. \A x \in IsaSpan(a, w) : x \in IsaSpan(dev, bytes) /\ moved + (x - a) \in Nat
  BY DEF IsaSpan
<1>2. \A k \in Nat : DeviceByte(c, k) \in IsaBytes
  BY DEF IsaBytes
<1>3. new \in [IsaMemory -> IsaBytes]
  BY <1>1, <1>2
<1>4. \A x \in IsaMemory \ IsaSpan(dev, bytes) : new[x] = mem[x]
  BY <1>1
<1>5. ASSUME NEW i \in 0..(moved + w - 1)
      PROVE  new[dev + i] = DeviceByte(c, i)
  <2>1. dev + i \in IsaMemory
    <3>1. dev + i \in IsaSpan(dev, bytes)
      BY DEF IsaSpan
    <3> QED BY <3>1
  <2>2. CASE i < moved
    <3>1. dev + i \notin IsaSpan(a, w)
      BY <2>2 DEF IsaSpan
    <3>2. mem[dev + i] = DeviceByte(c, i)
      BY <2>2
    <3> QED BY <2>1, <3>1, <3>2
  <2>3. CASE i >= moved
    <3>1. dev + i \in IsaSpan(a, w)
      BY <2>3 DEF IsaSpan
    <3>2. moved + (dev + i - a) = i
      OBVIOUS
    <3>3. new[dev + i] = DeviceByte(c, moved + (dev + i - a))
      BY <2>1, <3>1
    <3> QED BY <3>2, <3>3
  <2> QED BY <2>2, <2>3
<1> QED BY <1>3, <1>4, <1>5

(* w bytes that the device got from where the mapping is.                  *)
Reads(more, mem, dev, moved, w) == more = [i \in 1..w |-> mem[dev + moved + i - 1]]
Got(got, mem, host, moved) ==
    /\ got \in Seq(IsaBytes) /\ Len(got) = moved
    /\ \A i \in 0..(moved - 1) : got[i + 1] = mem[host + i]
SameAt(mem, dev, host, bytes) ==
    host \in Nat /\ \A i \in 0..(bytes - 1) : mem[dev + i] = mem[host + i]
LEMMA GotMore ==
    ASSUME NEW got, NEW host, NEW dev, NEW moved, NEW bytes, NEW w, HasRoom(dev, moved, w, bytes),
           NEW mem \in [IsaMemory -> IsaBytes],
           Got(got, mem, host, moved), SameAt(mem, dev, host, bytes),
           NEW more, Reads(more, mem, dev, moved, w)
    PROVE  Got(got \o more, mem, host, moved + w)
<1> USE DEF HasRoom, Reads, Got, SameAt
<1>1. \A i \in 1..w : dev + moved + i - 1 \in IsaMemory
  <2>1. \A i \in 1..w : dev + moved + i - 1 \in IsaSpan(dev, bytes)
    BY DEF IsaSpan
  <2> QED BY <2>1
<1>2. more \in [1..w -> IsaBytes]
  BY <1>1
<1>3. more \in Seq(IsaBytes) /\ Len(more) = w
  <2>1. \A s : s \in [1..w -> IsaBytes] => s \in Seq(IsaBytes) /\ Len(s) = w
    OBVIOUS
  <2> QED BY <1>2, <2>1, Zenon
<1>4. /\ got \o more \in Seq(IsaBytes)
      /\ Len(got \o more) = moved + w
      /\ \A i \in 1..(moved + w) :
             (got \o more)[i] = IF i <= moved THEN got[i] ELSE more[i - moved]
  <2>1. /\ got \o more \in Seq(IsaBytes)
        /\ Len(got \o more) = Len(got) + Len(more)
        /\ \A i \in 1..(Len(got) + Len(more)) :
               (got \o more)[i] = IF i <= Len(got) THEN got[i] ELSE more[i - Len(got)]
    <3> HIDE DEF HasRoom, Reads, SameAt
    <3>1. got \in Seq(IsaBytes) /\ more \in Seq(IsaBytes)
      BY <1>3, Zenon
    <3> HIDE DEF Got
    <3> QED BY <3>1, ConcatProperties, Zenon
  <2> QED BY <1>3, <2>1, Zenon
<1>5. ASSUME NEW i \in 0..((moved + w) - 1)
      PROVE  (got \o more)[i + 1] = mem[host + i]
  <2>1. CASE i < moved
    <3>1. (got \o more)[i + 1] = got[i + 1]
      <4>1. i + 1 \in 1..(moved + w) /\ i + 1 <= moved
        BY <2>1
      <4>2. (got \o more)[i + 1] = IF i + 1 <= moved THEN got[i + 1] ELSE more[(i + 1) - moved]
        BY <1>4, <4>1, Zenon
      <4> QED BY <4>1, <4>2, Zenon
    <3>2. i \in 0..(moved - 1)
      BY <2>1
    <3>3. got[i + 1] = mem[host + i]
      BY <3>2, Zenon
    <3> QED BY <3>1, <3>3, Zenon
  <2>2. CASE i >= moved
    <3>1. PICK j \in 1..w : j = (i + 1) - moved
      BY <2>2
    <3>5. dev + moved + j - 1 = dev + i
      BY <3>1
    <3>2. (got \o more)[i + 1] = more[j]
      <4>1. i + 1 \in 1..(moved + w) /\ ~(i + 1 <= moved)
        BY <2>2
      <4>2. (got \o more)[i + 1] = IF i + 1 <= moved THEN got[i + 1] ELSE more[(i + 1) - moved]
        BY <1>4, <4>1, Zenon
      <4>3. (got \o more)[i + 1] = more[(i + 1) - moved]
        BY <4>1, <4>2
      <4> QED BY <3>1, <4>3
    <3>3. more[j] = mem[dev + i]
      BY <3>5
    <3>4. mem[dev + i] = mem[host + i]
      OBVIOUS
    <3> QED BY <3>2, <3>3, <3>4
  <2> QED BY <2>1, <2>2
<1> QED BY <1>4, <1>5, Zenon

(* A transfer leaves the registers at the byte that is next.               *)
LEMMA PortsAfter ==
    ASSUME IsaInv, NEW c \in 0..7, DmaTransfer(c),
           NEW q \in Mappings, isaMaps' = [isaMaps EXCEPT ![c] = q],
           q.dev = isaMaps[c].dev, q.op = isaMaps[c].op, q.n = isaMaps[c].n,
           q.moved = isaMaps[c].moved + Width(c)
    PROVE  isaDma' \in [0..7 -> Channels] /\ PortsOK'
<1> DEFINE ch == isaDma[c]
           p == isaMaps[c]
<1>1. Requests(c) /\ ~ch.masked /\ ch.left > 0 /\ Advanced8237(c) /\ isaAt' = isaAt
  BY DEF DmaTransfer
<1>2. /\ c # 4 /\ HasMap(c) /\ ~Programs(c) /\ Runs(c, ch, p)
      /\ p.moved + Width(c) <= p.n
  BY <1>1, AimIs
<1>3. ch \in Channels /\ p \in Mappings /\ isaDma \in [0..7 -> Channels]
      /\ isaMaps \in [0..7 -> Mappings]
  BY DEF IsaInv, IsaTypes
<1>4. /\ p.dev \in Nat /\ p.moved \in Nat /\ p.n \in Nat
      /\ ch.base \in Nat /\ ch.page \in Nat /\ ch.left \in 0..4
  BY <1>3 DEF Mappings, Channels, Segment
<1>5. Width(c) \in {1, 2}
  BY DEF Width
<1> DEFINE base == (ch.base + 1) % (Segment \div Width(c))
           last == (ch.left = 1)
<1>6. base \in Nat /\ ch.left - 1 \in 0..4
  <2>1. \A x \in Nat : x % 4 \in Nat /\ x % 2 \in Nat
    OBVIOUS
  <2>2. Segment \div Width(c) = 4 \/ Segment \div Width(c) = 2
    BY <1>5 DEF Segment
  <2> QED BY <1>1, <1>4, <2>1, <2>2
<1> HIDE DEF base
<1>7. isaDma' = [isaDma EXCEPT ![c].base = base, ![c].left = ch.left - 1, ![c].masked = last]
  BY <1>1 DEF Advanced8237, base
<1>8. last \in BOOLEAN
  OBVIOUS
<1> HIDE DEF last
<1>9. /\ isaDma' \in [0..7 -> Channels]
      /\ \A d \in 0..7 : d # c => isaDma'[d] = isaDma[d]
  <2>1. \A d \in 0..7 : d # c => isaDma'[d] = isaDma[d]
    BY <1>3, <1>7
  <2>2. isaDma'[c] = [isaDma[c] EXCEPT !.base = base, !.left = isaDma[c].left - 1, !.masked = last]
    BY <1>3, <1>7
  <2>3. isaDma'[c] \in Channels
    BY <1>3, <1>6, <1>8, <2>2 DEF Channels, Segment
  <2>4. isaDma' \in [0..7 -> Channels]
    BY <1>3, <1>7, <2>1, <2>3
  <2> QED BY <2>1, <2>4
<1>10. /\ isaDma'[c].base = base /\ isaDma'[c].left = ch.left - 1
       /\ isaDma'[c].mode = ch.mode /\ isaDma'[c].page = ch.page
  BY <1>3, <1>7 DEF Channels
<1>11. isaDma'[c].masked = last
  BY <1>3, <1>7 DEF Channels
<1>12. ~last => Runs(c, isaDma'[c], q)
  <2> SUFFICES ASSUME ~last PROVE Runs(c, isaDma'[c], q)
    OBVIOUS
  <2>1. ch.left > 1
    BY <1>1, <1>4 DEF last
  <2>2. /\ ch.base * Width(c) = (p.dev % 4) + p.moved /\ ch.left * Width(c) = p.n - p.moved
        /\ p.n <= 4 - (p.dev % 4)
    BY <1>2 DEF Runs, BaseSet, LeftSet, Segment, IsaInv, MapsOK, MappingOK
  <2>3. /\ ((ch.base + 1) % (4 \div Width(c))) * Width(c) = (p.dev % 4) + (p.moved + Width(c))
        /\ (ch.left - 1) * Width(c) = p.n - (p.moved + Width(c))
    <3>1. ch.left \in Nat
      BY <1>4
    <3>2. Aims(Width(c), p.dev, p.moved, p.n, ch.base, ch.left)
      BY <1>4, <1>5, <2>2, <3>1 DEF Aims
    <3> QED BY <2>1, <3>2, AimsNext
  <2>4. BaseSet(c, isaDma'[c], q) /\ LeftSet(c, isaDma'[c], q)
    BY <1>10, <2>3 DEF BaseSet, LeftSet, base, Segment
  <2>5. ModeSet(isaDma'[c], q) /\ PageSet(isaDma'[c], q)
    BY <1>2, <1>10 DEF Runs, ModeSet, PageSet, WayOf
  <2> QED BY <2>4, <2>5 DEF Runs
<1>13. isaDma'[4].masked
  BY <1>2, <1>9 DEF IsaInv, PortsOK
<1>14. isaMaps'[c] = q /\ q # NoMapping
       /\ \A d \in 0..7 : d # c => isaMaps'[d] = isaMaps[d]
  <2>1. q.op # "none"
    BY <1>2 DEF IsaInv, MapsOK, MappingOK
  <2> QED BY <1>3, <2>1, NoMappingTyped
<1>15. isaAt'.at # "idle" => isaAt'.chan # 4 /\ isaMaps'[isaAt'.chan] # NoMapping
  <2> SUFFICES ASSUME isaAt.at # "idle"
               PROVE  isaAt.chan # 4 /\ isaMaps'[isaAt.chan] # NoMapping
    BY <1>1
  <2>1. isaAt.chan # 4 /\ isaMaps[isaAt.chan] # NoMapping /\ isaAt.chan \in 0..7
    BY DEF IsaInv, PortsOK, HasMap, IsaTypes
  <2> QED BY <1>14, <2>1
<1>16. ASSUME NEW d \in 0..7 \ {4}, isaMaps'[d] # NoMapping
       PROVE  /\ Programs(d)' => SetSoFar(d, isaDma'[d], isaMaps'[d], isaAt'.at)
              /\ ~Programs(d)' /\ ~isaDma'[d].masked => Runs(d, isaDma'[d], isaMaps'[d])
  <2>1. Programs(d)' <=> Programs(d)
    BY <1>1 DEF Programs
  <2>2. CASE d = c
    <3>1. ~Programs(d)'
      BY <1>2, <2>1, <2>2
    <3>2. ~isaDma'[d].masked => Runs(d, isaDma'[d], isaMaps'[d])
      BY <1>11, <1>12, <1>14, <2>2, Zenon
    <3> QED BY <3>1, <3>2
  <2>3. CASE d # c
    <3>1. isaMaps'[d] = isaMaps[d] /\ isaDma'[d] = isaDma[d] /\ HasMap(d)
      BY <1>9, <1>14, <1>16, <2>3 DEF HasMap
    <3>2. /\ Programs(d) => SetSoFar(d, isaDma[d], isaMaps[d], isaAt.at)
          /\ ~Programs(d) /\ ~isaDma[d].masked => Runs(d, isaDma[d], isaMaps[d])
      BY <3>1 DEF IsaInv, PortsOK
    <3> QED BY <1>1, <2>1, <3>1, <3>2
  <2> QED BY <2>2, <2>3
<1>17. PortsOK'
  BY <1>13, <1>15, <1>16 DEF PortsOK, HasMap
<1> QED BY <1>9, <1>17

LEMMA DmaKeeps == ASSUME IsaInv, NEW c \in 0..7, DmaTransfer(c) PROVE IsaInv'
<1> DEFINE p == isaMaps[c]
           w == Width(c)
           a == ChannelAddress(c)
<1>1. /\ Requests(c) /\ ~isaDma[c].masked /\ isaDma[c].left > 0
      /\ UNCHANGED <<isaUsed, isaBuffers, isaAt, isaDone, isaTouched, isaHosts>>
  BY DEF DmaTransfer
<1>2. /\ c # 4 /\ HasMap(c) /\ Runs(c, isaDma[c], p)
      /\ a = p.dev + p.moved /\ p.moved + w <= p.n
  BY <1>1, AimIs
<1>3. p \in Mappings /\ isaMem \in [IsaMemory -> IsaBytes] /\ isaMaps \in [0..7 -> Mappings]
  BY DEF IsaInv, IsaTypes
<1>4. MappingOK(c, p) /\ DataOK(p, isaMem)
  BY <1>2 DEF IsaInv, MapsOK
<1>5. w \in {1, 2} /\ w \in Nat /\ (Wide(c) => w = 2)
  BY DEF Width
<1>6. /\ p.host \in Nat /\ p.dev \in Nat /\ p.moved \in Nat /\ p.n \in Nat /\ p.bytes \in Nat
      /\ p.got \in Seq(IsaBytes) /\ p.n <= p.bytes
  <2>1. /\ p.host \in Nat /\ p.dev \in Nat /\ p.moved \in Nat /\ p.n \in Nat /\ p.bytes \in Nat
        /\ p.got \in Seq(IsaBytes)
    BY <1>3 DEF Mappings
  <2>2. p.n \in 1..p.bytes
    BY <1>4 DEF MappingOK
  <2> QED BY <2>1, <2>2
<1>7. DevOf(p) \subseteq IsaMemory
  BY <1>2, AreaUsed DEF IsaInv, IsaTypes, AreaOf
<1> HIDE DEF w
<1>10. HasRoom(p.dev, p.moved, w, p.bytes)
  <2>1. p.moved + w <= p.bytes
    <3>1. p.moved + w <= p.n
      BY <1>2
    <3>2. PICK i \in Nat, j \in Nat, k \in Nat : i = p.moved /\ j = p.n /\ k = p.bytes
      BY <1>6
    <3>3. i + w <= j /\ j <= k
      BY <1>6, <3>1, <3>2, Zenon
    <3>4. i + w <= k
      BY <1>5, <3>3
    <3> QED BY <3>2, <3>4, Zenon
  <2>2. IsaSpan(p.dev, p.bytes) \subseteq IsaMemory
    BY <1>7, Zenon DEF DevOf
  <2> QED BY <1>5, <1>6, <2>1, <2>2 DEF HasRoom
<1>8. CASE isaDma[c].mode = "IO2MEM"
  <2>1. ~FromMemory(p.op)
    BY <1>2, <1>8 DEF Runs, ModeSet, WayOf
  <2>2. PICK q : q = [p EXCEPT !.moved = @ + w, !.got = p.got]
    OBVIOUS
  <2>3. /\ q \in Mappings /\ MappingOK(c, q)
        /\ q.host = p.host /\ q.dev = p.dev /\ q.bytes = p.bytes
        /\ q.bounced = p.bounced /\ q.op = p.op /\ q.n = p.n /\ q.chan = p.chan
        /\ q.moved = p.moved + w /\ q.got = p.got
    <3>1. WithMore(p, w, p.got, q)
      BY <1>2, <1>5, <1>6, <2>2 DEF WithMore
    <3> QED BY <1>3, <1>4, <1>5, <3>1, MoreIsOK
  <2>4. isaMaps' = [isaMaps EXCEPT ![c] = q]
    <3>1. [p EXCEPT !.moved = @ + w] = q
      BY <1>3, <2>2 DEF Mappings
    <3>2. isaMaps' = [isaMaps EXCEPT ![c] = [p EXCEPT !.moved = @ + w]]
      BY <1>3, <1>8 DEF DmaTransfer, w
    <3> QED BY <3>1, <3>2
  <2>5. Writes(isaMem', isaMem, c, p.dev, p.moved, w)
    <3>1. isaMem' = [x \in IsaMemory |->
              IF x \in IsaSpan(a, w) THEN DeviceByte(c, p.moved + (x - a)) ELSE isaMem[x]]
      BY <1>3, <1>8 DEF DmaTransfer, w
    <3> QED BY <1>2, <3>1 DEF Writes
  <2>6. Wrote(isaMem, c, p.dev, p.moved)
    BY <1>4, <2>1 DEF DataOK, MappingOK, Wrote
  <2>7. /\ isaMem' \in [IsaMemory -> IsaBytes]
        /\ \A x \in IsaMemory \ IsaSpan(p.dev, p.bytes) : isaMem'[x] = isaMem[x]
        /\ Wrote(isaMem', c, p.dev, p.moved + w)
    BY <1>3, <1>10, <2>5, <2>6, WroteMore
  <2>8. \A x \in IsaMemory \ DevOf(p) : isaMem'[x] = isaMem[x]
    BY <2>7 DEF DevOf
  <2>9. DataOK(q, isaMem')
    <3>1. q.chan = c /\ ~FromMemory(q.op)
      BY <1>4, <2>1, <2>3 DEF MappingOK
    <3>2. Wrote(isaMem', q.chan, q.dev, q.moved)
      BY <2>3, <2>7, <3>1
    <3> QED BY <3>1, <3>2 DEF DataOK, Wrote
  <2>10. isaDma' \in [0..7 -> Channels] /\ PortsOK'
    BY <2>3, <2>4, PortsAfter DEF w
  <2> QED BY <1>1, <1>2, <2>3, <2>4, <2>7, <2>8, <2>9, <2>10, MovedOn
<1>9. CASE isaDma[c].mode # "IO2MEM"
  <2>1. FromMemory(p.op)
    BY <1>2, <1>9 DEF Runs, ModeSet, WayOf
  <2>2. PICK more : more = [i \in 1..w |-> isaMem[p.dev + p.moved + i - 1]]
    OBVIOUS
  <2>3. PICK got, q : got = p.got \o more /\ q = [p EXCEPT !.moved = @ + w, !.got = got]
    OBVIOUS
  <2>4. Got(p.got, isaMem, p.host, p.moved) /\ SameAt(isaMem, p.dev, p.host, p.bytes)
    BY <1>4, <1>6, <2>1 DEF DataOK, Got, SameAt
  <2>5. Reads(more, isaMem, p.dev, p.moved, w)
    BY <2>2 DEF Reads
  <2>6. Got(got, isaMem, p.host, p.moved + w)
    BY <1>3, <1>10, <2>3, <2>4, <2>5, GotMore
  <2>7. isaMaps' = [isaMaps EXCEPT ![c] = q] /\ UNCHANGED isaMem
    <3>1. isaMaps' = [isaMaps EXCEPT ![c] = [p EXCEPT !.moved = @ + w,
                 !.got = @ \o [i \in 1..w |-> isaMem[a + i - 1]]]] /\ UNCHANGED isaMem
      BY <1>3, <1>9 DEF DmaTransfer, w
    <3>2. [i \in 1..w |-> isaMem[a + i - 1]] = more
      BY <1>2, <2>2
    <3> QED BY <2>3, <3>1, <3>2
  <2>8. /\ q \in Mappings /\ MappingOK(c, q)
        /\ q.host = p.host /\ q.dev = p.dev /\ q.bytes = p.bytes
        /\ q.bounced = p.bounced /\ q.op = p.op /\ q.n = p.n /\ q.chan = p.chan
        /\ q.moved = p.moved + w /\ q.got = got
    <3>1. got \in Seq(IsaBytes)
      BY <2>6 DEF Got
    <3>2. WithMore(p, w, got, q)
      BY <1>2, <1>5, <2>3, <3>1 DEF WithMore
    <3> QED BY <1>3, <1>4, <1>5, <3>2, MoreIsOK
  <2>9. DataOK(q, isaMem')
    <3>1. FromMemory(q.op) /\ isaMem' = isaMem
      BY <2>1, <2>7, <2>8
    <3>2. Got(q.got, isaMem, q.host, q.moved) /\ SameAt(isaMem, q.dev, q.host, q.bytes)
      BY <2>4, <2>6, <2>8
    <3> QED BY <3>1, <3>2 DEF DataOK, Got, SameAt
  <2>10. isaDma' \in [0..7 -> Channels] /\ PortsOK'
    BY <2>7, <2>8, PortsAfter DEF w
  <2> QED BY <1>1, <1>2, <1>3, <2>7, <2>8, <2>9, <2>10, MovedOn
<1> QED BY <1>8, <1>9
LEMMA GotByte ==
    ASSUME NEW got, NEW host, NEW dev, NEW moved, NEW bytes, HasRoom(dev, moved, 1, bytes),
           NEW mem \in [IsaMemory -> IsaBytes],
           Got(got, mem, host, moved), SameAt(mem, dev, host, bytes)
    PROVE  Got(Append(got, mem[dev + moved]), mem, host, moved + 1)
<1> USE DEF HasRoom, Got, SameAt
<1>1. dev + moved \in IsaMemory
  <2>1. dev + moved \in IsaSpan(dev, bytes)
    BY DEF IsaSpan
  <2> QED BY <2>1
<1>2. mem[dev + moved] \in IsaBytes /\ mem[dev + moved] = mem[host + moved]
  BY <1>1
<1>3. PICK new : new = Append(got, mem[dev + moved])
  OBVIOUS
<1>4. /\ new \in Seq(IsaBytes) /\ Len(new) = moved + 1
      /\ \A i \in 1..moved : new[i] = got[i]
      /\ new[moved + 1] = mem[dev + moved]
  BY <1>2, <1>3, AppendProperties
<1>5. ASSUME NEW i \in 0..((moved + 1) - 1)
      PROVE  new[i + 1] = mem[host + i]
  <2>1. CASE i < moved
    BY <1>4, <2>1
  <2>2. CASE i = moved
    BY <1>2, <1>4, <2>2
  <2> QED BY <2>1, <2>2
<1> QED BY <1>3, <1>4, <1>5, Zenon

LEMMA MasterKeeps == ASSUME IsaInv, NEW c \in 0..7, MasterTransfer(c) PROVE IsaInv'
<1> DEFINE p == isaMaps[c]
           a == p.dev + p.moved
<1>1. /\ c = 4 /\ HasMap(c) /\ p.moved < p.n
      /\ UNCHANGED <<isaUsed, isaBuffers, isaAt, isaDone, isaTouched, isaHosts, isaDma>>
  BY DEF MasterTransfer, HasMap
<1>2. p \in Mappings /\ isaMem \in [IsaMemory -> IsaBytes] /\ isaMaps \in [0..7 -> Mappings]
      /\ isaDma \in [0..7 -> Channels]
  BY DEF IsaInv, IsaTypes
<1>3. MappingOK(c, p) /\ DataOK(p, isaMem)
  BY <1>1 DEF IsaInv, MapsOK
<1>4. /\ p.host \in Nat /\ p.dev \in Nat /\ p.moved \in Nat /\ p.n \in Nat /\ p.bytes \in Nat
      /\ p.got \in Seq(IsaBytes) /\ p.n <= p.bytes
  <2>1. /\ p.host \in Nat /\ p.dev \in Nat /\ p.moved \in Nat /\ p.n \in Nat /\ p.bytes \in Nat
        /\ p.got \in Seq(IsaBytes)
    BY <1>2 DEF Mappings
  <2>2. p.n \in 1..p.bytes
    BY <1>3 DEF MappingOK
  <2> QED BY <2>1, <2>2
<1>5. DevOf(p) \subseteq IsaMemory
  BY <1>1, AreaUsed DEF IsaInv, IsaTypes, AreaOf
<1>6. HasRoom(p.dev, p.moved, 1, p.bytes)
  <2>1. p.moved + 1 <= p.bytes /\ IsaSpan(p.dev, p.bytes) \subseteq IsaMemory
    BY <1>1, <1>4, <1>5 DEF DevOf
  <2> QED BY <1>4, <2>1 DEF HasRoom
<1>7. ASSUME NEW q \in Mappings, MappingOK(c, q), isaMaps' = [isaMaps EXCEPT ![c] = q]
      PROVE  isaDma' \in [0..7 -> Channels] /\ PortsOK'
  <2>1. q # NoMapping
    BY <1>7, NoMappingTyped DEF MappingOK
  <2>2. \A d \in 0..7 \ {4} : isaMaps'[d] = isaMaps[d]
    BY <1>1, <1>2, <1>7
  <2>3. isaAt.chan \in 0..7 /\ isaAt' = isaAt /\ isaDma' = isaDma
    BY <1>1 DEF IsaInv, IsaTypes
  <2>4. PortsOK'
    BY <2>2, <2>3 DEF IsaInv, PortsOK, HasMap, Programs
  <2> QED BY <1>2, <2>3, <2>4
<1>8. CASE ~FromMemory(p.op)
  <2>1. PICK q : q = [p EXCEPT !.moved = @ + 1, !.got = p.got]
    OBVIOUS
  <2>2. /\ q \in Mappings /\ MappingOK(c, q)
        /\ q.host = p.host /\ q.dev = p.dev /\ q.bytes = p.bytes
        /\ q.bounced = p.bounced /\ q.op = p.op /\ q.n = p.n /\ q.chan = p.chan
        /\ q.moved = p.moved + 1 /\ q.got = p.got
    <3>1. p.moved + 1 <= p.n /\ 1 \in {1, 2}
      BY <1>1, <1>4
    <3>2. WithMore(p, 1, p.got, q)
      BY <1>4, <2>1, <3>1 DEF WithMore
    <3> QED BY <1>1, <1>2, <1>3, <3>2, MoreIsOK
  <2>3. isaMaps' = [isaMaps EXCEPT ![c] = q]
    <3>1. [p EXCEPT !.moved = @ + 1] = q
      BY <1>2, <2>1 DEF Mappings
    <3>2. isaMaps' = [isaMaps EXCEPT ![c] = [p EXCEPT !.moved = @ + 1]]
      BY <1>2, <1>8 DEF MasterTransfer
    <3> QED BY <3>1, <3>2
  <2>4. Writes(isaMem', isaMem, c, p.dev, p.moved, 1)
    <3>1. isaMem' = [isaMem EXCEPT ![a] = DeviceByte(c, p.moved)]
      BY <1>8 DEF MasterTransfer
    <3>2. \A x \in IsaMemory : x \in IsaSpan(a, 1) <=> x = a
      BY <1>4 DEF IsaSpan, IsaMemory
    <3>3. p.moved + (a - a) = p.moved
      BY <1>4
    <3>4. isaMem' = [x \in IsaMemory |->
              IF x \in IsaSpan(a, 1) THEN DeviceByte(c, p.moved + (x - a)) ELSE isaMem[x]]
      BY <1>2, <3>1, <3>2, <3>3
    <3> QED BY <3>4 DEF Writes
  <2>5. Wrote(isaMem, c, p.dev, p.moved)
    BY <1>3, <1>8 DEF DataOK, MappingOK, Wrote
  <2>6. /\ isaMem' \in [IsaMemory -> IsaBytes]
        /\ \A x \in IsaMemory \ IsaSpan(p.dev, p.bytes) : isaMem'[x] = isaMem[x]
        /\ Wrote(isaMem', c, p.dev, p.moved + 1)
    BY <1>2, <1>6, <2>4, <2>5, WroteMore
  <2>7. \A x \in IsaMemory \ DevOf(p) : isaMem'[x] = isaMem[x]
    BY <2>6 DEF DevOf
  <2>8. DataOK(q, isaMem')
    <3>1. q.chan = c /\ ~FromMemory(q.op)
      BY <1>3, <1>8, <2>2 DEF MappingOK
    <3>2. Wrote(isaMem', q.chan, q.dev, q.moved)
      BY <2>2, <2>6, <3>1
    <3> QED BY <3>1, <3>2 DEF DataOK, Wrote
  <2>9. isaDma' \in [0..7 -> Channels] /\ PortsOK'
    BY <1>7, <2>2, <2>3
  <2> QED BY <1>1, <2>2, <2>3, <2>6, <2>7, <2>8, <2>9, MovedOn
<1>9. CASE FromMemory(p.op)
  <2>1. PICK got, q : got = Append(p.got, isaMem[a])
                      /\ q = [p EXCEPT !.moved = @ + 1, !.got = got]
    OBVIOUS
  <2>2. Got(p.got, isaMem, p.host, p.moved) /\ SameAt(isaMem, p.dev, p.host, p.bytes)
    BY <1>3, <1>4, <1>9 DEF DataOK, Got, SameAt
  <2>3. Got(got, isaMem, p.host, p.moved + 1)
    BY <1>2, <1>6, <2>1, <2>2, GotByte
  <2>4. /\ q \in Mappings /\ MappingOK(c, q)
        /\ q.host = p.host /\ q.dev = p.dev /\ q.bytes = p.bytes
        /\ q.bounced = p.bounced /\ q.op = p.op /\ q.n = p.n /\ q.chan = p.chan
        /\ q.moved = p.moved + 1 /\ q.got = got
    <3>1. p.moved + 1 <= p.n /\ 1 \in {1, 2} /\ got \in Seq(IsaBytes)
      BY <1>1, <1>4, <2>3 DEF Got
    <3>2. WithMore(p, 1, got, q)
      BY <2>1, <3>1 DEF WithMore
    <3> QED BY <1>1, <1>2, <1>3, <3>2, MoreIsOK
  <2>5. isaMaps' = [isaMaps EXCEPT ![c] = q] /\ UNCHANGED isaMem
    <3>1. isaMaps' = [isaMaps EXCEPT ![c] = [p EXCEPT !.moved = @ + 1,
                 !.got = Append(@, isaMem[a])]] /\ UNCHANGED isaMem
      BY <1>2, <1>9 DEF MasterTransfer
    <3> QED BY <2>1, <3>1
  <2>6. DataOK(q, isaMem')
    <3>1. FromMemory(q.op) /\ isaMem' = isaMem
      BY <1>9, <2>4, <2>5
    <3>2. Got(q.got, isaMem, q.host, q.moved) /\ SameAt(isaMem, q.dev, q.host, q.bytes)
      BY <2>2, <2>3, <2>4
    <3> QED BY <3>1, <3>2 DEF DataOK, Got, SameAt
  <2>7. isaDma' \in [0..7 -> Channels] /\ PortsOK'
    BY <1>7, <2>4, <2>5
  <2> QED BY <1>1, <1>2, <2>4, <2>5, <2>6, <2>7, MovedOn
<1> QED BY <1>8, <1>9

-----------------------------------------------------------------------------
LEMMA UnmapKeeps == ASSUME IsaInv, NEW c \in 0..7, IsaIoUnmap(c) PROVE IsaInv'
<1> DEFINE p == isaMaps[c]
<1>1. /\ isaAt.at = "idle" /\ HasMap(c)
      /\ isaMaps' = [isaMaps EXCEPT ![c] = NoMapping]
      /\ isaDone' = p
      /\ IF CopiesBack(p) THEN Copied(p.dev, p.host, p.bytes) ELSE UNCHANGED isaMem
      /\ isaUsed' = IF p.bounced THEN isaUsed \ DevOf(p) ELSE isaUsed
      /\ UNCHANGED <<isaBuffers, isaAt, isaDma, isaTouched, isaHosts>>
  BY DEF IsaIoUnmap, HasMap, DevOf
<1>2. p \in Mappings /\ isaMem \in [IsaMemory -> IsaBytes] /\ isaMaps \in [0..7 -> Mappings]
  BY DEF IsaInv, IsaTypes
<1>3. MappingOK(c, p) /\ PlaceOK(p, isaUsed, isaBuffers, isaHosts) /\ DataOK(p, isaMem)
  BY <1>1 DEF IsaInv, MapsOK
<1>4. /\ p.host \in Nat /\ p.dev \in Nat /\ p.moved \in Nat /\ p.n \in Nat /\ p.bytes \in Nat
      /\ p.moved <= p.n /\ p.n <= p.bytes
  <2>1. /\ p.host \in Nat /\ p.dev \in Nat /\ p.moved \in Nat /\ p.n \in Nat /\ p.bytes \in Nat
    BY <1>2 DEF Mappings
  <2>2. p.n \in 1..p.bytes /\ p.moved \in 0..p.n
    BY <1>3 DEF MappingOK
  <2> QED BY <2>1, <2>2
<1>5. /\ isaMaps'[c] = NoMapping /\ isaMaps' \in [0..7 -> Mappings]
      /\ \A d \in 0..7 : d # c => isaMaps'[d] = isaMaps[d]
  BY <1>1, <1>2, NoMappingTyped
<1>6. \A d \in 0..7 : isaMaps'[d] # NoMapping =>
          d # c /\ HasMap(d) /\ isaMaps'[d] = isaMaps[d]
  BY <1>5 DEF HasMap
<1>7. AreaOf(p) \subseteq isaUsed /\ AreaOf(p) \subseteq IsaMemory
      /\ (p.bounced => HostOf(p) \cap DevOf(p) = {})
  BY <1>1, AreaUsed DEF IsaInv, IsaTypes
<1>8. /\ isaMem' \in [IsaMemory -> IsaBytes]
      /\ \A x \in IsaMemory : ~(CopiesBack(p) /\ x \in HostOf(p)) => isaMem'[x] = isaMem[x]
      /\ CopiesBack(p) => \A i \in 0..(p.bytes - 1) : isaMem'[p.host + i] = isaMem[p.dev + i]
  <2>1. CASE ~CopiesBack(p)
    BY <1>1, <1>2, <2>1
  <2>2. CASE CopiesBack(p)
    <3>1. isaMem' = [x \in IsaMemory |->
              IF x \in HostOf(p) THEN isaMem[p.dev + (x - p.host)] ELSE isaMem[x]]
      BY <1>1, <1>2, <2>2 DEF Copied, HostOf
    <3>2. \A x \in HostOf(p) : p.dev + (x - p.host) \in IsaMemory
      <4>1. \A x \in HostOf(p) : p.dev + (x - p.host) \in DevOf(p)
        BY <1>4 DEF HostOf, DevOf, IsaSpan
      <4> QED BY <1>7, <4>1 DEF AreaOf
    <3>3. isaMem' \in [IsaMemory -> IsaBytes]
      BY <1>2, <3>1, <3>2
    <3>4. ASSUME NEW i \in 0..(p.bytes - 1)
          PROVE  isaMem'[p.host + i] = isaMem[p.dev + i]
      <4>1. p.host + i \in HostOf(p)
        BY <1>4 DEF HostOf, IsaSpan
      <4>2. p.host + i \in IsaMemory
        BY <1>7, <4>1 DEF AreaOf
      <4>3. PICK x \in IsaMemory : x = p.host + i
        BY <4>2
      <4>4. p.dev + (x - p.host) = p.dev + i
        BY <1>4, <4>3
      <4>5. isaMem'[x] = isaMem[p.dev + (x - p.host)]
        BY <3>1, <4>1, <4>3
      <4> QED BY <4>3, <4>4, <4>5
    <3> QED BY <2>2, <3>1, <3>3, <3>4
  <2> QED BY <2>1, <2>2
<1>9. ASSUME NEW d \in 0..7, isaMaps'[d] # NoMapping
      PROVE  /\ AreaOf(isaMaps[d]) \cap AreaOf(p) = {}
             /\ AreaOf(isaMaps[d]) \subseteq isaUsed
  BY <1>1, <1>6, <1>9, AreaUsed DEF IsaInv, MapsApart
<1>10. IsaTypes'
  <2>1. isaUsed' \subseteq IsaMemory
    BY <1>1 DEF IsaInv, IsaTypes
  <2> QED BY <1>1, <1>2, <1>5, <1>8, <2>1 DEF IsaInv, IsaTypes
<1>11. MapsOK'
  <2> SUFFICES ASSUME NEW d \in 0..7, isaMaps'[d] # NoMapping
               PROVE  /\ MappingOK(d, isaMaps'[d])
                      /\ PlaceOK(isaMaps'[d], isaUsed', isaBuffers', isaHosts')
                      /\ DataOK(isaMaps'[d], isaMem')
    BY DEF MapsOK, HasMap
  <2>1. d # c /\ HasMap(d) /\ isaMaps'[d] = isaMaps[d]
    BY <1>6
  <2>2. MappingOK(d, isaMaps[d]) /\ PlaceOK(isaMaps[d], isaUsed, isaBuffers, isaHosts)
    BY <2>1 DEF IsaInv, MapsOK
  <2>3. AreaOf(isaMaps[d]) \cap AreaOf(p) = {} /\ AreaOf(isaMaps[d]) \subseteq isaUsed
    BY <1>9
  <2>4. PlaceOK(isaMaps[d], isaUsed', isaBuffers', isaHosts')
    BY <1>1, <2>2, <2>3 DEF PlaceOK, AreaOf
  <2>5. DataOK(isaMaps[d], isaMem')
    <3>1. \A x \in AreaOf(isaMaps[d]) : isaMem'[x] = isaMem[x]
      BY <1>8, <2>3 DEF IsaInv, IsaTypes, AreaOf
    <3> QED BY <2>1, <3>1, StillData
  <2> QED BY <2>1, <2>2, <2>4, <2>5
<1>12. MapsApart'
  BY <1>6 DEF IsaInv, MapsApart, HasMap
<1>13. UsedOK'
  <2>1. p.bounced => DevOf(p) \cap Callers = {} /\ DevOf(p) \cap isaBuffers = {}
    BY <1>3 DEF PlaceOK
  <2> QED BY <1>1, <2>1 DEF IsaInv, UsedOK
<1>14. PortsOK'
  <2>1. \A d \in 0..7 : ~Programs(d) /\ ~Programs(d)'
    BY <1>1 DEF Programs, Setting
  <2> QED BY <1>1, <1>6, <2>1 DEF IsaInv, PortsOK, HasMap
<1>15. DoneOK'
  <2>1. p.n \in 1..p.bytes /\ p.moved \in 0..p.n /\ HostOf(p) \subseteq Callers
    BY <1>3 DEF MappingOK
  <2>2. \A d \in 0..7 : isaMaps'[d] # NoMapping => HostOf(p) \cap AreaOf(isaMaps'[d]) = {}
    BY <1>6, <1>9 DEF AreaOf
  <2>3. MovedOK(p, isaMem')
    <3>1. CASE FromMemory(p.op)
      <4>1. isaMem' = isaMem
        BY <1>1, <3>1 DEF CopiesBack, FromMemory
      <4> QED BY <1>3, <3>1, <4>1 DEF DataOK, MovedOK
    <3>2. CASE ~FromMemory(p.op)
      <4> SUFFICES ASSUME p.op # "SlaveWrite" \/ ~p.bounced, NEW i \in 0..(p.moved - 1)
                   PROVE  isaMem'[p.host + i] = DeviceByte(p.chan, i)
        BY <3>2 DEF MovedOK
      <4>1. isaMem[p.dev + i] = DeviceByte(p.chan, i)
        BY <1>3, <3>2 DEF DataOK
      <4>2. i \in 0..(p.bytes - 1)
        BY <1>4
      <4>3. CASE CopiesBack(p)
        BY <1>8, <4>1, <4>2, <4>3
      <4>4. CASE ~CopiesBack(p)
        <5>1. p.op \in Slave \cup BusMaster
          BY <1>2, <1>3 DEF Mappings, MappingOK
        <5>2. ~p.bounced
          BY <1>3, <3>2, <4>4, <5>1 DEF CopiesBack, MappingOK, FromMemory, Slave, BusMaster
        <5>3. p.dev = p.host
          BY <1>3, <5>2 DEF MappingOK
        <5>4. isaMem' = isaMem
          BY <1>1, <4>4
        <5> QED BY <4>1, <5>3, <5>4
      <4> QED BY <4>3, <4>4
    <3> QED BY <3>1, <3>2
  <2> QED BY <1>1, <2>1, <2>2, <2>3 DEF DoneOK, HasMap
<1>16. KeptOK'
  <2>1. CASE CopiesBack(p)
    <3>1. HostOf(p) \subseteq isaHosts
      BY <1>3, <2>1 DEF PlaceOK, CopiesBack, FromMemory
    <3> QED BY <1>1, <1>8, <3>1 DEF IsaInv, KeptOK
  <2>2. CASE ~CopiesBack(p)
    BY <1>1, <2>2 DEF IsaInv, KeptOK
  <2> QED BY <2>1, <2>2
<1>17. TouchedOK'
  BY <1>1 DEF IsaInv, TouchedOK
<1> QED BY <1>10, <1>11, <1>12, <1>13, <1>14, <1>15, <1>16, <1>17 DEF IsaInv

(* Pages of a buffer: allocated from what is free, and freed.              *)
LEMMA BuffersKeep == IsaInv /\ (IsaIoAllocateBuffer \/ IsaIoFreeBuffer) => IsaInv'
<1> SUFFICES ASSUME IsaInv, IsaIoAllocateBuffer \/ IsaIoFreeBuffer PROVE IsaInv'
  OBVIOUS
<1>1. isaDone' = NoMapping /\ UNCHANGED <<isaMem, isaMaps, isaAt, isaDma, isaTouched, isaHosts>>
  BY DEF IsaIoAllocateBuffer, IsaIoFreeBuffer
<1>2. /\ isaUsed' \subseteq IsaMemory
      /\ UsedOK'
      /\ \A c \in 0..7 : HasMap(c) => PlaceOK(isaMaps[c], isaUsed', isaBuffers', isaHosts)
  <2>1. CASE IsaIoAllocateBuffer
    <3>1. PICK b \in FreeRuns(1) : isaUsed' = isaUsed \cup {b} /\ isaBuffers' = isaBuffers \cup {b}
      BY <2>1 DEF IsaIoAllocateBuffer
    <3>2. b \in IsaMemory /\ b \notin isaUsed
      BY IsaMapsAssumption DEF FreeRuns, Base16MB, IsaSpan, IsaMemory
    <3>3. isaUsed' \subseteq IsaMemory
      BY <3>1, <3>2 DEF IsaInv, IsaTypes
    <3>4. UsedOK'
      BY <3>1, <3>2 DEF IsaInv, UsedOK
    <3>5. ASSUME NEW c \in 0..7, HasMap(c)
          PROVE  PlaceOK(isaMaps[c], isaUsed', isaBuffers', isaHosts)
      <4>1. PlaceOK(isaMaps[c], isaUsed, isaBuffers, isaHosts)
        BY <3>5 DEF IsaInv, MapsOK
      <4> QED BY <3>1, <3>2, <4>1 DEF PlaceOK
    <3> QED BY <3>3, <3>4, <3>5
  <2>2. CASE IsaIoFreeBuffer
    <3>1. PICK b \in isaBuffers : isaUsed' = isaUsed \ {b} /\ isaBuffers' = isaBuffers \ {b}
      BY <2>2 DEF IsaIoFreeBuffer
    <3>2. isaUsed' \subseteq IsaMemory
      BY <3>1 DEF IsaInv, IsaTypes
    <3>3. UsedOK'
      BY <3>1 DEF IsaInv, UsedOK
    <3>4. ASSUME NEW c \in 0..7, HasMap(c)
          PROVE  PlaceOK(isaMaps[c], isaUsed', isaBuffers', isaHosts)
      <4>1. PlaceOK(isaMaps[c], isaUsed, isaBuffers, isaHosts)
        BY <3>4 DEF IsaInv, MapsOK
      <4> QED BY <3>1, <4>1 DEF PlaceOK
    <3> QED BY <3>2, <3>3, <3>4
  <2> QED BY <2>1, <2>2
<1>3. IsaTypes'
  BY <1>1, <1>2, NoMappingTyped DEF IsaInv, IsaTypes
<1>4. MapsOK'
  BY <1>1, <1>2 DEF IsaInv, MapsOK, HasMap
<1>5. MapsApart' /\ DoneOK' /\ KeptOK' /\ TouchedOK'
  BY <1>1 DEF IsaInv, MapsApart, DoneOK, KeptOK, TouchedOK, HasMap
<1>6. PortsOK'
  BY <1>1 DEF IsaInv, PortsOK, HasMap, Programs
<1> QED BY <1>2, <1>3, <1>4, <1>5, <1>6 DEF IsaInv

-----------------------------------------------------------------------------
LEMMA IsaKeeps == IsaInv /\ [IsaNext]_isaVars => IsaInv'
<1> SUFFICES ASSUME IsaInv, [IsaNext]_isaVars PROVE IsaInv'
  OBVIOUS
<1>1. ASSUME NEW a \in IsaAccesses, IsaIoAccess(a) PROVE IsaInv'
  BY <1>1, AccessKeeps
<1>2. ASSUME NEW m \in IsaMaps, IsaIoMap(m) PROVE IsaInv'
  BY <1>2, MapKeeps
<1>3. CASE MaskChannel \/ WriteMode \/ WriteDmaAddress \/ WriteDmaPage \/ WriteDmaCount
           \/ UnmaskChannel \/ MapReturns
  BY <1>3, MaskKeeps, ModeKeeps, AddressKeeps, PageKeeps, CountKeeps, UnmaskKeeps, ReturnKeeps
<1>4. ASSUME NEW c \in 0..7, DmaTransfer(c) \/ MasterTransfer(c) \/ IsaIoUnmap(c) PROVE IsaInv'
  BY <1>4, DmaKeeps, MasterKeeps, UnmapKeeps
<1>5. CASE IsaIoAllocateBuffer \/ IsaIoFreeBuffer
  BY <1>5, BuffersKeep
<1>6. CASE UNCHANGED isaVars
  <2>1. UNCHANGED <<isaMem, isaUsed, isaBuffers, isaMaps, isaAt, isaDma, isaDone, isaTouched, isaHosts>>
    BY <1>6 DEF isaVars
  <2>2. IsaTypes' /\ UsedOK' /\ KeptOK' /\ TouchedOK'
    BY <2>1 DEF IsaInv, IsaTypes, UsedOK, KeptOK, TouchedOK
  <2>3. MapsOK' /\ MapsApart' /\ DoneOK'
    BY <2>1 DEF IsaInv, MapsOK, MapsApart, DoneOK, HasMap
  <2>4. PortsOK'
    BY <2>1 DEF IsaInv, PortsOK, HasMap, Programs
  <2> QED BY <2>2, <2>3, <2>4 DEF IsaInv
<1> QED BY <1>1, <1>2, <1>3, <1>4, <1>5, <1>6 DEF IsaNext

LEMMA IsaShows == IsaInv => IsaTypeOK /\ DmaWhereMapped
<1> SUFFICES ASSUME IsaInv PROVE IsaTypeOK /\ DmaWhereMapped
  OBVIOUS
<1>1. IsaTypeOK
  <2>1. isaUsed \cup isaHosts \subseteq 0..(IsaTop - 1) /\ isaAt.chan \in 0..7
    BY DEF IsaInv, IsaTypes, IsaMemory
  <2>2. \A c \in 0..7 : isaDma[c].left \in 0..Segment /\ isaDma[c].masked \in BOOLEAN
    BY DEF IsaInv, IsaTypes, Channels
  <2> QED BY <2>1, <2>2 DEF IsaTypeOK
<1>2. \A a \in 0..(IsaTop - 1) \ isaHosts : isaMem[a] = HostByte(a)
  BY DEF IsaInv, KeptOK, IsaMemory
<1>3. ASSUME isaDone # NoMapping
      PROVE  IF FromMemory(isaDone.op)
             THEN \A k \in 1..Min({isaDone.moved, isaDone.n}) :
                      isaDone.got[k] = isaMem[isaDone.host + k - 1]
             ELSE isaDone.op # "SlaveWrite" \/ ~isaDone.bounced =>
                      \A k \in 0..(Min({isaDone.moved, isaDone.n}) - 1) :
                          isaMem[isaDone.host + k] = DeviceByte(isaDone.chan, k)
  <2>1. isaDone.moved \in Nat /\ isaDone.n \in Nat /\ isaDone.host \in Nat
    BY DEF IsaInv, IsaTypes, Mappings
  <2>2. isaDone.moved \in 0..isaDone.n /\ MovedOK(isaDone, isaMem)
    BY <1>3 DEF IsaInv, DoneOK
  <2>3. Min({isaDone.moved, isaDone.n}) = isaDone.moved
    BY <2>1, <2>2, LesserOf
  <2>4. CASE FromMemory(isaDone.op)
    <3> SUFFICES ASSUME NEW k \in 1..isaDone.moved
                 PROVE  isaDone.got[k] = isaMem[isaDone.host + k - 1]
      BY <2>3, <2>4
    <3>1. PICK i \in 0..(isaDone.moved - 1) : k = i + 1
      BY <2>1
    <3>2. isaDone.got[i + 1] = isaMem[isaDone.host + i]
      BY <2>2, <2>4 DEF MovedOK
    <3>3. isaDone.host + k - 1 = isaDone.host + i
      BY <2>1, <3>1
    <3> QED BY <3>1, <3>2, <3>3
  <2>5. CASE ~FromMemory(isaDone.op)
    BY <2>2, <2>3, <2>5 DEF MovedOK
  <2> QED BY <2>4, <2>5
<1>4. \A t \in isaTouched :
          \E r \in ToSet(ResourceList) : r.kind = t.space /\ t.address \in r.start..r.end
  BY DEF IsaInv, TouchedOK
<1>5. DmaWhereMapped
  BY <1>2, <1>3, <1>4 DEF DmaWhereMapped
<1> QED BY <1>1, <1>5

(* DMA of IsaIoDxe, whatever is mapped, whenever the devices ask and       *)
(* whichever ports fail: data is moved where Map has put it and nowhere    *)
(* else, its caller finds it when it is unmapped, and no access of a       *)
(* driver leaves the ranges that ACPI lists for its device.                *)
THEOREM DmaCorrect == IsaSpec => [](IsaTypeOK /\ DmaWhereMapped)
<1>1. IsaInit => IsaInv
  BY IsaStarts
<1>2. IsaInv /\ [IsaNext]_isaVars => IsaInv'
  BY IsaKeeps
<1>3. IsaInv => IsaTypeOK /\ DmaWhereMapped
  BY IsaShows
<1> QED BY <1>1, <1>2, <1>3, PTL DEF IsaSpec
=============================================================================
