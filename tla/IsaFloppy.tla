----------------------------- MODULE IsaFloppy -----------------------------
(***************************************************************************)
(* IsaFloppyDxe: block I/O of the drives of one floppy controller.  Two    *)
(* seconds after a call a timer of TPL_NOTIFY turns the motor off.  The    *)
(* driver raises no TPL and has no lock: a call may be made in the middle  *)
(* of another, by a driver that is started again when the other one finds  *)
(* a new disk, or by an event; here between two commands, and one deep.    *)
(* The controller has one register, the DOR, for motors and selection: it  *)
(* says which drive is stepped, read and written.  A disk has as many      *)
(* blocks as cylinders here: a transfer of the driver, which never crosses *)
(* a cylinder, is one block.                                               *)
(***************************************************************************)
EXTENDS Integers

CONSTANTS
    FddDrives,    \* the drives
    FddDisks,     \* the disks
    FddProtected, \* those that are write protected
    FddCalls,     \* arguments of calls: [write, lba, blocks]
    FddBudgets    \* bounds: calls, changes of disk, faults

VARIABLES
    fddMotor,    \* the DOR: the drive that spins, or none
    fddSelect,   \* the DOR: the drive that is selected
    fddTimer,    \* the drives whose motor timer runs
    fddDisk,     \* the disk in each drive
    fddLine,     \* the disk change line (DIR_DCL) of each drive
    fddHead,     \* the cylinder each head is at
    fddCyl,      \* PresentCylinderNumber
    fddRecal,    \* ControllerState.NeedRecalibrate
    fddMedia,    \* Media: MediaPresent, MediaId and ReadOnly
    fddCache,    \* Cache: what block 0 was, or no block
    fddData,     \* what is in each block of each disk
    fddPc,       \* the call that runs
    fddOuter,    \* the call in the middle of which it was made
    fddLeft,     \* what is left of the budget
    fddMixed,    \* history: drives with a call inside a call since Cache was empty
    fddStale     \* history: who was answered by a wrong Cache

fddDrive == <<fddMotor, fddSelect, fddTimer>>
fddHeads == <<fddHead, fddCyl, fddRecal>>
fddRun == <<fddPc, fddOuter, fddMixed>>
fddVars == <<fddDrive, fddDisk, fddLine, fddHeads, fddMedia, fddCache, fddData, fddRun, fddLeft,
             fddStale>>

Cylinders == 0..1
NoDisk == "none"
NoDrive == "none"
NoBlock == [disk |-> NoDisk, version |-> 0]
FddIdle == [drive |-> NoDrive, write |-> FALSE, id |-> 0, lba |-> 0, at |-> 0, blocks |-> 0,
            phase |-> "idle", disk |-> NoDisk, first |-> NoBlock, interrupted |-> FALSE]

\* The drives and disks are none of the two values; a call stays on the disk.
ASSUME FddAssumption ==
    /\ NoDrive \notin FddDrives /\ NoDisk \notin FddDisks
    /\ FddProtected \subseteq FddDisks
    /\ \A c \in FddCalls :
           /\ c \in [write : BOOLEAN, lba : Cylinders, blocks : 0..2]
           /\ c.lba + c.blocks <= 2
    /\ FddBudgets \subseteq [calls : Nat, changes : Nat, faults : Nat]

(* After FddIdentify has found the drives, some with a disk.               *)
FddInit ==
    /\ fddMotor = NoDrive /\ fddTimer = {} /\ fddSelect \in FddDrives
    /\ fddDisk \in {d \in [FddDrives -> FddDisks \cup {NoDisk}] :
                       \A e, f \in FddDrives : e # f /\ d[e] # NoDisk => d[e] # d[f]}
    /\ fddLine = [d \in FddDrives |-> fddDisk[d] = NoDisk]
    /\ fddHead = [d \in FddDrives |-> 1] /\ fddCyl = fddHead
    /\ fddRecal = FALSE
    /\ fddMedia = [d \in FddDrives |-> [present |-> fddDisk[d] # NoDisk, id |-> 0,
                                        readonly |-> fddDisk[d] \in FddProtected]]
    /\ fddCache = [d \in FddDrives |-> NoBlock]
    /\ fddData = [k \in FddDisks |-> [c \in Cylinders |-> 0]]
    /\ fddPc = FddIdle /\ fddOuter = FddIdle
    /\ fddLeft \in FddBudgets
    /\ fddMixed = {} /\ fddStale = {}

FddFault == fddLeft.faults > 0 /\ fddLeft' = [fddLeft EXCEPT !.faults = @ - 1]
NoFault == UNCHANGED fddLeft

----------------------------------------------------------------------------
(* A disk is taken out at any time; nobody is so quick that the next one   *)
(* is in before the call that runs has found the drive empty.              *)
ChangeDisk(d, disk) ==
    /\ fddLeft.changes > 0
    /\ \/ fddDisk[d] # NoDisk /\ disk = NoDisk
       \/ fddDisk[d] = NoDisk /\ disk # NoDisk /\ fddPc = FddIdle
    /\ \A e \in FddDrives : disk # NoDisk => fddDisk[e] # disk
    /\ fddDisk' = [fddDisk EXCEPT ![d] = disk]
    /\ fddLine' = [fddLine EXCEPT ![d] = TRUE]
    /\ fddLeft' = [fddLeft EXCEPT !.changes = @ - 1]
    /\ UNCHANGED <<fddDrive, fddHeads, fddMedia, fddCache, fddData, fddRun, fddStale>>

FddTimerProc(d) ==
    /\ d \in fddTimer
    /\ fddTimer' = fddTimer \ {d}
    /\ fddMotor' = IF fddMotor = d THEN NoDrive ELSE fddMotor
    /\ UNCHANGED <<fddSelect, fddDisk, fddLine, fddHeads, fddMedia, fddCache, fddData, fddRun,
                   fddLeft, fddStale>>

----------------------------------------------------------------------------
(* A call is made, in the middle of the one that runs if there is one; it  *)
(* may disturb that, and be disturbed by what that one left half done.     *)
FddWithin(d) ==
    /\ fddOuter = FddIdle
    /\ fddMixed' = IF fddPc = FddIdle THEN fddMixed ELSE fddMixed \cup {d, fddPc.drive}
FddInterrupted(call) == IF call = FddIdle THEN call ELSE [call EXCEPT !.interrupted = TRUE]

(* The end of a call: MotorOff starts the timer; the cache may be dropped. *)
FddReturns(cache) ==
    /\ fddTimer' = fddTimer \cup {fddPc.drive}
    /\ fddPc' = fddOuter /\ fddOuter' = FddIdle
    /\ fddCache' = [fddCache EXCEPT ![fddPc.drive] = cache]
    /\ fddMixed' = IF fddOuter # FddIdle THEN fddMixed
                   ELSE {d \in fddMixed : fddCache'[d] # NoBlock}
Goes(phase) == fddPc' = [fddPc EXCEPT !.phase = phase] /\ UNCHANGED <<fddOuter, fddMixed>>
Kept == fddCache[fddPc.drive]

CallOf(d, c, id) ==
    [drive |-> d, write |-> c.write, id |-> id, lba |-> c.lba, at |-> c.lba, blocks |-> c.blocks,
     phase |-> "detect", disk |-> NoDisk, first |-> NoBlock, interrupted |-> FALSE]

(* FddReadWriteBlocks: a write from block 0 drops the cache.  MotorOn      *)
(* stops the timer; if the motor is off it waits for the controller, which *)
(* may be busy with a command of the call in whose middle this is, and     *)
(* writes the DOR: the motor of the other drive goes off.                  *)
CallBegins(d, c, id) ==
    /\ fddLeft.calls > 0
    /\ fddTimer' = fddTimer \ {d}
    /\ \/ /\ fddLeft' = [fddLeft EXCEPT !.calls = @ - 1]
          /\ fddMotor' = d /\ fddSelect' = d
          /\ FddWithin(d)
          /\ fddOuter' = FddInterrupted(fddPc)
          /\ fddPc' = CallOf(d, c, id)
       \/ /\ fddMotor # d /\ fddOuter = FddIdle
          /\ \/ fddPc # FddIdle /\ fddLeft' = [fddLeft EXCEPT !.calls = @ - 1]
             \/ /\ fddLeft.faults > 0
                /\ fddLeft' = [fddLeft EXCEPT !.calls = @ - 1, !.faults = @ - 1]
          /\ UNCHANGED <<fddMotor, fddSelect, fddRun>>
    /\ UNCHANGED <<fddDisk, fddLine, fddHeads, fddMedia, fddData, fddStale>>
FddReadWriteBlocksCached(d, c, id) == CallBegins(d, c, id) /\ UNCHANGED fddCache
FddReadWriteBlocks(d, c, id) ==
    /\ CallBegins(d, c, id)
    /\ fddCache' = IF c.write /\ c.lba = 0 THEN [fddCache EXCEPT ![d] = NoBlock] ELSE fddCache

(* Whatever drive a command is for, the one that is selected is stepped:   *)
(* that clears its line if there is a disk.  When it is not the drive of   *)
(* the call its head may end anywhere.                                     *)
Stepped(cylinder, moved) ==
    /\ fddHead' = [fddHead EXCEPT ![fddSelect] = cylinder]
    /\ fddLine' = IF moved /\ fddDisk[fddSelect] # NoDisk
                  THEN [fddLine EXCEPT ![fddSelect] = FALSE] ELSE fddLine
StepTarget(d) == IF fddCyl[d] # 0 THEN 0 ELSE 1
Steps(d) == fddHead[d] # StepTarget(d) \/ (fddCyl[d] = 0 /\ fddRecal)
StepsTo(d, cylinder, moved) ==
    IF fddSelect = d THEN cylinder = StepTarget(d) /\ (moved <=> Steps(d))
    ELSE moved \/ cylinder = fddHead[fddSelect]

(* DetectMedia with what DisketChanged told it: ReadOnly is what the disk  *)
(* says, FALSE when SenseDrvStatus fails; any difference is notified.      *)
MediaDetected(media) ==
    LET d == fddPc.drive
    IN  \E readonly \in BOOLEAN :
            /\ \/ readonly = (fddDisk[fddSelect] \in FddProtected) /\ NoFault
               \/ media.present /\ ~readonly /\ FddFault
            /\ fddMedia' = [fddMedia EXCEPT ![d] =
                   IF media.present THEN [media EXCEPT !.readonly = readonly] ELSE media]
            /\ fddPc' = [fddPc EXCEPT !.disk = fddDisk[d],
                             !.phase = IF fddMedia'[d] = fddMedia[d] THEN "check" ELSE "notify"]
            /\ UNCHANGED <<fddDrive, fddCache, fddOuter, fddMixed>>
NoChange ==
    /\ fddPc.phase = "detect" /\ ~fddLine[fddSelect]
    /\ MediaDetected(fddMedia[fddPc.drive])
    /\ UNCHANGED <<fddLine, fddHeads>>
DisketChanged ==
    LET d == fddPc.drive
        media == fddMedia[d]
    IN  /\ fddPc.phase = "detect" /\ fddLine[fddSelect]
        /\ \E cylinder \in Cylinders, moved \in BOOLEAN :
               StepsTo(d, cylinder, moved) /\ Stepped(cylinder, moved)
        /\ fddCyl' = [fddCyl EXCEPT ![d] = StepTarget(d)]
        /\ fddRecal' = FALSE
        /\ MediaDetected(IF fddLine'[fddSelect] THEN [media EXCEPT !.present = FALSE]
                    ELSE [media EXCEPT !.present = TRUE, !.id = @ + 1])
DetectFails ==
    /\ fddPc.phase = "detect" /\ fddLine[fddSelect] /\ FddFault
    /\ fddRecal' = TRUE
    /\ \/ \E cylinder \in Cylinders, moved \in BOOLEAN :
              StepsTo(fddPc.drive, cylinder, moved) /\ Stepped(cylinder, moved)
       \/ UNCHANGED <<fddHead, fddLine>>
    /\ FddReturns(NoBlock)
    /\ UNCHANGED <<fddMotor, fddSelect, fddCyl, fddMedia>>
DetectMedia ==
    /\ NoChange \/ DisketChanged \/ DetectFails
    /\ UNCHANGED <<fddDisk, fddData, fddStale>>

(* ReinstallProtocolInterface: drivers that are started again may call     *)
(* before it returns, when the cache is still that of the last disk.       *)
Reinstall ==
    /\ fddPc.phase = "notify"
    /\ \/ NoFault /\ Goes("check") /\ UNCHANGED <<fddTimer, fddCache>>
       \/ FddFault /\ FddReturns(NoBlock)
    /\ UNCHANGED <<fddMotor, fddSelect, fddDisk, fddLine, fddHeads, fddMedia, fddData, fddStale>>

(* No medium, another medium; nothing to do, a protected disk, or Specify  *)
(* fails; block 0 from the cache; or on to the disk.                       *)
FddGone == ~fddMedia[fddPc.drive].present \/ fddPc.id # fddMedia[fddPc.drive].id
FddRefused == fddPc.blocks = 0 \/ (fddPc.write /\ fddMedia[fddPc.drive].readonly)
Cached == ~fddPc.write /\ fddPc.lba = 0 /\ fddPc.blocks = 1 /\ Kept # NoBlock
IsStale == Kept.disk # fddPc.disk \/ Kept.version # fddData[fddPc.disk][0]

DropCall == FddGone /\ NoFault /\ FddReturns(NoBlock) /\ UNCHANGED fddStale
RefuseCall == ~FddGone /\ FddRefused /\ NoFault /\ FddReturns(Kept) /\ UNCHANGED fddStale
AnswerCached ==
    /\ ~FddGone /\ ~FddRefused /\ Cached /\ NoFault /\ FddReturns(Kept)
    /\ fddStale' = IF ~IsStale THEN fddStale
                   ELSE fddStale \cup {IF fddPc.drive \in fddMixed THEN "within" ELSE "alone"}
CheckFails ==
    ~FddGone /\ ~FddRefused /\ ~Cached /\ FddFault /\ FddReturns(Kept) /\ UNCHANGED fddStale
CheckPasses ==
    /\ ~FddGone /\ ~FddRefused /\ ~Cached /\ NoFault /\ Goes("transfer")
    /\ UNCHANGED <<fddTimer, fddCache, fddStale>>
CheckCall ==
    /\ fddPc.phase = "check"
    /\ DropCall \/ RefuseCall \/ AnswerCached \/ CheckFails \/ CheckPasses
    /\ UNCHANGED <<fddMotor, fddSelect, fddDisk, fddLine, fddHeads, fddMedia, fddData>>

(* ReadWriteDataSector: Seek trusts PresentCylinderNumber; the controller  *)
(* compares the cylinder of the command with the one it reads.             *)
Sought(cylinder) ==
    LET d == fddPc.drive
    IN  fddSelect = d => cylinder = IF fddRecal \/ fddCyl[d] # fddPc.at THEN fddPc.at
                                    ELSE fddHead[d]
There(cylinder) ==
    /\ fddMotor = fddSelect /\ fddDisk[fddSelect] # NoDisk /\ cylinder = fddPc.at
    /\ fddPc.write => fddDisk[fddSelect] \notin FddProtected
Moved(cylinder) == Stepped(cylinder, cylinder # fddHead[fddSelect])
Disk == fddDisk[fddSelect]
Transferred ==
    IF ~fddPc.write THEN fddData ELSE [fddData EXCEPT ![Disk][fddPc.at] = @ + 1]
TransferBlock ==
    /\ fddPc.phase = "transfer" /\ fddPc.blocks > 0 /\ NoFault
    /\ \E cylinder \in Cylinders : Sought(cylinder) /\ There(cylinder) /\ Moved(cylinder)
    /\ fddCyl' = [fddCyl EXCEPT ![fddPc.drive] = fddPc.at]
    /\ fddRecal' = FALSE
    /\ fddData' = Transferred
    /\ fddPc' = [fddPc EXCEPT !.at = @ + 1, !.blocks = @ - 1,
                    !.first = IF fddPc.at # fddPc.lba THEN @
                              ELSE [disk |-> Disk, version |-> fddData'[Disk][fddPc.at]]]
    /\ UNCHANGED <<fddDrive, fddDisk, fddMedia, fddCache, fddOuter, fddMixed, fddStale>>

(* A transfer fails because the head is elsewhere, the disk is gone or     *)
(* protected, or by a fault; FddReset turns the motor off.  Not every      *)
(* failure asks for a recalibration: the command may have been interrupted *)
(* before its result, and a block may be written although its result is    *)
(* lost.                                                                   *)
NotThere ==
    /\ NoFault
    /\ \E cylinder \in Cylinders : Sought(cylinder) /\ ~There(cylinder) /\ Moved(cylinder)
    /\ fddCyl' = [fddCyl EXCEPT ![fddPc.drive] = fddPc.at]
    /\ fddRecal' = TRUE
    /\ UNCHANGED fddData
SeekFails ==
    /\ FddFault
    /\ \/ /\ \E cylinder \in Cylinders : Sought(cylinder) /\ Moved(cylinder)
          /\ fddRecal' \in {fddRecal, TRUE} /\ UNCHANGED fddCyl
       \/ /\ fddRecal /\ Moved(0)                        \* it was recalibrated only
          /\ fddRecal' \in BOOLEAN /\ fddCyl' = [fddCyl EXCEPT ![fddPc.drive] = 0]
       \/ fddRecal' \in {fddRecal, TRUE} /\ UNCHANGED <<fddHead, fddLine, fddCyl>>
    /\ UNCHANGED fddData
ResultFails ==
    /\ FddFault
    /\ \E cylinder \in Cylinders :
           /\ Sought(cylinder) /\ Moved(cylinder)
           /\ fddData' = fddData \/ (There(cylinder) /\ fddData' = Transferred)
    /\ fddCyl' = [fddCyl EXCEPT ![fddPc.drive] = fddPc.at]
    /\ fddRecal' \in BOOLEAN
TransferFails ==
    /\ fddPc.phase = "transfer" /\ fddPc.blocks > 0
    /\ NotThere \/ SeekFails \/ ResultFails
    /\ fddMotor' = NoDrive /\ fddSelect' = fddPc.drive
    /\ FddReturns(Kept)
    /\ UNCHANGED <<fddDisk, fddMedia, fddStale>>

EndTransfer ==
    /\ fddPc.phase = "transfer" /\ fddPc.blocks = 0
    /\ FddReturns(IF ~fddPc.write /\ fddPc.lba = 0 /\ Kept = NoBlock THEN fddPc.first ELSE Kept)
    /\ UNCHANGED <<fddMotor, fddSelect, fddDisk, fddLine, fddHeads, fddMedia, fddData, fddLeft,
                   fddStale>>

(* FdcReset of a drive, which may be called in the middle of a call too.   *)
FdcReset(d) ==
    /\ fddLeft.calls > 0
    /\ fddLeft' = [fddLeft EXCEPT !.calls = @ - 1]
    /\ fddMotor' = NoDrive /\ fddSelect' = d
    /\ FddWithin(d)
    /\ fddPc' = FddInterrupted(fddPc)
    /\ UNCHANGED <<fddTimer, fddDisk, fddLine, fddHeads, fddMedia, fddCache, fddData, fddOuter,
                   fddStale>>

FddNext ==
    \/ \E d \in FddDrives, disk \in FddDisks \cup {NoDisk} : ChangeDisk(d, disk)
    \/ \E d \in FddDrives : FddTimerProc(d)
    \/ \E d \in FddDrives, c \in FddCalls : FddReadWriteBlocks(d, c, fddMedia[d].id)
    \/ DetectMedia \/ Reinstall \/ CheckCall \/ TransferBlock \/ TransferFails \/ EndTransfer
    \/ \E d \in FddDrives : FdcReset(d)

FddSpec == FddInit /\ [][FddNext]_fddVars

----------------------------------------------------------------------------
FddBlock == [disk : FddDisks \cup {NoDisk}, version : Nat]
FddCall ==
    [drive : FddDrives, write : BOOLEAN, id : Nat, lba : Cylinders, at : 0..2, blocks : 0..2,
     phase : {"detect", "notify", "check", "transfer"}, disk : FddDisks \cup {NoDisk},
     first : FddBlock, interrupted : BOOLEAN]
FddTypeOK ==
    /\ fddMotor \in FddDrives \cup {NoDrive} /\ fddSelect \in FddDrives
    /\ fddTimer \in SUBSET FddDrives
    /\ fddDisk \in [FddDrives -> FddDisks \cup {NoDisk}]
    /\ fddLine \in [FddDrives -> BOOLEAN]
    /\ fddHead \in [FddDrives -> Cylinders] /\ fddCyl \in [FddDrives -> Cylinders]
    /\ fddRecal \in BOOLEAN
    /\ fddMedia \in [FddDrives -> [present : BOOLEAN, id : Nat, readonly : BOOLEAN]]
    /\ fddCache \in [FddDrives -> FddBlock]
    /\ fddData \in [FddDisks -> [Cylinders -> Nat]]
    /\ fddPc \in FddCall \cup {FddIdle} /\ fddOuter \in FddCall \cup {FddIdle}
    /\ fddLeft \in [calls : Nat, changes : Nat, faults : Nat]
    /\ fddMixed \in SUBSET FddDrives /\ fddStale \in SUBSET {"alone", "within"}

(* A read of block 0 that is answered by the cache gets what is in block 0 *)
(* of the disk that DetectMedia found in the drive, whatever disks were    *)
(* changed, when, and whatever calls failed half-way.  Not so when a call  *)
(* was made in the middle of another one: a driver that is started again   *)
(* because the disk was changed reads the block 0 of the disk before, and  *)
(* a read that interrupts a write leaves the old block in the cache.  But  *)
(* all is well again once the cache has been dropped and the calls ended.  *)
CacheIsFresh == "alone" \notin fddStale

(* While a call works on a drive, also one in the middle of another, its   *)
(* motor runs and no timer is going to stop it, whatever the other drive   *)
(* does; only a call in whose middle another one was made may lose it.     *)
(* When no call runs, a motor that is on has a timer that stops it.        *)
MotorHasOwner ==
    /\ fddPc # FddIdle /\ ~fddPc.interrupted =>
           fddMotor = fddPc.drive /\ fddPc.drive \notin fddTimer
    /\ fddPc = FddIdle => fddMotor \in fddTimer \cup {NoDrive}

(* A read that the cache answers gets what is on the disk in the drive, and *)
(* no motor stops under a call, unless a call was made in the middle of    *)
(* one; in no case does a motor run for ever.                              *)
FloppySound == CacheIsFresh /\ MotorHasOwner
=============================================================================
