---------------------------- MODULE UpdateDriver ----------------------------
(***************************************************************************)
(* UpdateDriverDxe: a driver in a capsule reads a profile and updates the   *)
(* flash by it: whole volumes, ranges that may cross volumes, files.  A     *)
(* fault tolerant update goes block by block through the fault tolerant     *)
(* write (FTW) service, which keeps a record of the last write in flash;    *)
(* any other erases and writes in place.  Power may be lost between any two *)
(* steps; the capsule, or another one, is then processed at a later boot.   *)
(* Addresses count units smaller than a block.                              *)
(***************************************************************************)
EXTENDS Integers, SequencesExt

CONSTANTS
    UpdVolumes,  \* name -> [base, blocks: their lengths, writable]
    UpdCapsules, \* [lines: of the profile, files: name -> [type, section, size, image]]
    UpdBudgets   \* bounds: boots, losses of power, faults

VARIABLES
    updFlash,    \* what is at each address
    updFtw,      \* the record of FTW, and how many writes are left of those allocated
    updCapsule,  \* the capsule that is, or was last, processed
    updRun,      \* where the driver is
    updLeft,     \* what is left of the budget
    updMixed,    \* history: a write of another update was taken for one of this one
    updExposed,  \* history: addresses erased without a record
    updTargets   \* history: addresses some update was for

updVars == <<updFlash, updFtw, updCapsule, updRun, updLeft, updMixed, updExposed, updTargets>>
updHistory == <<updMixed, updExposed, updTargets>>

UpdFault == updLeft.faults > 0 /\ updLeft' = [updLeft EXCEPT !.faults = @ - 1]
UpdFine == UNCHANGED updLeft
Span(first, n) == first..(first + n - 1)
SumOf(lengths) == FoldSeq(+, 0, lengths)
OldByte == <<"old", 0>>
Torn == <<"torn", 0>>

----------------------------------------------------------------------------
(* ParseUpdateDataFile.  Each section and each entry is put before those    *)
(* that were read already, an entry under the section read last.            *)
NoValue == "no value"
NoEntry == "no entry"
ProfileGetSection(list, line) ==
    IF line.name = "" THEN list
    ELSE <<[section |-> line.name, entry |-> NoEntry, value |-> NoValue]>> \o list
ProfileGetEntry(list, line) ==
    IF line.name = "" \/ list = <<>> THEN list
    ELSE <<[section |-> Head(list).section, entry |-> line.name, value |-> line.value]>> \o list
LineTaken(list, line) ==   \* a comment goes to a list that nobody reads
    CASE line.kind = "section" -> ProfileGetSection(list, line)
      [] line.kind = "entry" -> ProfileGetEntry(list, line)
      [] OTHER -> list
PreProcessDataFile(lines) ==
    LET list[n \in 0..Len(lines)] ==
            IF n = 0 THEN <<>> ELSE LineTaken(list[n - 1], lines[n])
    IN  list[Len(lines)]
UpdateGetProfileString(list, section, entry) ==
    LET found == SelectSeq(list, LAMBDA i : i.section = section /\ i.entry = entry)
    IN  IF found = <<>> THEN NoValue ELSE Head(found).value

\* Numbers are cut where the digits end.
Digits == "0" :> 0 @@ "1" :> 1 @@ "2" :> 2 @@ "3" :> 3 @@ "4" :> 4 @@ "5" :> 5
UpdateAtoi(value) == IF value \in DOMAIN Digits THEN Digits[value] ELSE 0
UpdateStrCatNumber(i) == <<"Update0", "Update1", "Update2", "Update3", "Update4">>[i]
UpdateStringToGuid(value) == value # "malformed"
UpdateOperation == <<"UpdateWholeFV", "UpdateFvFile", "UpdateFvRange">>

(* What is wrong with the update i: a type that is none ends the parse with *)
(* the status of the read, which is success; the rest is left as it was     *)
(* allocated.                                                               *)
Missing(list, section) ==
    \/ section = NoValue
    \/ UpdateGetProfileString(list, section, "UpdateType") = NoValue
NoType(list, section) ==
    UpdateAtoi(UpdateGetProfileString(list, section, "UpdateType")) >= Len(UpdateOperation)
TypeRead(list, section) ==
    UpdateOperation[UpdateAtoi(UpdateGetProfileString(list, section, "UpdateType")) + 1]
Incomplete(list, section) ==
    \/ UpdateGetProfileString(list, section, "FvBaseAddress") = NoValue
    \/ UpdateGetProfileString(list, section, "FileGuid") = NoValue
    \/ ~UpdateStringToGuid(UpdateGetProfileString(list, section, "FileGuid"))
    \/ /\ TypeRead(list, section) = "UpdateFvRange"
       /\ UpdateGetProfileString(list, section, "Length") = NoValue
Verdict(list, section) ==
    IF Missing(list, section) THEN "EFI_NOT_FOUND"
    ELSE IF NoType(list, section) THEN "ends"
    ELSE IF Incomplete(list, section) THEN "EFI_NOT_FOUND"
    ELSE "EFI_SUCCESS"
Config(list, section) ==
    [type |-> TypeRead(list, section),
     base |-> UpdateAtoi(UpdateGetProfileString(list, section, "FvBaseAddress")),
     file |-> UpdateGetProfileString(list, section, "FileGuid"),
     ft |-> UpdateGetProfileString(list, section, "FaultTolerant") = "TRUE"]
Garbage == [type |-> "UpdateFvFile", base |-> 0, file |-> "garbage", ft |-> FALSE]

ParseUpdateDataFile(lines) ==
    LET list == PreProcessDataFile(lines)
        num == UpdateAtoi(UpdateGetProfileString(list, "Head", "NumOfUpdate"))
        SectionOf(i) == UpdateGetProfileString(list, "Head", UpdateStrCatNumber(i))
        Bad == {i \in 1..num : Verdict(list, SectionOf(i)) # "EFI_SUCCESS"}
        first == IF Bad = {} THEN num + 1 ELSE Min(Bad)
    IN  IF num = 0 \/ (first <= num /\ Verdict(list, SectionOf(first)) # "ends") THEN <<>>
        ELSE [i \in 1..num |-> IF i < first THEN Config(list, SectionOf(i)) ELSE Garbage]

----------------------------------------------------------------------------
(* Blocks of a volume, and the pieces an update is cut into.                *)
Blocks(v) == UpdVolumes[v].blocks
BlockBase(v, lba) == UpdVolumes[v].base + SumOf(SubSeq(Blocks(v), 1, lba - 1))
BlockSpan(v, lba) == Span(BlockBase(v, lba), Blocks(v)[lba])
FvLength(v) == SumOf(Blocks(v))
Writable == {v \in DOMAIN UpdVolumes : UpdVolumes[v].writable}

Piece(lba, off, len) == [lba |-> lba, off |-> off, len |-> len]
WholePieces(v) == [lba \in DOMAIN Blocks(v) |-> Piece(lba, 0, Blocks(v)[lba])]
ClippedPiece(v, lba, start, size) ==
    LET offset == start - BlockBase(v, lba)
    IN  Piece(lba, offset, Min({size, Blocks(v)[lba] - offset}))
PartPieces(v, start, size) ==
    LET From(lba) == IF BlockBase(v, lba) < start THEN start ELSE BlockBase(v, lba)
        Hit == SetToSortSeq({lba \in DOMAIN Blocks(v) :
                    BlockSpan(v, lba) \cap Span(start, size) # {}}, <)
    IN  [k \in DOMAIN Hit |->
            ClippedPiece(v, Hit[k], From(Hit[k]), start + size - From(Hit[k]))]

Off == [at |-> "off", configs |-> <<>>, i |-> 0, fv |-> "none", from |-> 0, size |-> 0,
        pieces |-> <<>>, p |-> 0, pending |-> FALSE, buffer |-> <<>>]
NoRecord == [state |-> "none", fv |-> "none", lba |-> 0, off |-> 0, len |-> 0, block |-> <<>>,
             file |-> "none", image |-> "none", base |-> 0]
Current == updRun.configs[updRun.i]
File == updCapsule.files[Current.file]
Proceeds(run) == updRun' = run
RunAt(at) == [updRun EXCEPT !.at = at]
\* The driver returns to the dispatcher, or the power is gone.
Ends == Proceeds(Off)

UpdInit ==
    /\ updFlash = [a \in UNION {UNION {BlockSpan(v, lba) : lba \in DOMAIN Blocks(v)} :
                                    v \in DOMAIN UpdVolumes} |-> OldByte]
    /\ updFtw = [record |-> NoRecord, left |-> 0]
    /\ updCapsule = [lines |-> <<>>, files |-> <<>>]
    /\ updRun = Off
    /\ updLeft \in UpdBudgets
    /\ updMixed = FALSE /\ updExposed = {} /\ updTargets = {}

----------------------------------------------------------------------------
(* InitializeUpdateDriver: the profile and the volume with the new data are *)
(* read from the capsule; when they are not there, nothing is done.         *)
InitializeUpdateDriver(capsule) ==
    /\ updRun.at = "off" /\ updLeft.boots > 0
    /\ updLeft' = [updLeft EXCEPT !.boots = @ - 1]
    /\ updCapsule' = capsule
    /\ LET configs == ParseUpdateDataFile(capsule.lines)
       IN  IF configs = <<>> THEN Ends
           ELSE Proceeds([Off EXCEPT !.at = "perform", !.configs = configs, !.i = 1])
    /\ UNCHANGED <<updFlash, updFtw, updHistory>>

\* PerformUpdateOnFirmwareVolume: the volume that can be written at that base.
VolumesAt(base) == {v \in Writable : UpdVolumes[v].base = base}
OnWholeFv(v) ==
    [RunAt(IF Current.ft THEN "retrieve" ELSE "pieces") EXCEPT
        !.fv = v, !.from = Current.base, !.size = File.size, !.pieces = WholePieces(v),
        !.p = 1, !.pending = FALSE]
Targets(size) == updTargets' = updTargets \cup Span(Current.base, size)
PerformWhole ==
    /\ \E v \in VolumesAt(Current.base) : Proceeds(OnWholeFv(v))
    /\ Targets(File.size)
PerformRange ==
    /\ Proceeds([RunAt("area") EXCEPT !.from = Current.base, !.size = File.size])
    /\ Targets(File.size)
(* PerformUpdateOnFvFile leaves the file to the driver of the volume; what  *)
(* PEI needs is not updated.                                                *)
PerformFile == Proceeds(RunAt("filed")) /\ UNCHANGED updTargets
Accepted ==
    /\ Current.file \in DOMAIN updCapsule.files
    /\ CASE Current.type = "UpdateWholeFV" ->
               /\ File.type = "FIRMWARE_VOLUME_IMAGE" /\ File.section
               /\ \E v \in VolumesAt(Current.base) : File.size = FvLength(v)
         [] Current.type = "UpdateFvRange" -> File.type = "RAW"
         [] Current.type = "UpdateFvFile" ->
               /\ VolumesAt(Current.base) # {}
               /\ File.type \notin {"PEI_CORE", "PEIM", "COMBINED"}
PerformUpdate ==
    /\ updRun.at = "perform"
    /\ IF ~Accepted THEN Ends /\ UNCHANGED updTargets
       ELSE CASE Current.type = "UpdateWholeFV" -> PerformWhole
              [] Current.type = "UpdateFvRange" -> PerformRange
              [] Current.type = "UpdateFvFile" -> PerformFile
    /\ UNCHANGED <<updFlash, updFtw, updCapsule, updLeft, updMixed, updExposed>>
WriteFile ==
    /\ updRun.at = "filed"
    /\ \/ UpdFine /\ Proceeds(RunAt("updated"))
       \/ UpdFault /\ Ends
    /\ UNCHANGED <<updFlash, updFtw, updCapsule, updHistory>>

(* PerformUpdateOnFlashArea: volume after volume until nothing is left.     *)
VolumesWith(address) == {v \in Writable : address \in Span(UpdVolumes[v].base, FvLength(v))}
OnPartFv(v) ==
    [RunAt(IF Current.ft THEN "retrieve" ELSE "pieces") EXCEPT
        !.fv = v, !.pieces = PartPieces(v, updRun.from, updRun.size), !.p = 1,
        !.pending = FALSE]
PerformUpdateOnFlashArea ==
    /\ updRun.at = "area"
    /\ IF updRun.size = 0 THEN Proceeds(RunAt("updated"))
       ELSE IF VolumesWith(updRun.from) = {} THEN Ends
       ELSE \E v \in VolumesWith(updRun.from) : Proceeds(OnPartFv(v))
    /\ UNCHANGED <<updFlash, updFtw, updCapsule, updLeft, updHistory>>

----------------------------------------------------------------------------
(* FTW as the driver uses it: Allocate makes room for so many writes; the   *)
(* record of the last of them survives until all are done.                  *)
Record == updFtw.record
GetLastWrite == IF updFtw.left = 0 THEN NoRecord ELSE updFtw.record
Allocates == updFtw' = [record |-> NoRecord, left |-> Len(updRun.pieces)]
RecordDone == [updFtw EXCEPT !.record.state = "done", !.left = IF @ = 0 THEN 0 ELSE @ - 1]
Put(v, lba, block) ==
    updFlash' = [a \in DOMAIN updFlash |->
                    IF a \in BlockSpan(v, lba) THEN block[a - BlockBase(v, lba) + 1]
                    ELSE updFlash[a]]
FitsIn(v) == Record.lba \in DOMAIN Blocks(v) /\ Blocks(v)[Record.lba] = Len(Record.block)
Erased(v, lba) ==
    updFlash' = [a \in DOMAIN updFlash |-> IF a \in BlockSpan(v, lba) THEN Torn ELSE updFlash[a]]

(* RetrieveLastWrite: the record of somebody else, or of another file, ends *)
(* the update.  A write that was cut short is restarted, on the volume that *)
(* is updated now; when that fails the record is dropped.                   *)
MineOrNot(record) == record.state # "none"
Mine(record) == record.file = Current.file
OfAnotherUpdate(record) ==
    /\ record.file = Current.file
    /\ record.fv # updRun.fv \/ record.image # File.image \/ record.base # Current.base
NothingPending ==
    /\ GetLastWrite.state = "none"
    /\ Allocates /\ Proceeds(RunAt("pieces"))
    /\ UNCHANGED <<updMixed, updExposed>>
PendingOfOther ==
    /\ GetLastWrite.state # "none" /\ ~Mine(Record)
    /\ Ends
    /\ UNCHANGED <<updFtw, updMixed, updExposed>>
PendingDone ==
    /\ GetLastWrite.state = "done" /\ Mine(Record)
    /\ Proceeds([RunAt("pieces") EXCEPT !.pending = TRUE])
    /\ updMixed' = (updMixed \/ OfAnotherUpdate(Record))
    /\ UNCHANGED <<updFtw, updExposed>>
PendingRestarts ==
    /\ GetLastWrite.state = "spare" /\ Mine(Record)
    /\ Proceeds([RunAt("restart") EXCEPT !.pending = TRUE])
    /\ updMixed' = (updMixed \/ OfAnotherUpdate(Record))
    /\ UNCHANGED <<updFtw, updExposed>>
RetrieveLastWrite ==
    /\ updRun.at = "retrieve"
    /\ \/ UpdFine /\ (NothingPending \/ PendingOfOther \/ PendingDone \/ PendingRestarts)
       \/ UpdFault /\ Ends /\ UNCHANGED <<updFtw, updMixed, updExposed>>  \* GetLastWrite, Allocate
    /\ UNCHANGED <<updFlash, updCapsule, updTargets>>
RestartAborted ==   \* Abort, Allocate
    /\ Allocates
    /\ Proceeds([RunAt("pieces") EXCEPT !.pending = FALSE])
    /\ updExposed' = updExposed \cup BlockSpan(Record.fv, Record.lba)
FtwRestart ==
    /\ updRun.at = "restart"
    /\ IF FitsIn(updRun.fv)
       THEN /\ Erased(updRun.fv, Record.lba) /\ Proceeds(RunAt("restarted"))
            /\ UNCHANGED <<updFtw, updExposed>>
       ELSE RestartAborted /\ UNCHANGED updFlash
    /\ UNCHANGED <<updCapsule, updLeft, updMixed, updTargets>>
FtwRestarted ==
    /\ updRun.at = "restarted"
    /\ \/ /\ UpdFine
          /\ Put(updRun.fv, Record.lba, Record.block)
          /\ updFtw' = RecordDone
          /\ Proceeds(RunAt("pieces"))
          /\ UNCHANGED updExposed
       \/ UpdFault /\ RestartAborted /\ UNCHANGED updFlash
    /\ UNCHANGED <<updCapsule, updMixed, updTargets>>

----------------------------------------------------------------------------
(* The loop over the blocks.                                                *)
ThePiece == updRun.pieces[updRun.p]
InTurn == updRun.at = "pieces" /\ updRun.p <= Len(updRun.pieces)
NextPiece == [RunAt("pieces") EXCEPT !.p = @ + 1]
StartOf(x) == BlockBase(updRun.fv, x.lba) + x.off
\* The block with the piece of the image in it; the rest stays.
Merged(x) ==
    [k \in 1..Blocks(updRun.fv)[x.lba] |->
        LET a == BlockBase(updRun.fv, x.lba) + k - 1
        IN  IF a \in Span(StartOf(x), x.len)
            THEN <<File.image, a - Current.base>> ELSE updFlash[a]]
(* A range goes on behind what was updated, an error of a fault tolerant    *)
(* write is not passed on; the update of a whole volume ends with it.       *)
Updated == SumOf([k \in 1..(updRun.p - 1) |-> updRun.pieces[k].len])
PartReturns == [RunAt("area") EXCEPT !.from = @ + Updated, !.size = @ - Updated]
LoopEnds == IF Current.type = "UpdateFvRange" THEN PartReturns ELSE RunAt("updated")
LoopFails == IF Current.type = "UpdateFvRange" THEN PartReturns ELSE Off
PendingDiffers(x) ==
    /\ updRun.pending /\ x.lba = Record.lba
    /\ Record.off # x.off \/ Record.len # x.len
\* After the pending block nothing is skipped: pending is over with the first write.
ToWrite(x) == ~updRun.pending \/ x.lba >= Record.lba
SpareWritten(x) ==
    updFtw' = [updFtw EXCEPT !.record =
                  [state |-> "spare", fv |-> updRun.fv, lba |-> x.lba, off |-> x.off,
                   len |-> x.len, block |-> Merged(x), file |-> Current.file,
                   image |-> File.image, base |-> Current.base]]
FtwWrite ==
    /\ InTurn /\ Current.ft
    /\ \/ /\ PendingDiffers(ThePiece) /\ UpdFine
          /\ Proceeds(LoopFails) /\ UNCHANGED updFtw
       \/ /\ ~PendingDiffers(ThePiece) /\ ~ToWrite(ThePiece) /\ UpdFine
          /\ Proceeds(NextPiece) /\ UNCHANGED updFtw
       \/ /\ ~PendingDiffers(ThePiece) /\ ToWrite(ThePiece) /\ UpdFine /\ updFtw.left > 0
          /\ SpareWritten(ThePiece) /\ Proceeds([RunAt("spare") EXCEPT !.pending = FALSE])
       \/ /\ ~PendingDiffers(ThePiece) /\ ToWrite(ThePiece)
          /\ IF updFtw.left = 0 THEN UpdFine ELSE UpdFault
          /\ Proceeds(LoopFails) /\ UNCHANGED updFtw
    /\ UNCHANGED <<updFlash, updCapsule, updHistory>>
FtwDestination ==
    /\ updRun.at = "spare"
    /\ Erased(updRun.fv, Record.lba)
    /\ \/ UpdFine /\ Proceeds(RunAt("destination"))
       \/ UpdFault /\ Proceeds(LoopFails)
    /\ UNCHANGED <<updFtw, updCapsule, updHistory>>
FtwComplete ==
    /\ updRun.at = "destination"
    /\ Put(updRun.fv, Record.lba, Record.block)
    /\ updFtw' = RecordDone
    /\ Proceeds(NextPiece)
    /\ UNCHANGED <<updCapsule, updLeft, updHistory>>

(* UpdateOneBlock: erase, then write; a part of a block is merged before.   *)
UpdateOneBlock ==
    /\ InTurn /\ ~Current.ft
    /\ \/ /\ UpdFine /\ Erased(updRun.fv, ThePiece.lba)
          /\ updExposed' = updExposed \cup BlockSpan(updRun.fv, ThePiece.lba)
          /\ Proceeds([RunAt("erased") EXCEPT !.buffer = Merged(ThePiece)])
       \/ UpdFault /\ Ends /\ UNCHANGED <<updFlash, updExposed>>
    /\ UNCHANGED <<updFtw, updCapsule, updMixed, updTargets>>
UpdateBufferInOneBlock ==
    /\ updRun.at = "erased"
    /\ \/ /\ UpdFine /\ Put(updRun.fv, ThePiece.lba, updRun.buffer)
          /\ Proceeds([NextPiece EXCEPT !.buffer = <<>>])
       \/ UpdFault /\ Ends /\ UNCHANGED updFlash
    /\ UNCHANGED <<updFtw, updCapsule, updHistory>>

\* ReinstallProtocolInterface, then the next update; at the end a reset.
VolumeDone ==
    /\ updRun.at = "pieces" /\ updRun.p > Len(updRun.pieces)
    /\ \/ UpdFine /\ Proceeds(LoopEnds)
       \/ UpdFault /\ Ends
    /\ UNCHANGED <<updFlash, updFtw, updCapsule, updHistory>>
NextUpdate ==
    /\ updRun.at = "updated"
    /\ IF updRun.i = Len(updRun.configs) THEN Ends
       ELSE Proceeds([Off EXCEPT !.at = "perform", !.configs = updRun.configs, !.i = updRun.i + 1])
    /\ UNCHANGED <<updFlash, updFtw, updCapsule, updLeft, updHistory>>
PowerLost ==
    /\ updRun.at # "off" /\ updLeft.losses > 0
    /\ updLeft' = [updLeft EXCEPT !.losses = @ - 1]
    /\ Ends
    /\ UNCHANGED <<updFlash, updFtw, updCapsule, updHistory>>

UpdNext ==
    \/ \E capsule \in UpdCapsules : InitializeUpdateDriver(capsule)
    \/ PerformUpdate \/ WriteFile \/ PerformUpdateOnFlashArea
    \/ RetrieveLastWrite \/ FtwRestart \/ FtwRestarted
    \/ FtwWrite \/ FtwDestination \/ FtwComplete
    \/ UpdateOneBlock \/ UpdateBufferInOneBlock
    \/ VolumeDone \/ NextUpdate \/ PowerLost

UpdSpec == UpdInit /\ [][UpdNext]_updVars

----------------------------------------------------------------------------
UpdTypeOK ==
    /\ updRun.i \in 0..Len(updRun.configs)
    /\ updRun.p \in 0..(Len(updRun.pieces) + 1) /\ updRun.pending \in BOOLEAN
    /\ updFtw.record.state \in {"none", "spare", "done"} /\ updFtw.left \in Nat
    /\ updExposed \cup updTargets \subseteq DOMAIN updFlash

(* Whenever the power goes, a block that a fault tolerant update has erased *)
(* is still in the record, so that it can be restarted.  An update that is  *)
(* reported as done has put its image where the profile says, all of it,    *)
(* also when it went on where a loss of power had stopped it; and nothing   *)
(* outside the targets of the updates has changed.  (A record of the same   *)
(* file that was made for another volume, address or image is taken for one *)
(* of this update; what follows is left out.)                               *)
Recoverable == IF Record.state = "spare" THEN BlockSpan(Record.fv, Record.lba) ELSE {}
UpdateSurvivesPowerLoss ==
    ~updMixed =>
        /\ \A a \in DOMAIN updFlash :
               updFlash[a] = Torn => a \in Recoverable \cup updExposed
        /\ \A a \in DOMAIN updFlash \ updTargets : updFlash[a] \in {OldByte, Torn}
        /\ updRun.at = "updated" /\ Current.type # "UpdateFvFile" =>
               \A a \in Span(Current.base, File.size) :
                   updFlash[a] = <<File.image, a - Current.base>>
=============================================================================
