-------------------------------- MODULE Ide --------------------------------
(***************************************************************************)
(* IdeBusDxe: block I/O of one device of an IDE channel.  An ATA disk is   *)
(* read and written by PIO commands, sector by sector, or by commands of   *)
(* the bus master (UDMA); a drive with media that are changed is driven by *)
(* ATAPI packets, and asked for the state of its medium before each        *)
(* transfer.  Calls run at TPL_CALLBACK, one at a time: what happens       *)
(* between two steps is what the device and the user of the drive do.      *)
(* The registers of a device are what the waits of Ide.c tell apart: data  *)
(* left over from a command (DRQ), a fault (ERR, DWF), an answer too late. *)
(***************************************************************************)
EXTENDS Integers, SequencesExt

CONSTANTS
    IdeDevices,   \* what may be on the channel: [type, wide, udma]
    IdeDisks,     \* disks: [last, locked]
    IdeCalls,     \* arguments of calls: [op, lba, blocks]
    IdeMaxSectors,  \* sectors of one command: 256 or 65535 in the code
    IdeRetries,   \* how often a medium is asked for: 5 in the code
    IdeBudgets    \* bounds: calls, changes of disk, faults

IdeNoDisk == "no disk"
HardDisks == {"IdeHardDisk", "Ide48bitAddressingHardDisk"}

\* A call with an empty buffer returns before it does anything.
ASSUME IdeAssumption ==
    /\ IdeMaxSectors \in Nat \ {0} /\ IdeRetries \in Nat
    /\ IdeDevices \subseteq [type : {"ATA", "ATAPI"}, wide : BOOLEAN, udma : BOOLEAN,
                             cdrom : BOOLEAN]
    /\ IdeNoDisk \notin DOMAIN IdeDisks
    /\ \A disk \in DOMAIN IdeDisks : IdeDisks[disk].last \in Nat
    /\ IdeCalls \subseteq [op : {"read", "write"}, lba : Nat, blocks : Nat \ {0}]
    /\ IdeBudgets \subseteq [calls : Nat, changes : Nat, faults : Nat]

VARIABLES
    ideDevice,   \* the device on the channel
    ideDisk,     \* the disk in it
    ideSense,    \* a unit attention that nobody has asked for yet
    ideLatch,    \* data left over (stale), a fault that was not read (fault)
    ideData,     \* what is in each block of each disk
    ideDev,      \* IDE_BLK_IO_DEV: Type, UdmaMode.Valid and BlkIo.Media
    ideDma,      \* the bus master: its memory is mapped, it runs
    idePc,       \* the call that runs
    ideSeen,     \* the MediaId the caller goes by
    ideLeft,     \* what is left of the budget
    ideUntold,   \* history: the disk was changed and the caller not told
    ideWrong     \* history: a call succeeded and its data are not right

ideHw == <<ideDevice, ideDisk, ideSense, ideLatch, ideData>>
ideHist == <<ideUntold, ideWrong>>
ideVars == <<ideHw, ideDev, ideDma, idePc, ideSeen, ideLeft, ideHist>>

LastOf(disk) == IF disk = IdeNoDisk THEN 0 ELSE IdeDisks[disk].last
Locked(disk) == disk # IdeNoDisk /\ IdeDisks[disk].locked
NoMedia == [id |-> 0, present |-> FALSE, last |-> 0, readOnly |-> FALSE]
Undiscovered == [type |-> "IdeUnknown", udma |-> FALSE, media |-> NoMedia]
IdeIdle == [at |-> "idle", op |-> "none", lba |-> 0, blocks |-> 0, id |-> 0, old |-> NoMedia,
            tries |-> 0, want |-> 0, left |-> 0, sent |-> 0, done |-> <<>>, late |-> FALSE,
            error |-> FALSE]
Clean == [stale |-> FALSE, fault |-> FALSE]

IdeInit ==
    /\ ideDevice \in IdeDevices
    /\ ideDisk \in DOMAIN IdeDisks \cup (IF ideDevice.type = "ATAPI" THEN {IdeNoDisk} ELSE {})
    /\ ideSense = (ideDevice.type = "ATAPI" /\ ideDisk # IdeNoDisk)
    /\ ideLatch = Clean
    /\ ideData = [k \in DOMAIN IdeDisks |-> [b \in 0..LastOf(k) |-> 0]]
    /\ ideDev = Undiscovered
    /\ ideDma = [mapped |-> FALSE, running |-> FALSE]
    /\ idePc = [IdeIdle EXCEPT !.at = "detect"]
    /\ ideSeen = 0
    /\ ideLeft \in IdeBudgets
    /\ ideUntold = FALSE /\ ideWrong = FALSE

IdeFault == ideLeft.faults > 0 /\ ideLeft' = [ideLeft EXCEPT !.faults = @ - 1]
IdeFine == UNCHANGED ideLeft
IdeGoes(at) == idePc' = [idePc EXCEPT !.at = at]

----------------------------------------------------------------------------
(* The user of a drive with a removable medium takes it out or puts one in;*)
(* the drive notes one that was put in as a unit attention, which stays    *)
(* until a REQUEST SENSE has read it.                                      *)
IdeChange(disk) ==
    /\ ideDevice.type = "ATAPI" /\ ideLeft.changes > 0
    /\ disk # ideDisk
    /\ ideDisk' = disk
    /\ ideSense' = (disk # IdeNoDisk)
    /\ ideLeft' = [ideLeft EXCEPT !.changes = @ - 1]
    /\ ideUntold' = TRUE
    /\ UNCHANGED <<ideDevice, ideLatch, ideData, ideDev, ideDma, idePc, ideSeen, ideWrong>>

(* What TEST UNIT READY and REQUEST SENSE tell, and what they clear.       *)
SenseNow == IF ideSense THEN "SenseMediaChange"
            ELSE IF ideDisk = IdeNoDisk THEN "SenseNoMedia" ELSE "SenseNoSenseKey"

----------------------------------------------------------------------------
(* DetectIDEController: the diagnostic command leaves a signature, which   *)
(* may be that of the other kind.                                          *)
DetectIDEController ==
    /\ idePc.at = "detect"
    /\ \/ \E signature \in {"ATA", "ATAPI"} :
              /\ idePc' = [idePc EXCEPT !.at = "discover", !.op = signature]
              /\ IF signature = ideDevice.type THEN IdeFine ELSE IdeFault
       \/ IdeGoes("gone") /\ IdeFault
    /\ UNCHANGED <<ideHw, ideDev, ideDma, ideSeen, ideHist>>

AtaAtapi6Identify == IF ideDevice.wide THEN "Ide48bitAddressingHardDisk" ELSE "IdeHardDisk"
ATAIdentify ==
    [type |-> AtaAtapi6Identify, udma |-> FALSE,
     media |-> [id |-> 1, present |-> TRUE, last |-> LastOf(ideDisk), readOnly |-> FALSE]]
ATAPIIdentify ==
    [type |-> IF ideDevice.cdrom THEN "IdeCdRom" ELSE "IdeMagnetic", udma |-> FALSE,
     media |-> [NoMedia EXCEPT !.readOnly = ideDevice.cdrom]]

(* DiscoverIdeDevice: what the signature says is tried first, then the     *)
(* other; an IDENTIFY of the wrong kind is aborted.                        *)
Identifies(kind) == ideDevice.type = kind /\ IdeFine
DiscoverIdeDevice ==
    /\ idePc.at = "discover"
    /\ \/ Identifies("ATA") /\ ideDev' = ATAIdentify /\ IdeGoes("mode")
       \/ Identifies("ATAPI") /\ ideDev' = ATAPIIdentify /\ IdeGoes("mode")
       \/ IdeFault /\ UNCHANGED ideDev /\ IdeGoes("gone")
    /\ UNCHANGED <<ideHw, ideDma, ideSeen, ideHist>>

\* A device whose transfer mode is refused is dropped.
AtaNonDataCommandIn == IdeFine
SetDeviceTransferMode ==
    /\ idePc.at = "mode"
    /\ \/ /\ AtaNonDataCommandIn
          /\ ideDev' = [ideDev EXCEPT !.udma = ideDevice.udma]
          /\ ideSeen' = ideDev.media.id
          /\ idePc' = IdeIdle
       \/ IdeFault /\ UNCHANGED <<ideDev, ideSeen>> /\ IdeGoes("gone")
    /\ UNCHANGED <<ideHw, ideDma, ideHist>>

----------------------------------------------------------------------------
(* The end of a call.  A failed transfer of an ATA disk ends with a reset, *)
(* which clears what the device has left over.  A caller that is told of a *)
(* change takes the new MediaId.                                           *)
IdeReturns(status, reset) ==
    /\ idePc' = IdeIdle
    /\ ideLatch' = IF reset THEN Clean ELSE ideLatch
    /\ IF status \in {"EFI_MEDIA_CHANGED", "EFI_NO_MEDIA"}
       THEN ideSeen' = ideDev'.media.id /\ ideUntold' = ideSense
       ELSE UNCHANGED <<ideSeen, ideUntold>>
InRange(media) == idePc.lba <= media.last /\ idePc.lba + idePc.blocks - 1 <= media.last
Stays == UNCHANGED <<ideSeen, ideUntold, ideLatch>>  \* the call goes on
Failed == IdeReturns("EFI_DEVICE_ERROR", ideDev.type \in HardDisks)

(* IDEBlkIoReadBlocks, IDEBlkIoWriteBlocks, IDEBlkIoReset.  The MediaId is *)
(* the one the caller goes by.                                             *)
IdeCall(c) ==
    /\ idePc.at = "idle" /\ ideLeft.calls > 0
    /\ c.op \in {"read", "write"}
    /\ ideLeft' = [ideLeft EXCEPT !.calls = @ - 1]
    /\ idePc' = [IdeIdle EXCEPT !.op = c.op, !.lba = c.lba, !.blocks = c.blocks, !.id = ideSeen,
                     !.want = c.lba, !.left = c.blocks,
                     !.old = ideDev.media, !.tries = IdeRetries,
                     !.at = IF ideDev.type \in HardDisks THEN "check" ELSE "TUR"]
    /\ UNCHANGED <<ideHw, ideDev, ideDma, ideSeen, ideHist>>

IDEBlkIoReset ==
    /\ idePc.at = "idle" /\ ideLeft.calls > 0
    /\ ideLeft' = [ideLeft EXCEPT !.calls = @ - 1]
    /\ ideLatch' = Clean
    /\ UNCHANGED <<ideDevice, ideDisk, ideSense, ideData, ideDev, ideDma, idePc, ideSeen, ideHist>>

\* At the end of boot services each device is reset.
ClearInterrupt ==
    /\ idePc.at = "idle"
    /\ ideLatch' = Clean
    /\ IdeGoes("gone")
    /\ UNCHANGED <<ideDevice, ideDisk, ideSense, ideData, ideDev, ideDma, ideSeen, ideLeft,
                   ideHist>>

(* AtaBlkIoReadBlocks and AtaBlkIoWriteBlocks, before the transfer.        *)
AtaBlkIo ==
    /\ idePc.at = "check"
    /\ IF idePc.id = ideDev.media.id /\ InRange(ideDev.media)
       THEN IdeGoes(IF ideDev.udma THEN "map" ELSE "command") /\ Stays
       ELSE IdeReturns("EFI_INVALID_PARAMETER", FALSE)
    /\ UNCHANGED <<ideDevice, ideDisk, ideSense, ideData, ideDev, ideDma, ideLeft, ideWrong>>

----------------------------------------------------------------------------
(* AtapiDetectMedia.  Each question is a packet and a REQUEST SENSE; a     *)
(* question is not answered when data are left over: those are read away,  *)
(* and the question is put again.                                          *)
Tries(n, at) == idePc' = [idePc EXCEPT !.tries = n, !.at = IF n = 0 THEN "fails" ELSE at]
Media(media) == ideDev' = [ideDev EXCEPT !.media = media]
SenseIsRead(s) == /\ s = SenseNow
                  /\ ideSense' = FALSE
ChangedUncounted(media) == media
Changed(media) == [media EXCEPT !.id = @ + 1]

AtapiTestUnitReady ==
    /\ idePc.at = "TUR"
    /\ \/ /\ ideLatch.stale \/ ideLeft.faults > 0               \* AtapiReadPendingData
          /\ IF ideLatch.stale THEN IdeFine ELSE IdeFault
          /\ ideLatch' = [ideLatch EXCEPT !.stale = FALSE]
          /\ \/ UNCHANGED idePc
             \/ ~ideLatch.stale /\ Tries(idePc.tries - 1, "TUR")
          /\ UNCHANGED <<ideSense, ideDev>>
       \/ /\ ~ideLatch.stale /\ IdeFine /\ UNCHANGED ideLatch
          /\ \E s \in {"SenseMediaChange", "SenseNoMedia", "SenseNoSenseKey"} :
                 /\ SenseIsRead(s)
                 /\ CASE s = "SenseNoSenseKey" ->
                             /\ UNCHANGED ideDev
                             /\ IF ideDev.media.present THEN IdeGoes("done")
                                ELSE Tries(IdeRetries, "RC")
                      [] s = "SenseNoMedia" ->
                             /\ Media([ideDev.media EXCEPT !.present = FALSE, !.last = 0])
                             /\ IdeGoes("done")
                      [] s = "SenseMediaChange" ->
                             /\ Media(Changed(ideDev.media))
                             /\ Tries(IdeRetries, "RC")
    /\ UNCHANGED <<ideDevice, ideDisk, ideData, ideDma, ideSeen, ideHist>>

\* The device does not become ready, or reports an error of the medium.
AtapiNotReady ==
    /\ idePc.at \in {"TUR", "RC"} /\ IdeFault
    /\ IdeGoes("fails")
    /\ UNCHANGED <<ideHw, ideDev, ideDma, ideSeen, ideHist>>

(* AtapiReadCapacity: the capacity counts only when the sense that follows *)
(* it is clear.  READ FORMAT CAPACITY of a blank disk has LastBlock 0.     *)
AtapiReadCapacity ==
    /\ idePc.at = "RC"
    /\ \/ /\ IF ideLatch.stale THEN IdeFine ELSE IdeFault
          /\ ideLatch' \in {ideLatch, [ideLatch EXCEPT !.stale = TRUE]}
          /\ Tries(idePc.tries - 1, "RC")
          /\ UNCHANGED <<ideSense, ideDev>>
       \/ /\ ~ideLatch.stale /\ IdeFine /\ UNCHANGED ideLatch
          /\ \E s \in {"SenseMediaChange", "SenseNoMedia", "SenseNoSenseKey"} :
                 /\ SenseIsRead(s)
                 /\ CASE s = "SenseNoSenseKey" ->
                             IF ideDev.type = "IdeMagnetic" /\ LastOf(ideDisk) = 0
                             THEN /\ Media([ideDev.media EXCEPT !.present = FALSE, !.last = 0])
                                  /\ Tries(idePc.tries - 1, "RC")
                             ELSE /\ Media([ideDev.media EXCEPT !.present = TRUE,
                                               !.last = LastOf(ideDisk)])
                                  /\ IdeGoes("done")
                      [] s = "SenseNoMedia" ->
                             /\ Media([ideDev.media EXCEPT !.present = FALSE, !.last = 0])
                             /\ IdeGoes("done")
                      [] s = "SenseMediaChange" -> Media(Changed(ideDev.media)) /\ UNCHANGED idePc
    /\ UNCHANGED <<ideDevice, ideDisk, ideData, ideDma, ideSeen, ideHist>>

AtapiDetectFails ==
    /\ idePc.at = "fails"
    /\ UNCHANGED ideDev /\ IdeReturns("EFI_DEVICE_ERROR", FALSE)
    /\ UNCHANGED <<ideDevice, ideDisk, ideSense, ideData, ideDma, ideLeft, ideWrong>>

(* Done: a change of what Media says counts the MediaId on, a medium that  *)
(* appears makes it 1, and the protocol is installed again: its users are  *)
(* told.  The caller then finds out whether it is its own medium.          *)
Compared(old, media) ==
    LET counted == media.id + Cardinality({f \in {"readOnly", "last"} : media[f] # old[f]})
    IN  [media EXCEPT !.id = IF media.present = old.present THEN counted
                             ELSE IF media.present THEN 1 ELSE 0]
Differs(old, media) == \E f \in {"id", "readOnly", "last", "present"} : media[f] # old[f]
\* IsLS120orZipWriteProtected, which may fail
ReadOnlyNow(readOnly) ==
    \/ readOnly = ideDev.media.readOnly /\ IdeFault
    \/ /\ readOnly = IF ideDev.type = "IdeMagnetic" /\ ideDev.media.present THEN Locked(ideDisk)
                     ELSE ideDev.media.readOnly
       /\ IdeFine
Detected ==
    /\ idePc.at = "done"
    /\ \E readOnly \in BOOLEAN :
           LET media == [ideDev.media EXCEPT !.readOnly = readOnly]
               status == IF ~media.present THEN "EFI_NO_MEDIA"
                         ELSE IF \/ idePc.id # Compared(idePc.old, media).id
                                 \/ Differs(idePc.old, media)
                              THEN "EFI_MEDIA_CHANGED"
                         ELSE IF idePc.op = "write" /\ readOnly THEN "EFI_WRITE_PROTECTED"
                         ELSE IF ~InRange(media) THEN "EFI_INVALID_PARAMETER"
                         ELSE "EFI_SUCCESS"
           IN  /\ ReadOnlyNow(readOnly)
               /\ Media(Compared(idePc.old, media))
               /\ IF status = "EFI_SUCCESS"
                  THEN IdeGoes("command") /\ UNCHANGED <<ideSeen, ideUntold, ideLatch>>
                  ELSE IdeReturns(status, FALSE)
    /\ UNCHANGED <<ideDevice, ideDisk, ideSense, ideData, ideDma, ideWrong>>

----------------------------------------------------------------------------
(* The commands of a transfer.  Those that address 28 bits, and packets,   *)
(* are not sent while data are left over.                                  *)
SectorCount == Min({idePc.left, IdeMaxSectors})
Block == idePc.lba + idePc.sent
DRQClear == ~ideLatch.stale
\* A drive refuses a packet when its medium was changed or does not have the blocks.
PacketRefused == \/ ideSense \/ ideDisk = IdeNoDisk
                 \/ idePc.lba + SectorCount - 1 > LastOf(ideDisk)
DRQReady == ~ideLatch.fault /\ (ideDevice.type = "ATAPI" => ~PacketRefused)
Sends(op, type) == idePc.op = op /\ ideDev.type = type
AtaPioDataIn == Sends("read", "IdeHardDisk") /\ DRQClear
AtaPioDataOut == Sends("write", "IdeHardDisk") /\ DRQClear
AtaPioDataInExt == Sends("read", "Ide48bitAddressingHardDisk")
AtaPioDataOutExt == Sends("write", "Ide48bitAddressingHardDisk")
AtapiPacketCommandIn == idePc.op = "read" /\ ideDev.type \notin HardDisks /\ DRQClear
AtapiPacketCommandOut == idePc.op = "write" /\ ideDev.type \notin HardDisks /\ DRQClear
IdeCommand ==
    LET sent == \/ AtaPioDataIn \/ AtaPioDataOut \/ AtaPioDataInExt \/ AtaPioDataOutExt
                \/ AtapiPacketCommandIn \/ AtapiPacketCommandOut
    IN  /\ idePc.at = "command"
        /\ \/ sent /\ IdeFine /\ IdeGoes("sectors") /\ Stays
           \/ (IF sent THEN IdeFault ELSE IdeFine) /\ Failed
        /\ UNCHANGED <<ideDevice, ideDisk, ideSense, ideData, ideDev, ideDma, ideWrong>>

Taken(n) == [i \in 1..n |-> [disk |-> ideDisk, block |-> Block + i - 1, untold |-> ideUntold]]
NoSector == [disk |-> IdeNoDisk, block |-> -1, untold |-> FALSE]
Takes(sectors) == idePc' = [idePc EXCEPT !.done = @ \o sectors, !.sent = @ + Len(sectors),
                                !.at = IF idePc.sent + Len(sectors) = SectorCount
                                       THEN "verify" ELSE "sectors"]
Version == ideLeft.calls + 1  \* what this call writes
Writes(n) == ideData' = [ideData EXCEPT ![ideDisk] =
                 [b \in DOMAIN @ |-> IF b \in Block..(Block + n - 1) THEN Version ELSE @[b]]]
IdeMoves(n) == IF idePc.op = "write" THEN Writes(n) ELSE UNCHANGED ideData

(* One sector: DRQReady2, CheckErrorStatus, the words.  A fault of a write *)
(* shows in the status afterwards.                                         *)
IdeSector ==
    /\ idePc.at = "sectors"
    /\ IF ~DRQReady
       THEN Failed /\ IdeFine /\ UNCHANGED ideData
       ELSE /\ Takes(Taken(1))
            /\ UNCHANGED <<ideSeen, ideUntold>>
            /\ \/ IdeFine /\ IdeMoves(1) /\ UNCHANGED ideLatch
               \/ /\ idePc.op = "write" /\ IdeFault
                  /\ ideLatch' = [ideLatch EXCEPT !.fault = TRUE]
                  /\ UNCHANGED ideData
    /\ UNCHANGED <<ideDevice, ideDisk, ideSense, ideDev, ideDma, ideWrong>>

(* The device does not answer in time.  PioReadWriteData then returns what *)
(* CheckErrorStatus makes of the status, which has no error in it.         *)
IdeLate ==
    /\ idePc.at = "sectors" /\ IdeFault
    /\ IF ideDev.type \in HardDisks THEN Failed
       ELSE /\ idePc' = [idePc EXCEPT !.late = TRUE, !.at = "verify",
                             !.done = @ \o [i \in 1..(SectorCount - idePc.sent) |-> NoSector]]
            /\ ideLatch' = [ideLatch EXCEPT !.stale = TRUE]
            /\ UNCHANGED <<ideSeen, ideUntold>>
    /\ UNCHANGED <<ideDevice, ideDisk, ideSense, ideData, ideDev, ideDma, ideWrong>>

\* The i-th sector of the call is the one that was asked for.
Right(i) == LET sector == idePc.done[i]
            IN  /\ sector.block = idePc.want + i - 1 /\ ~sector.untold
                /\ idePc.op = "write" => ideData[sector.disk][sector.block] = Version
AllMoved == Len(idePc.done) = idePc.blocks /\ \A i \in DOMAIN idePc.done : Right(i)
Succeeds ==
    /\ IdeReturns("EFI_SUCCESS", FALSE)
    /\ ideWrong' = (ideWrong \/ ~(idePc.late \/ AllMoved))

(* After the last sector of a command: DRQClear and CheckErrorStatus; then *)
(* the next command, or the end.                                           *)
Advanced == [idePc EXCEPT !.lba = @ + SectorCount, !.left = @ - SectorCount, !.sent = 0,
                !.at = IF ideDev.udma /\ ideDev.type \in HardDisks THEN "map" ELSE "command"]
NextCommand ==
    IF idePc.left = SectorCount THEN Succeeds
    ELSE idePc' = Advanced /\ Stays /\ UNCHANGED ideWrong
IdeVerify ==
    /\ idePc.at = "verify"
    /\ IF ideLatch.fault THEN Failed /\ UNCHANGED ideWrong ELSE NextCommand
    /\ UNCHANGED <<ideDevice, ideDisk, ideSense, ideData, ideDev, ideDma, ideLeft>>

----------------------------------------------------------------------------
(* DoAtaUdma: a table of regions and the buffer are mapped, the command is *)
(* issued, the bus master started.  It ends by an interrupt, by an error   *)
(* of the bus master, or the driver gives up; an error that only the       *)
(* status of the device tells is not looked at.  The memory is given back  *)
(* first, the bus master stopped next.                                     *)
Dma(mapped, running) == ideDma' = [mapped |-> mapped, running |-> running]
DmaMap ==
    /\ idePc.at = "map"
    /\ \/ IdeFine /\ Dma(TRUE, FALSE) /\ IdeGoes("issue") /\ Stays
       \/ IdeFault /\ UNCHANGED ideDma /\ Failed
    /\ UNCHANGED <<ideDevice, ideDisk, ideSense, ideData, ideDev, ideWrong>>
AtaCommandIssueExt == ideDev.type = "Ide48bitAddressingHardDisk" /\ IdeFine
AtaCommandIssue == ideDev.type = "IdeHardDisk" /\ IdeFine
DmaIssue ==
    /\ idePc.at = "issue"
    /\ \/ (AtaCommandIssueExt \/ AtaCommandIssue) /\ Dma(TRUE, TRUE) /\ IdeGoes("dma") /\ Stays
       \/ IdeFault /\ Dma(FALSE, FALSE) /\ Failed
    /\ UNCHANGED <<ideDevice, ideDisk, ideSense, ideData, ideDev, ideWrong>>
DmaEnds ==
    /\ idePc.at = "dma"
    /\ \/ /\ IdeFine /\ Dma(TRUE, FALSE) /\ IdeMoves(SectorCount)                \* interrupt
          /\ idePc' = [idePc EXCEPT !.done = @ \o Taken(SectorCount), !.at = "unmap"]
       \/ /\ IdeFault /\ UNCHANGED ideData
          /\ \/ Dma(TRUE, FALSE) /\ idePc' = [idePc EXCEPT !.at = "unmap", !.error = TRUE]
             \/ /\ Dma(TRUE, TRUE)                                    \* given up
                /\ idePc' = [idePc EXCEPT !.at = "unmap", !.error = TRUE, !.late = TRUE]
             \/ /\ Dma(TRUE, FALSE)                                   \* ERR of the device
                /\ idePc' = [idePc EXCEPT !.at = "unmap", !.late = TRUE,
                                 !.done = @ \o [i \in 1..SectorCount |-> NoSector]]
    /\ UNCHANGED <<ideDevice, ideDisk, ideSense, ideLatch, ideDev, ideSeen, ideHist>>
DmaUnmap ==
    /\ idePc.at = "unmap"
    /\ Dma(FALSE, ideDma.running)
    /\ IdeGoes("stop")
    /\ UNCHANGED <<ideHw, ideDev, ideSeen, ideLeft, ideHist>>
DmaStop ==
    /\ idePc.at = "stop"
    /\ Dma(ideDma.mapped, FALSE)
    /\ IF idePc.error THEN Failed /\ UNCHANGED ideWrong ELSE NextCommand
    /\ UNCHANGED <<ideDevice, ideDisk, ideSense, ideData, ideDev, ideLeft>>

----------------------------------------------------------------------------
IdeNext ==
    \/ \E disk \in DOMAIN IdeDisks \cup {IdeNoDisk} : IdeChange(disk)
    \/ DetectIDEController \/ DiscoverIdeDevice \/ SetDeviceTransferMode
    \/ \E c \in IdeCalls : IdeCall(c)
    \/ IDEBlkIoReset \/ ClearInterrupt
    \/ AtaBlkIo
    \/ AtapiTestUnitReady \/ AtapiReadCapacity \/ AtapiNotReady \/ AtapiDetectFails \/ Detected
    \/ IdeCommand \/ IdeSector \/ IdeLate \/ IdeVerify
    \/ DmaMap \/ DmaIssue \/ DmaEnds \/ DmaUnmap \/ DmaStop

IdeSpec == IdeInit /\ [][IdeNext]_ideVars

----------------------------------------------------------------------------
IdeTypeOK ==
    /\ ideDisk \in DOMAIN IdeDisks \cup {IdeNoDisk}
    /\ ideLatch \in [stale : BOOLEAN, fault : BOOLEAN]
    /\ ideDev.type \in HardDisks \cup {"IdeCdRom", "IdeMagnetic", "IdeUnknown"}
    /\ ideDev.media.id \in Nat /\ ideSeen \in Nat
    /\ idePc.sent \in 0..IdeMaxSectors /\ Len(idePc.done) <= idePc.blocks
    /\ idePc.at # "idle" \/ idePc.tries = 0

(* A transfer that reports success has moved the sectors that were asked   *)
(* for, all of them, over several commands, tries and resets, and a write  *)
(* whose last sector failed is not among them: but for a device that is    *)
(* too late or whose error the bus master does not see.  The caller of a   *)
(* removable medium has been told of each medium before it gets its data.  *)
(* The bus master uses memory only while it is mapped, unless it has not   *)
(* answered in time, and after a call nothing is left mapped or running.   *)
IdeTransfersTrue ==
    /\ ~ideWrong
    /\ ideDma.running => ideDma.mapped \/ idePc.late
    /\ idePc.at = "idle" => ~ideDma.mapped /\ ~ideDma.running
=============================================================================
