------------------------------ MODULE Ide_proofs ------------------------------
(***************************************************************************)
(* Proofs about Ide, for disks, calls and commands of every size.          *)
(*                                                                         *)
(* IdeTransfersTrue says what ideWrong must not become; what makes it      *)
(* inductive is how much of the call is done at each step of it (PcOK,     *)
(* MovedOK), that the kind of driver is that of the device, whose disk     *)
(* stays when it cannot be changed (DeviceOK), what is mapped and runs at  *)
(* each step of UDMA (DmaOK), and how the caller comes to know of a change *)
(* of the disk: by a MediaId beyond its own, or by a medium that was not   *)
(* there when its call began (ToldOK).                                     *)
(***************************************************************************)
EXTENDS Ide, FiniteSetTheorems, SequenceTheorems, TLAPS

-----------------------------------------------------------------------------
(* The invariant. *)

DiskNames == DOMAIN IdeDisks
Setup == {"detect", "discover", "mode", "gone"}
Detecting == {"TUR", "RC", "fails", "done"}
UdmaSteps == {"map", "issue", "dma", "unmap", "stop"}
Transfer == {"command", "sectors", "verify"} \cup UdmaSteps
DevTypes == HardDisks \cup {"IdeCdRom", "IdeMagnetic", "IdeUnknown"}

MediaInfos == [id : Nat, present : BOOLEAN, last : Nat, readOnly : BOOLEAN]
Sectors == [disk : DiskNames \cup {IdeNoDisk}, block : Int, untold : BOOLEAN]
IdePcs == [at : {"idle", "check"} \cup Setup \cup Detecting \cup Transfer,
           op : {"none", "read", "write", "ATA", "ATAPI"}, lba : Nat, blocks : Nat, id : Nat,
           old : MediaInfos, tries : Int, want : Nat, left : Nat, sent : Nat,
           done : Seq(Sectors), late : BOOLEAN, error : BOOLEAN]

IdeTypes ==
    /\ ideDevice \in IdeDevices
    /\ ideDisk \in DiskNames \cup {IdeNoDisk}
    /\ ideSense \in BOOLEAN /\ ideUntold \in BOOLEAN /\ ideWrong \in BOOLEAN
    /\ ideLatch \in [stale : BOOLEAN, fault : BOOLEAN]
    /\ DOMAIN ideData = DiskNames
    /\ \A disk \in DiskNames : ideData[disk] \in [0 .. LastOf(disk) -> Nat]
    /\ ideDev \in [type : DevTypes, udma : BOOLEAN, media : MediaInfos]
    /\ ideDma \in [mapped : BOOLEAN, running : BOOLEAN]
    /\ idePc \in IdePcs
    /\ ideSeen \in Nat
    /\ ideLeft \in [calls : Nat, changes : Nat, faults : Nat]

(* The kind of the driver is that of the device; a disk of an ATA device   *)
(* is not changed, its capacity is known and faults are reset away.        *)
DeviceOK ==
    /\ ideSense => ideDisk # IdeNoDisk
    /\ ideDevice.type = "ATA" => ideDisk # IdeNoDisk /\ ~ideSense /\ ~ideUntold
    /\ idePc.at \in Setup => ~ideLatch.fault
    /\ idePc.at \notin {"detect", "discover", "gone"} =>
          (ideDev.type \in HardDisks <=> ideDevice.type = "ATA")
    /\ ideDev.type \in HardDisks =>
          /\ ideDevice.type = "ATA" /\ ideDev.media.last = LastOf(ideDisk)
          /\ ideLatch.fault => idePc.at \in {"sectors", "verify"}
    /\ idePc.at \in {"check"} \cup UdmaSteps => ideDev.type \in HardDisks
    /\ idePc.at \in Detecting => ideDev.type \notin HardDisks

(* What the running command has moved, and what the whole call.            *)
MovedNow ==
    CASE idePc.at = "sectors" -> idePc.sent
      [] idePc.at = "verify" -> SectorCount
      [] idePc.at \in {"unmap", "stop"} -> IF idePc.error THEN 0 ELSE SectorCount
      [] OTHER -> 0
PcOK ==
    /\ idePc.at = "idle" => idePc = IdeIdle
    /\ idePc.at \in Setup => idePc.done = <<>> /\ idePc.sent = 0 /\ ~idePc.late
    /\ idePc.at \in {"check"} \cup Detecting =>
          /\ idePc.done = <<>> /\ idePc.sent = 0 /\ ~idePc.late /\ ~idePc.error
          /\ idePc.lba = idePc.want /\ idePc.left = idePc.blocks
    /\ idePc.at \in {"check"} \cup Detecting \cup Transfer =>
          idePc.op \in {"read", "write"} /\ idePc.left \in 1 .. idePc.blocks
    /\ idePc.at \in Transfer =>
          /\ idePc.lba + idePc.left = idePc.want + idePc.blocks
          /\ Len(idePc.done) = idePc.lba - idePc.want + MovedNow
          /\ idePc.sent <= SectorCount
          /\ idePc.at = "sectors" => idePc.sent < SectorCount
          /\ idePc.at \notin {"sectors", "verify"} => idePc.sent = 0
    /\ idePc.error => idePc.at \in {"unmap", "stop"}
    /\ idePc.at \in Transfer /\ ideDev.type \in HardDisks =>
          idePc.want + idePc.blocks - 1 <= LastOf(ideDisk)

(* The sectors that were moved are those that were asked for.              *)
MovedOK ==
    ~idePc.late =>
        \A i \in 1 .. Len(idePc.done) :
            /\ idePc.done[i].disk \in DiskNames
            /\ idePc.done[i].block \in 0 .. LastOf(idePc.done[i].disk)
            /\ idePc.done[i].block = idePc.want + i - 1 /\ ~idePc.done[i].untold
            /\ idePc.op = "write" /\ ~ideLatch.fault =>
                  ideData[idePc.done[i].disk][idePc.done[i].block] = Version

DmaOK ==
    /\ ideDma.mapped <=> idePc.at \in {"issue", "dma", "unmap"}
    /\ ideDma.running => idePc.at \in {"dma", "unmap", "stop"}
    /\ ideDma.running /\ idePc.at # "dma" => idePc.late

(* A change of the disk that neither the device tells any more nor the     *)
(* caller knows.                                                           *)
Unasked == ideUntold /\ ~ideSense /\ ideDisk # IdeNoDisk
ToldOK ==
    /\ ideSeen <= ideDev.media.id
    /\ idePc.at \in {"detect", "discover"} => ideSeen = 0
    /\ idePc.at = "mode" /\ ideDev.type \notin HardDisks => ~ideDev.media.present
    /\ idePc.at \in {"check"} \cup Detecting =>
          idePc.id = ideSeen /\ ideSeen <= idePc.old.id /\ idePc.old.id <= ideDev.media.id
    /\ idePc.at \in {"TUR", "RC", "fails"} => idePc.old.present \/ ~ideDev.media.present
    /\ Unasked /\ idePc.at = "idle" => ideDev.media.id > ideSeen \/ ~ideDev.media.present
    /\ Unasked /\ idePc.at \in Detecting => ideDev.media.id > ideSeen \/ ~idePc.old.present
    /\ Unasked => idePc.at \notin {"check"} \cup Transfer

IdeInv == /\ IdeTypes /\ DeviceOK /\ PcOK /\ MovedOK /\ DmaOK /\ ToldOK /\ ~ideWrong

-----------------------------------------------------------------------------
(* What the operators return. *)

LEMMA LeastOfTwo ==
    ASSUME NEW a \in Int, NEW b \in Int
    PROVE  Min({a, b}) = IF a <= b THEN a ELSE b
<1>1. \E m \in {a, b} : \A y \in {a, b} : m <= y
  OBVIOUS
<1>2. Min({a, b}) \in {a, b} /\ \A y \in {a, b} : Min({a, b}) <= y
  BY <1>1 DEF Min
<1> QED BY <1>2

LEMMA IdeSizes == IdeMaxSectors \in Nat \ {0} /\ IdeRetries \in Nat
  BY IdeAssumption

(* A command moves at least one sector and not more than are left. *)
LEMMA CommandSize ==
    ASSUME NEW pc \in IdePcs, pc.left \in 1 .. pc.blocks
    PROVE  /\ Min({pc.left, IdeMaxSectors}) \in 1 .. pc.left
           /\ Min({pc.left, IdeMaxSectors}) <= IdeMaxSectors
<1>1. pc.left \in Int
  BY DEF IdePcs
<1>2. Min({pc.left, IdeMaxSectors}) = IF pc.left <= IdeMaxSectors THEN pc.left ELSE IdeMaxSectors
  BY <1>1, LeastOfTwo, IdeSizes
<1> QED BY <1>1, <1>2, IdeSizes

LEMMA LastIsNat ==
    ASSUME NEW disk \in DiskNames \cup {IdeNoDisk}
    PROVE  LastOf(disk) \in Nat
  BY IdeAssumption DEF LastOf, DiskNames

LEMMA IdleIsTyped == IdeIdle \in IdePcs /\ IdeIdle.done = <<>> /\ IdeIdle.at = "idle"
<1>1. <<>> \in Seq(Sectors)
  OBVIOUS
<1> QED BY <1>1 DEF IdeIdle, IdePcs, NoMedia, MediaInfos

LEMMA DevicesTyped ==
    ASSUME ideDevice \in IdeDevices
    PROVE  ideDevice \in [type : {"ATA", "ATAPI"}, wide : BOOLEAN, udma : BOOLEAN,
                          cdrom : BOOLEAN]
  BY IdeAssumption

LEMMA IdeInitOK == IdeInit => IdeInv
<1> SUFFICES ASSUME IdeInit PROVE IdeInv
  OBVIOUS
<1>1. ideLeft \in [calls : Nat, changes : Nat, faults : Nat]
  BY IdeAssumption DEF IdeInit
<1>2. \A disk \in DiskNames : ideData[disk] \in [0 .. LastOf(disk) -> Nat]
  BY LastIsNat DEF IdeInit, DiskNames
<1>3. idePc \in IdePcs /\ idePc.done = <<>> /\ idePc.at = "detect"
  BY IdleIsTyped DEF IdeInit, IdePcs, Setup
<1>4. IdeTypes
  BY <1>1, <1>2, <1>3 DEF IdeTypes, IdeInit, DiskNames, Undiscovered, NoMedia, MediaInfos, Clean,
     DevTypes
<1>5. ideDevice.type \in {"ATA", "ATAPI"}
  BY IdeAssumption DEF IdeInit
<1>6. DeviceOK
  BY <1>3, <1>5, IdeAssumption DEF DeviceOK, IdeInit, DiskNames, Undiscovered, Setup, UdmaSteps,
     Detecting, HardDisks, Clean
<1>7. PcOK
  BY <1>3 DEF PcOK, IdeInit, IdeIdle, Setup, UdmaSteps, Detecting, Transfer
<1>8. MovedOK
  BY <1>3 DEF MovedOK
<1>9. DmaOK
  BY DEF DmaOK, IdeInit, IdeIdle
<1>10. ToldOK
  BY <1>3 DEF ToldOK, IdeInit, Undiscovered, NoMedia, Setup, Detecting, Transfer,
     UdmaSteps
<1> QED BY <1>4, <1>6, <1>7, <1>8, <1>9, <1>10 DEF IdeInv, IdeInit

-----------------------------------------------------------------------------
(* The user changes the disk. *)

LEMMA IdeChangeOK ==
    ASSUME IdeInv, NEW disk \in DiskNames \cup {IdeNoDisk}, IdeChange(disk)
    PROVE  IdeInv'
<1> USE DEF IdeInv
<1>1. IdeTypes'
  BY DEF IdeTypes, IdeChange
<1>2. ideDevice.type = "ATAPI" /\ ideDev.type \notin HardDisks
  BY DEF IdeChange, DeviceOK
<1>3. DeviceOK'
  BY <1>2 DEF DeviceOK, IdeChange
<1>4. PcOK'
  BY <1>2 DEF PcOK, IdeChange, MovedNow, SectorCount
<1>5. MovedOK'
<2>1. UNCHANGED <<idePc, ideData, ideLatch, ideLeft.calls>>
  BY DEF IdeChange, IdeTypes
<2> QED BY <2>1 DEF MovedOK, Version
<1>6. DmaOK'
  BY DEF DmaOK, IdeChange
<1>7. ToldOK'
  BY DEF ToldOK, Unasked, IdeChange
<1> QED BY <1>1, <1>3, <1>4, <1>5, <1>6, <1>7 DEF IdeChange

-----------------------------------------------------------------------------
(* A device is found. *)

LEMMA DetectOK ==
    ASSUME IdeInv, DetectIDEController
    PROVE  IdeInv'
<1> USE DEF IdeInv
<1>0. /\ idePc \in IdePcs /\ idePc' \in IdePcs /\ idePc' = [idePc EXCEPT !.at = idePc'.at, !.op = idePc'.op]
      /\ idePc'.at \in {"discover", "gone"} /\ idePc.at \in Setup
  BY DEF DetectIDEController, IdeTypes, IdePcs, IdeGoes, Setup
<1>1. ideLeft' \in [calls : Nat, changes : Nat, faults : Nat]
  BY DEF DetectIDEController, IdeTypes, IdeFault, IdeFine
<1>2. IdeTypes'
  BY <1>0, <1>1 DEF IdeTypes, DetectIDEController, ideHw, ideHist
<1>3. DeviceOK'
<2>1. idePc'.at \notin {"check"} \cup UdmaSteps \cup Detecting \cup {"sectors", "verify"}
  BY <1>0 DEF Setup, UdmaSteps, Detecting
<2>2. idePc.at \notin {"sectors", "verify"}
  BY DEF DetectIDEController
<2> QED BY <1>0, <2>1, <2>2 DEF DeviceOK, DetectIDEController, ideHw, ideHist
<1>4. PcOK'
  BY <1>0 DEF PcOK, IdePcs, Setup, UdmaSteps, Detecting, Transfer
<1>5. MovedOK'
<2>1. idePc'.done = <<>>
  BY <1>0 DEF PcOK, IdePcs
<2> QED BY <2>1 DEF MovedOK
<1>6. DmaOK'
  BY <1>0 DEF DmaOK, DetectIDEController, Setup
<1>7. ToldOK'
  BY <1>0 DEF ToldOK, DetectIDEController, Setup, Detecting, Transfer,
     UdmaSteps, ideHw, ideHist
<1> QED BY <1>2, <1>3, <1>4, <1>5, <1>6, <1>7 DEF DetectIDEController, ideHist

LEMMA DiscoverOK ==
    ASSUME IdeInv, DiscoverIdeDevice
    PROVE  IdeInv'
<1> USE DEF IdeInv
<1>0. /\ idePc \in IdePcs /\ idePc' \in IdePcs /\ idePc' = [idePc EXCEPT !.at = idePc'.at]
      /\ idePc.at = "discover" /\ idePc'.at \in {"mode", "gone"}
  BY DEF DiscoverIdeDevice, IdeTypes, IdePcs, IdeGoes, Setup
<1>1. ideLeft' \in [calls : Nat, changes : Nat, faults : Nat]
  BY DEF DiscoverIdeDevice, IdeTypes, IdeFault, IdeFine, Identifies
<1>2. \/ /\ ideDevice.type = "ATA" /\ ideDev' = ATAIdentify
      \/ /\ ideDevice.type = "ATAPI" /\ ideDev' = ATAPIIdentify
      \/ /\ ideDev' = ideDev /\ idePc'.at = "gone"
  BY <1>0 DEF DiscoverIdeDevice, Identifies, IdeGoes, IdePcs
<1>3. ideDisk \in DiskNames \cup {IdeNoDisk} /\ LastOf(ideDisk) \in Nat
  BY LastIsNat DEF IdeTypes
<1>4. /\ ATAIdentify \in [type : DevTypes, udma : BOOLEAN, media : MediaInfos]
      /\ ATAIdentify.type \in HardDisks /\ ATAIdentify.media.last = LastOf(ideDisk)
      /\ ATAIdentify.media.id = 1
  BY <1>3 DEF ATAIdentify, AtaAtapi6Identify, DevTypes, HardDisks, MediaInfos
<1>5. ideDevice.cdrom \in BOOLEAN
  BY DevicesTyped DEF IdeTypes
<1>6. /\ ATAPIIdentify \in [type : DevTypes, udma : BOOLEAN, media : MediaInfos]
      /\ ATAPIIdentify.type \notin HardDisks /\ ~ATAPIIdentify.media.present
      /\ ATAPIIdentify.media.id = 0
  BY <1>5 DEF ATAPIIdentify, NoMedia, DevTypes, HardDisks, MediaInfos
<1>7. ideDev' \in [type : DevTypes, udma : BOOLEAN, media : MediaInfos]
  BY <1>2, <1>4, <1>6 DEF IdeTypes
<1>8. IdeTypes'
  BY <1>0, <1>1, <1>7 DEF IdeTypes, DiscoverIdeDevice, ideHw, ideHist
<1>9. DeviceOK'
<2>1. idePc'.at \notin {"check"} \cup UdmaSteps \cup Detecting \cup {"sectors", "verify"}
  BY <1>0 DEF UdmaSteps, Detecting
<2>2. ideDev'.type \in HardDisks =>
          ideDevice.type = "ATA" /\ ideDev'.media.last = LastOf(ideDisk)
  BY <1>2, <1>4, <1>6 DEF DeviceOK
<2>3. idePc'.at = "mode" => (ideDev'.type \in HardDisks <=> ideDevice.type = "ATA")
  BY <1>0, <1>2, <1>4, <1>6
<2>4. ~ideLatch.fault
  BY <1>0 DEF DiscoverIdeDevice, DeviceOK, Setup
<2> QED BY <1>0, <2>1, <2>2, <2>3, <2>4 DEF DeviceOK, DiscoverIdeDevice, ideHw, ideHist
<1>10. PcOK'
  BY <1>0 DEF PcOK, IdePcs, Setup, UdmaSteps, Detecting, Transfer
<1>11. MovedOK'
  BY <1>0 DEF MovedOK, PcOK, IdePcs, Setup
<1>12. DmaOK'
  BY <1>0 DEF DmaOK, DiscoverIdeDevice
<1>13. ToldOK'
<2>1. ideSeen' = 0 /\ ideDev'.media.id \in Nat
  BY <1>0, <1>7 DEF ToldOK, DiscoverIdeDevice, MediaInfos
<2>2. idePc'.at = "mode" /\ ideDev'.type \notin HardDisks => ~ideDev'.media.present
  BY <1>0, <1>2, <1>4, <1>6
<2> QED
  BY <1>0, <2>1, <2>2 DEF ToldOK, DiscoverIdeDevice, Setup, Detecting, Transfer,
     UdmaSteps, ideHw, ideHist
<1> QED BY <1>8, <1>9, <1>10, <1>11, <1>12, <1>13 DEF DiscoverIdeDevice, ideHist

LEMMA SetModeOK ==
    ASSUME IdeInv, SetDeviceTransferMode
    PROVE  IdeInv'
<1> USE DEF IdeInv
<1>0. /\ idePc \in IdePcs /\ idePc.at = "mode"
      /\ \/ idePc' = IdeIdle
         \/ idePc' = [idePc EXCEPT !.at = "gone"] /\ ideDev' = ideDev /\ ideSeen' = ideSeen
  BY DEF SetDeviceTransferMode, IdeTypes, IdeGoes
<1>1. idePc' \in IdePcs /\ idePc'.at \in {"idle", "gone"} /\ idePc'.done = <<>>
  BY <1>0, IdleIsTyped DEF IdePcs, Setup, PcOK
<1>2. ideLeft' \in [calls : Nat, changes : Nat, faults : Nat]
  BY DEF SetDeviceTransferMode, AtaNonDataCommandIn, IdeTypes, IdeFault, IdeFine
<1>3. ideDevice.udma \in BOOLEAN
  BY DevicesTyped DEF IdeTypes
<1>4. /\ ideDev' \in [type : DevTypes, udma : BOOLEAN, media : MediaInfos]
      /\ ideDev'.type = ideDev.type /\ ideDev'.media = ideDev.media
  BY <1>3 DEF SetDeviceTransferMode, IdeTypes
<1>5. ideSeen' \in Nat /\ ideSeen' <= ideDev'.media.id /\ ideDev'.media.id \in Nat
  BY <1>4 DEF SetDeviceTransferMode, IdeTypes, MediaInfos, ToldOK
<1>6. IdeTypes'
  BY <1>1, <1>2, <1>4, <1>5 DEF IdeTypes, SetDeviceTransferMode, ideHw, ideHist
<1>7. DeviceOK'
<2>1. ~ideLatch.fault
  BY <1>0 DEF DeviceOK, Setup
<2>2. idePc'.at # "gone" => (ideDev.type \in HardDisks <=> ideDevice.type = "ATA")
  BY <1>0, <1>1 DEF DeviceOK, SetDeviceTransferMode
<2> QED BY <1>1, <1>4, <2>1, <2>2
       DEF DeviceOK, SetDeviceTransferMode, ideHw, ideHist, Setup, UdmaSteps, Detecting
<1>8. PcOK'
<2>1. CASE idePc' = IdeIdle
  BY <2>1 DEF PcOK, IdeIdle, Setup, UdmaSteps, Detecting, Transfer
<2>2. CASE idePc' = [idePc EXCEPT !.at = "gone"]
  BY <1>0, <2>2 DEF PcOK, IdePcs, Setup, UdmaSteps, Detecting, Transfer
<2> QED BY <1>0, <2>1, <2>2
<1>9. MovedOK'
  BY <1>1 DEF MovedOK
<1>10. DmaOK'
  BY <1>0, <1>1 DEF DmaOK, SetDeviceTransferMode
<1>11. ToldOK'
<2>1. idePc'.at = "idle" /\ Unasked' => ~ideDev'.media.present
  BY <1>0, <1>1, <1>4 DEF ToldOK, DeviceOK, Unasked, SetDeviceTransferMode, ideHw, ideHist, Setup
<2> QED BY <1>1, <1>5, <2>1 DEF ToldOK, Setup, Detecting, Transfer, UdmaSteps
<1> QED BY <1>6, <1>7, <1>8, <1>9, <1>10, <1>11 DEF SetDeviceTransferMode, ideHist

-----------------------------------------------------------------------------
(* The end of a call. *)

DevInfos == [type : DevTypes, udma : BOOLEAN, media : MediaInfos]

LEMMA ReturnsOK ==
    ASSUME IdeInv, NEW status, NEW reset \in BOOLEAN, IdeReturns(status, reset),
           UNCHANGED <<ideDevice, ideDisk, ideSense, ideData>>,
           ideDev' \in DevInfos, ideDev'.type = ideDev.type,
           ideDev.type \in HardDisks => ideDev' = ideDev /\ (reset \/ ~ideLatch.fault),
           ideLeft' \in [calls : Nat, changes : Nat, faults : Nat],
           ideDma' = [mapped |-> FALSE, running |-> FALSE], ideWrong' = FALSE,
           idePc.at \notin Setup,
           \/ status \in {"EFI_MEDIA_CHANGED", "EFI_NO_MEDIA"} /\ ideDev.type \notin HardDisks
           \/ /\ ideSeen <= ideDev'.media.id
              /\ Unasked => ideDev'.media.id > ideSeen \/ ~ideDev'.media.present
    PROVE  IdeInv'
<1> USE DEF IdeInv
<1>1. idePc' = IdeIdle /\ idePc' \in IdePcs /\ idePc'.done = <<>> /\ idePc'.at = "idle"
  BY IdleIsTyped DEF IdeReturns
<1>2. ideLatch' \in {ideLatch, Clean} /\ (reset => ideLatch' = Clean)
  BY DEF IdeReturns
<1>3. ideDev'.media.id \in Nat
  BY DEF DevInfos, MediaInfos
<1>4. ideSeen' \in Nat /\ ideSeen' \in {ideSeen, ideDev'.media.id}
  BY <1>3 DEF IdeReturns, IdeTypes
<1>5. ideUntold' \in BOOLEAN /\ (ideUntold' => ideUntold \/ ideSense)
  BY DEF IdeReturns, IdeTypes
<1>6. IdeTypes'
<2>1. ideLatch' \in [stale : BOOLEAN, fault : BOOLEAN]
<3>1. Clean \in [stale : BOOLEAN, fault : BOOLEAN]
  BY DEF Clean
<3>2. ideLatch \in [stale : BOOLEAN, fault : BOOLEAN]
  BY DEF IdeTypes
<3> QED BY <1>2, <3>1, <3>2
<2>2. ideDev' \in [type : DevTypes, udma : BOOLEAN, media : MediaInfos]
  BY DEF DevInfos
<2>3. ideDma' \in [mapped : BOOLEAN, running : BOOLEAN] /\ ideWrong' \in BOOLEAN
  OBVIOUS
<2> QED BY <1>1, <1>4, <1>5, <2>1, <2>2, <2>3 DEF IdeTypes
<1>7. DeviceOK'
<2>1. ideDev.type \in HardDisks => ~ideLatch'.fault
  BY <1>2 DEF Clean
<2>2. ideDevice.type = "ATA" => ~ideUntold'
  BY <1>5 DEF DeviceOK
<2> QED BY <1>1, <2>1, <2>2 DEF DeviceOK, Setup, UdmaSteps, Detecting
<1>8. PcOK'
  BY <1>1 DEF PcOK, IdeIdle, Setup, UdmaSteps, Detecting, Transfer
<1>9. MovedOK'
  BY <1>1 DEF MovedOK
<1>10. DmaOK'
  BY <1>1 DEF DmaOK
<1>11. ToldOK'
<2>1. CASE status \in {"EFI_MEDIA_CHANGED", "EFI_NO_MEDIA"}
<3>1. ideSeen' = ideDev'.media.id /\ ideUntold' = ideSense
  BY <2>1 DEF IdeReturns
<3>2. ~Unasked'
  BY <3>1 DEF Unasked
<3> QED BY <1>1, <1>3, <3>1, <3>2 DEF ToldOK, Setup, Detecting, Transfer, UdmaSteps
<2>2. CASE status \notin {"EFI_MEDIA_CHANGED", "EFI_NO_MEDIA"}
<3>1. ideSeen' = ideSeen /\ ideUntold' = ideUntold
  BY <2>2 DEF IdeReturns
<3>2. Unasked' <=> Unasked
  BY <3>1 DEF Unasked
<3> QED BY <1>1, <2>2, <3>1, <3>2 DEF ToldOK, Setup, Detecting, Transfer, UdmaSteps
<2> QED BY <2>1, <2>2
<1> QED BY <1>6, <1>7, <1>8, <1>9, <1>10, <1>11

(* A failure of a transfer; it is not told that the disk was changed. *)
LEMMA FailedOK ==
    ASSUME IdeInv, Failed, idePc.at \in Transfer,
           UNCHANGED <<ideDevice, ideDisk, ideSense, ideData, ideDev, ideWrong>>,
           ideLeft' \in [calls : Nat, changes : Nat, faults : Nat],
           ideDma' = [mapped |-> FALSE, running |-> FALSE]
    PROVE  IdeInv'
<1>1. IdeReturns("EFI_DEVICE_ERROR", ideDev.type \in HardDisks)
  BY DEF Failed
<1>2. idePc.at \notin Setup /\ ~Unasked
  BY DEF IdeInv, ToldOK, Transfer, Setup, Detecting, UdmaSteps
<1>3. ideDev' \in DevInfos /\ ideSeen <= ideDev'.media.id
  BY DEF IdeInv, IdeTypes, ToldOK, DevInfos
<1>4. (ideDev.type \in HardDisks) \in BOOLEAN /\ ideWrong' = FALSE
  BY DEF IdeInv, IdeTypes
<1> QED BY <1>1, <1>2, <1>3, <1>4, ReturnsOK

LEMMA LeftOK ==
    ASSUME IdeInv, IdeFine \/ IdeFault
    PROVE  ideLeft' \in [calls : Nat, changes : Nat, faults : Nat] /\ ideLeft'.calls = ideLeft.calls
  BY DEF IdeInv, IdeTypes, IdeFine, IdeFault

-----------------------------------------------------------------------------
(* A call begins. *)

LEMMA IdeCallOK ==
    ASSUME IdeInv, NEW c \in IdeCalls, IdeCall(c)
    PROVE  IdeInv'
<1> USE DEF IdeInv
<1>1. c \in [op : {"read", "write"}, lba : Nat, blocks : Nat \ {0}]
  BY IdeAssumption
<1>2. ideDev.media \in MediaInfos /\ ideDev.media.id \in Nat /\ ideSeen \in Nat
  BY DEF IdeTypes, MediaInfos
<1>3. idePc.at = "idle" /\ idePc = IdeIdle
  BY DEF IdeCall, PcOK
<1>4. /\ idePc' = [IdeIdle EXCEPT !.op = c.op, !.lba = c.lba, !.blocks = c.blocks, !.id = ideSeen,
                     !.want = c.lba, !.left = c.blocks,
                     !.old = ideDev.media, !.tries = IdeRetries,
                     !.at = IF ideDev.type \in HardDisks THEN "check" ELSE "TUR"]
  BY DEF IdeCall
<1>5. /\ idePc' \in IdePcs /\ idePc'.done = <<>> /\ idePc'.sent = 0
      /\ ~idePc'.late /\ ~idePc'.error /\ idePc'.lba = idePc'.want /\ idePc'.left = idePc'.blocks
      /\ idePc'.blocks \in Nat \ {0} /\ idePc'.op \in {"read", "write"}
      /\ idePc'.id = ideSeen /\ idePc'.old = ideDev.media
      /\ idePc'.at = IF ideDev.type \in HardDisks THEN "check" ELSE "TUR"
<2>1. <<>> \in Seq(Sectors)
  OBVIOUS
<2>2. /\ idePc'.done = <<>> /\ idePc'.sent = 0 /\ idePc'.late = FALSE /\ idePc'.error = FALSE
      /\ idePc'.lba = c.lba /\ idePc'.want = c.lba /\ idePc'.left = c.blocks
      /\ idePc'.blocks = c.blocks /\ idePc'.op = c.op
      /\ idePc'.id = ideSeen /\ idePc'.old = ideDev.media /\ idePc'.tries = IdeRetries
      /\ idePc'.at = IF ideDev.type \in HardDisks THEN "check" ELSE "TUR"
  BY <1>4 DEF IdeIdle
<2>3. idePc' = [at |-> idePc'.at, op |-> idePc'.op, lba |-> idePc'.lba, blocks |-> idePc'.blocks,
                id |-> idePc'.id, old |-> idePc'.old, tries |-> idePc'.tries,
                want |-> idePc'.want, left |-> idePc'.left, sent |-> idePc'.sent,
                done |-> idePc'.done, late |-> idePc'.late, error |-> idePc'.error]
  BY <1>4 DEF IdeIdle
<2>4. idePc'.at \in {"check", "TUR"}
  BY <2>2
<2>5. idePc' \in IdePcs
<3>1. /\ idePc'.lba \in Nat /\ idePc'.want \in Nat /\ idePc'.left \in Nat
      /\ idePc'.blocks \in Nat /\ idePc'.op \in {"none", "read", "write", "ATA", "ATAPI"}
  BY <1>1, <2>2
<3>2. idePc'.id \in Nat /\ idePc'.old \in MediaInfos /\ idePc'.sent \in Nat
  BY <1>2, <2>2
<3>4. idePc'.tries \in Int
  BY <2>2, IdeSizes
<3>5. idePc'.late \in BOOLEAN /\ idePc'.error \in BOOLEAN
  BY <2>2
<3>6. idePc'.done \in Seq(Sectors)
  BY <2>1, <2>2
<3>3. idePc'.at \in {"idle", "check"} \cup Setup \cup Detecting \cup Transfer
  BY <2>4 DEF Detecting
<3> QED BY <2>3, <3>1, <3>2, <3>3, <3>4, <3>5, <3>6 DEF IdePcs
<2> QED BY <1>1, <2>2, <2>5
<1>6. ideLeft' \in [calls : Nat, changes : Nat, faults : Nat]
  BY DEF IdeCall, IdeTypes
<1>7. IdeTypes'
  BY <1>5, <1>6 DEF IdeTypes, IdeCall, ideHw, ideHist
<1>8. DeviceOK'
<2>1. ideDev.type \in HardDisks <=> ideDevice.type = "ATA"
  BY <1>3 DEF DeviceOK
<2>2. ideDev.type \in HardDisks => ~ideLatch.fault
  BY <1>3 DEF DeviceOK
<2> QED BY <1>5, <2>1, <2>2 DEF DeviceOK, IdeCall, ideHw, ideHist, Setup, UdmaSteps, Detecting
<1>9. PcOK'
  BY <1>5 DEF PcOK, Setup, UdmaSteps, Detecting, Transfer
<1>10. MovedOK'
  BY <1>5 DEF MovedOK
<1>11. DmaOK'
  BY <1>3, <1>5 DEF DmaOK, IdeCall
<1>12. ToldOK'
<2>1. ideSeen' = ideSeen /\ ideDev' = ideDev /\ (Unasked' <=> Unasked)
  BY DEF IdeCall, ideHw, ideHist, Unasked
<2>2. Unasked => ideDev.media.id > ideSeen \/ ~ideDev.media.present
  BY <1>3 DEF ToldOK, Setup
<2>3. Unasked => ideDev.type \notin HardDisks
  BY DEF DeviceOK, Unasked
<2>4. ideSeen <= ideDev.media.id
  BY DEF ToldOK
<2> QED BY <1>2, <1>5, <2>1, <2>2, <2>3, <2>4 DEF ToldOK, Setup, Detecting, Transfer, UdmaSteps
<1> QED BY <1>7, <1>8, <1>9, <1>10, <1>11, <1>12 DEF IdeCall, ideHist

LEMMA IdeResetOK ==
    ASSUME IdeInv, IDEBlkIoReset \/ ClearInterrupt
    PROVE  IdeInv'
<1> USE DEF IdeInv
<1>1. /\ idePc \in IdePcs /\ idePc.at = "idle" /\ idePc = IdeIdle
      /\ idePc' = [idePc EXCEPT !.at = idePc'.at] /\ idePc'.at \in {"idle", "gone"}
      /\ ideLatch' = Clean
  BY DEF IDEBlkIoReset, ClearInterrupt, PcOK, IdeTypes, IdeGoes, IdePcs, Setup
<1>2. idePc' \in IdePcs /\ idePc'.done = <<>> /\ (idePc'.at = "idle" => idePc' = IdeIdle)
  BY <1>1, IdleIsTyped DEF IdePcs, Setup
<1>3. ideLeft' \in [calls : Nat, changes : Nat, faults : Nat]
  BY DEF IDEBlkIoReset, ClearInterrupt, IdeTypes
<1>4. UNCHANGED <<ideDevice, ideDisk, ideSense, ideData, ideDev, ideDma, ideSeen, ideUntold, ideWrong>>
  BY DEF IDEBlkIoReset, ClearInterrupt, ideHist
<1>5. Clean \in [stale : BOOLEAN, fault : BOOLEAN] /\ ~Clean.fault
  BY DEF Clean
<1>6. IdeTypes'
  BY <1>1, <1>2, <1>3, <1>4, <1>5 DEF IdeTypes
<1>7. DeviceOK'
  BY <1>1, <1>4, <1>5 DEF DeviceOK, Setup, UdmaSteps, Detecting
<1>8. PcOK'
  BY <1>1, <1>2 DEF PcOK, IdeIdle, Setup, UdmaSteps, Detecting, Transfer
<1>9. MovedOK'
  BY <1>2 DEF MovedOK
<1>10. DmaOK'
  BY <1>1, <1>4 DEF DmaOK
<1>11. ToldOK'
  BY <1>1, <1>4 DEF ToldOK, Unasked, Setup, Detecting, Transfer,
     UdmaSteps
<1> QED BY <1>4, <1>6, <1>7, <1>8, <1>9, <1>10, <1>11

(* What changes when only the place in the call does. *)
LEMMA GoesOK ==
    ASSUME idePc \in IdePcs, NEW at, IdeGoes(at),
           at \in {"idle", "check"} \cup Setup \cup Detecting \cup Transfer
    PROVE  /\ idePc' \in IdePcs /\ idePc'.at = at
           /\ UNCHANGED <<idePc.op, idePc.lba, idePc.blocks, idePc.id, idePc.old, idePc.tries,
                          idePc.want, idePc.left, idePc.sent, idePc.done, idePc.late, idePc.error>>
  BY DEF IdeGoes, IdePcs

LEMMA AtaBlkIoOK ==
    ASSUME IdeInv, AtaBlkIo
    PROVE  IdeInv'
<1> USE DEF IdeInv
<1>1. /\ idePc.at = "check" /\ ideDev.type \in HardDisks /\ idePc \in IdePcs
      /\ ~ideLatch.fault /\ ideDevice.type = "ATA"
  BY DEF AtaBlkIo, DeviceOK, IdeTypes, UdmaSteps
<1>2. UNCHANGED <<ideDevice, ideDisk, ideSense, ideData, ideDev, ideDma, ideLeft, ideWrong>>
  BY DEF AtaBlkIo
<1>3. ideDma = [mapped |-> FALSE, running |-> FALSE]
  BY <1>1 DEF DmaOK, IdeTypes
<1>4. CASE idePc.id = ideDev.media.id /\ InRange(ideDev.media)
<2>1. /\ idePc' \in IdePcs /\ idePc'.at \in {"map", "command"}
      /\ UNCHANGED <<idePc.op, idePc.lba, idePc.blocks, idePc.want, idePc.left, idePc.sent,
                     idePc.done, idePc.late, idePc.error>>
<3>1. IdeGoes(IF ideDev.udma THEN "map" ELSE "command")
  BY <1>4 DEF AtaBlkIo
<3> QED BY <1>1, <3>1, GoesOK DEF Transfer, UdmaSteps
<2>2. UNCHANGED <<ideSeen, ideUntold, ideLatch>>
  BY <1>4 DEF AtaBlkIo, Stays
<2>3. IdeTypes'
  BY <1>2, <2>1, <2>2 DEF IdeTypes
<2>4. DeviceOK'
  BY <1>1, <1>2, <2>1, <2>2 DEF DeviceOK, Setup, UdmaSteps, Detecting
<2>5. idePc.lba + idePc.blocks - 1 <= LastOf(ideDisk)
  BY <1>1, <1>4 DEF InRange, DeviceOK
<2>6. PcOK'
<3>1. /\ idePc.done = <<>> /\ idePc.sent = 0 /\ ~idePc.late /\ ~idePc.error
      /\ idePc.lba = idePc.want /\ idePc.left = idePc.blocks
      /\ idePc.op \in {"read", "write"} /\ idePc.left \in 1 .. idePc.blocks
  BY <1>1 DEF PcOK
<3>2. idePc.lba \in Nat /\ idePc.blocks \in Nat
  BY <1>1 DEF IdePcs
<3>3. SectorCount' \in 1 .. idePc'.left
  BY <2>1, <3>1, CommandSize DEF SectorCount
<3> QED BY <1>2, <2>1, <2>5, <3>1, <3>2, <3>3 DEF PcOK, MovedNow, Setup, UdmaSteps, Detecting, Transfer
<2>7. MovedOK'
  BY <1>1, <2>1 DEF MovedOK, PcOK
<2>8. DmaOK'
  BY <1>1, <1>2, <2>1 DEF DmaOK
<2>9. ToldOK'
  BY <1>1, <1>2, <2>1, <2>2 DEF ToldOK, Unasked, DeviceOK, Setup, Detecting, Transfer,
     UdmaSteps
<2> QED BY <1>2, <2>3, <2>4, <2>6, <2>7, <2>8, <2>9
<1>5. CASE ~(idePc.id = ideDev.media.id /\ InRange(ideDev.media))
<2>1. IdeReturns("EFI_INVALID_PARAMETER", FALSE)
  BY <1>5 DEF AtaBlkIo
<2>2. ideDev' \in DevInfos /\ ideSeen <= ideDev'.media.id /\ ~Unasked /\ idePc.at \notin Setup
  BY <1>1, <1>2 DEF IdeTypes, DevInfos, ToldOK, Unasked, DeviceOK, Setup
<2>3. ideWrong' = FALSE /\ ideLeft' \in [calls : Nat, changes : Nat, faults : Nat]
  BY <1>2 DEF IdeTypes
<2> QED BY <1>1, <1>2, <1>3, <2>1, <2>2, <2>3, ReturnsOK
<1> QED BY <1>4, <1>5

-----------------------------------------------------------------------------
(* A medium is asked for.  An answer that takes the unit attention away    *)
(* counts the MediaId on; the medium appears only in the last step.        *)

Asks == /\ idePc' = [idePc EXCEPT !.tries = idePc'.tries, !.at = idePc'.at]
        /\ idePc'.tries \in Int /\ idePc'.at \in Detecting
Answers == ideDev' = [ideDev EXCEPT !.media = ideDev'.media] /\ ideDev'.media \in MediaInfos
SenseKept == /\ ideSense' \in {ideSense, FALSE}
             /\ \/ ideDev'.media.id > ideDev.media.id
                \/ ideDev'.media.id = ideDev.media.id /\ ideSense' = ideSense

LEMMA AskingOK ==
    ASSUME IdeInv, idePc.at \in {"TUR", "RC"}, Asks, Answers, SenseKept,
           UNCHANGED <<ideDevice, ideDisk, ideData, ideDma, ideSeen, ideUntold, ideWrong>>,
           ideLatch' \in [stale : BOOLEAN, fault : BOOLEAN],
           ideLeft' \in [calls : Nat, changes : Nat, faults : Nat],
           idePc'.at = "done" \/ (ideDev'.media.present => ideDev.media.present)
    PROVE  IdeInv'
<1> USE DEF IdeInv
<1>1. idePc \in IdePcs /\ ideDev \in DevInfos
  BY DEF IdeTypes, DevInfos
<1>2. /\ idePc' \in IdePcs /\ idePc'.at \in Detecting
      /\ UNCHANGED <<idePc.op, idePc.lba, idePc.blocks, idePc.id, idePc.old,
                     idePc.want, idePc.left, idePc.sent, idePc.done, idePc.late, idePc.error>>
  BY <1>1 DEF IdePcs, Asks
<1>3. ideDev' \in DevInfos /\ ideDev'.type = ideDev.type
  BY <1>1 DEF DevInfos, Answers
<1>4. /\ ideDev'.media.id \in Nat /\ ideDev.media.id \in Nat /\ ideSeen \in Nat
      /\ idePc.old.id \in Nat
  BY <1>1, <1>3 DEF DevInfos, MediaInfos, IdeTypes, IdePcs
<1>5. ideSense' \in BOOLEAN /\ (ideSense' => ideSense)
<2>1. ideSense \in BOOLEAN
  BY DEF IdeTypes
<2>2. CASE ideSense' = ideSense
  BY <2>1, <2>2
<2>3. CASE ideSense' = FALSE
  BY <2>3
<2> QED BY <2>2, <2>3 DEF SenseKept
<1>6. IdeTypes'
  BY <1>2, <1>3, <1>5 DEF IdeTypes, DevInfos
<1>7. DeviceOK'
  BY <1>2, <1>3, <1>5 DEF DeviceOK, Detecting, Setup, UdmaSteps
<1>8. PcOK'
  BY <1>2 DEF PcOK, Detecting, Setup, UdmaSteps, Transfer
<1>9. MovedOK'
  BY <1>2 DEF MovedOK, PcOK, Detecting
<1>10. DmaOK'
  BY <1>2 DEF DmaOK, Detecting
<1>11. ToldOK'
<2>1. /\ ideSeen <= ideDev.media.id /\ idePc.id = ideSeen /\ ideSeen <= idePc.old.id
      /\ idePc.old.id <= ideDev.media.id /\ (idePc.old.present \/ ~ideDev.media.present)
  BY DEF ToldOK, Detecting
<2>2. Unasked' => ideDev'.media.id > ideSeen \/ ~idePc.old.present
<3>1. CASE Unasked
  BY <1>4, <3>1 DEF ToldOK, Detecting, SenseKept
<3>2. CASE ~Unasked /\ Unasked'
<4>1. ideSense /\ ~ideSense'
  BY <3>2 DEF Unasked
<4>2. ideDev'.media.id > ideDev.media.id
  BY <4>1 DEF SenseKept
<4> QED BY <1>4, <2>1, <4>2
<3> QED BY <3>1, <3>2
<2>3. ideDev'.media.id >= ideDev.media.id
  BY <1>4 DEF SenseKept
<2>4. idePc'.at # "done" => idePc.old.present \/ ~ideDev'.media.present
  BY <2>1
<2> QED BY <1>2, <1>4, <2>1, <2>2, <2>3, <2>4 DEF ToldOK, Detecting, Setup, Transfer, UdmaSteps
<1> QED BY <1>6, <1>7, <1>8, <1>9, <1>10, <1>11

LEMMA TriesOK ==
    ASSUME idePc \in IdePcs, NEW n \in Int, NEW at \in {"TUR", "RC"}, Tries(n, at)
    PROVE  Asks /\ idePc'.at # "done"
<1>1. idePc' = [idePc EXCEPT !.tries = n, !.at = IF n = 0 THEN "fails" ELSE at]
  BY DEF Tries
<1>2. idePc'.tries = n /\ idePc'.at = IF n = 0 THEN "fails" ELSE at
  BY <1>1 DEF IdePcs
<1> QED BY <1>1, <1>2 DEF Asks, Detecting

LEMMA StaysAsking ==
    ASSUME idePc \in IdePcs
    PROVE  /\ UNCHANGED idePc /\ idePc.at \in Detecting => Asks
           /\ \A at \in Detecting : IdeGoes(at) => Asks /\ idePc'.at = at
<1>1. UNCHANGED idePc /\ idePc.at \in Detecting => Asks
  BY DEF IdePcs, Asks
<1>2. ASSUME NEW at \in Detecting, IdeGoes(at)
      PROVE  Asks /\ idePc'.at = at
<2>1. idePc' = [idePc EXCEPT !.at = at] /\ idePc'.at = at /\ idePc'.tries = idePc.tries
  BY <1>2 DEF IdeGoes, IdePcs
<2> QED BY <2>1 DEF Asks, IdePcs
<1> QED BY <1>1, <1>2

(* What becomes of Media. *)
NoMediumNow == [ideDev.media EXCEPT !.present = FALSE, !.last = 0]
MediumNow == [ideDev.media EXCEPT !.present = TRUE, !.last = LastOf(ideDisk)]
LEMMA MediaOK ==
    ASSUME ideDev \in DevInfos, LastOf(ideDisk) \in Nat
    PROVE  /\ UNCHANGED ideDev => Answers
           /\ Media(NoMediumNow) => Answers /\ ideDev'.media.id = ideDev.media.id
                                    /\ ~ideDev'.media.present
           /\ Media(MediumNow) => Answers /\ ideDev'.media.id = ideDev.media.id
           /\ Media(Changed(ideDev.media)) =>
                 /\ Answers /\ ideDev'.media.id = ideDev.media.id + 1
                 /\ ideDev'.media.present = ideDev.media.present
           /\ ideDev.media.id \in Nat
<1>1. ideDev.media \in MediaInfos /\ ideDev.media.id \in Nat
  BY DEF DevInfos, MediaInfos
<1>2. UNCHANGED ideDev => Answers
  BY <1>1 DEF DevInfos, Answers
<1>3. ASSUME NEW media \in MediaInfos, Media(media)
      PROVE  Answers /\ ideDev'.media = media
<2>1. ideDev' = [ideDev EXCEPT !.media = media] /\ ideDev'.media = media
  BY <1>3 DEF Media, DevInfos
<2> QED BY <2>1 DEF Answers
<1>4. NoMediumNow \in MediaInfos /\ NoMediumNow.id = ideDev.media.id /\ ~NoMediumNow.present
  BY <1>1 DEF NoMediumNow, MediaInfos
<1>5. MediumNow \in MediaInfos /\ MediumNow.id = ideDev.media.id
  BY <1>1 DEF MediumNow, MediaInfos
<1>6. /\ Changed(ideDev.media) \in MediaInfos
      /\ Changed(ideDev.media).id = ideDev.media.id + 1
      /\ Changed(ideDev.media).present = ideDev.media.present
  BY <1>1 DEF Changed, MediaInfos
<1> QED BY <1>1, <1>2, <1>3, <1>4, <1>5, <1>6

LEMMA TestUnitReadyOK ==
    ASSUME IdeInv, AtapiTestUnitReady
    PROVE  IdeInv'
<1>1. /\ idePc.at = "TUR" /\ idePc \in IdePcs /\ ideDev \in DevInfos /\ idePc.tries - 1 \in Int
      /\ idePc.at \in Detecting
  BY DEF IdeInv, AtapiTestUnitReady, IdeTypes, IdePcs, DevInfos, Detecting
<1>2. UNCHANGED <<ideDevice, ideDisk, ideData, ideDma, ideSeen, ideUntold, ideWrong>>
  BY DEF AtapiTestUnitReady, ideHist
<1>3. ideLatch' \in [stale : BOOLEAN, fault : BOOLEAN]
  BY DEF IdeInv, AtapiTestUnitReady, IdeTypes
<1>4. ideLeft' \in [calls : Nat, changes : Nat, faults : Nat]
<2>1. IdeFine \/ IdeFault
  BY DEF AtapiTestUnitReady
<2> QED BY <2>1, LeftOK
<1>5. LastOf(ideDisk) \in Nat
  BY LastIsNat DEF IdeInv, IdeTypes
<1>6. CASE UNCHANGED <<ideSense, ideDev>>
<2>1. Asks
  BY <1>1, <1>6, IdeSizes, TriesOK, StaysAsking DEF AtapiTestUnitReady, Detecting
<2>2. Answers /\ SenseKept
  BY <1>1, <1>5, <1>6, MediaOK DEF SenseKept
<2> QED BY <1>1, <1>2, <1>3, <1>4, <1>6, <2>1, <2>2, AskingOK
<1>7. CASE ~UNCHANGED <<ideSense, ideDev>>
<2>1. \/ /\ ~ideSense /\ ~ideSense' /\ UNCHANGED ideDev
         /\ IdeGoes("done") \/ Tries(IdeRetries, "RC")
      \/ ~ideSense /\ ~ideSense' /\ Media(NoMediumNow) /\ IdeGoes("done")
      \/ ~ideSense' /\ Media(Changed(ideDev.media)) /\ Tries(IdeRetries, "RC")
  BY <1>7 DEF AtapiTestUnitReady, SenseIsRead, SenseNow, NoMediumNow
<2>2. Asks
  BY <1>1, <2>1, IdeSizes, TriesOK, StaysAsking DEF Detecting
<2>3. Answers /\ (ideDev'.media.present => ideDev.media.present)
  BY <1>1, <1>5, <2>1, MediaOK
<2>4. ideSense' = FALSE
  BY <1>7 DEF AtapiTestUnitReady, SenseIsRead
<2>5. \/ ideDev'.media.id > ideDev.media.id
      \/ ideSense = FALSE /\ ideDev'.media.id = ideDev.media.id
<3>1. ideSense \in BOOLEAN
  BY DEF IdeInv, IdeTypes
<3> QED BY <1>1, <1>5, <2>1, <3>1, MediaOK
<2>6. SenseKept
  BY <2>4, <2>5 DEF SenseKept
<2> QED BY <1>1, <1>2, <1>3, <1>4, <2>2, <2>3, <2>6, AskingOK
<1> QED BY <1>6, <1>7

LEMMA ReadCapacityOK ==
    ASSUME IdeInv, AtapiReadCapacity
    PROVE  IdeInv'
<1>1. /\ idePc.at = "RC" /\ idePc \in IdePcs /\ ideDev \in DevInfos /\ idePc.tries - 1 \in Int
      /\ idePc.at \in Detecting
  BY DEF IdeInv, AtapiReadCapacity, IdeTypes, IdePcs, DevInfos, Detecting
<1>2. UNCHANGED <<ideDevice, ideDisk, ideData, ideDma, ideSeen, ideUntold, ideWrong>>
  BY DEF AtapiReadCapacity, ideHist
<1>3. ideLatch' \in [stale : BOOLEAN, fault : BOOLEAN]
  BY DEF IdeInv, AtapiReadCapacity, IdeTypes
<1>4. ideLeft' \in [calls : Nat, changes : Nat, faults : Nat]
<2>1. IdeFine \/ IdeFault
  BY DEF AtapiReadCapacity
<2> QED BY <2>1, LeftOK
<1>5. LastOf(ideDisk) \in Nat
  BY LastIsNat DEF IdeInv, IdeTypes
<1>6. CASE Tries(idePc.tries - 1, "RC") /\ UNCHANGED <<ideSense, ideDev>>
<2>1. Asks
  BY <1>1, <1>6, TriesOK
<2>2. Answers /\ SenseKept
  BY <1>1, <1>5, <1>6, MediaOK DEF SenseKept
<2> QED BY <1>1, <1>2, <1>3, <1>4, <1>6, <2>1, <2>2, AskingOK
<1>7. CASE ~(Tries(idePc.tries - 1, "RC") /\ UNCHANGED <<ideSense, ideDev>>)
<2>1. \/ ~ideSense /\ Media(NoMediumNow) /\ (Tries(idePc.tries - 1, "RC") \/ IdeGoes("done"))
      \/ ~ideSense /\ Media(MediumNow) /\ IdeGoes("done")
      \/ Media(Changed(ideDev.media)) /\ UNCHANGED idePc
  BY <1>7 DEF AtapiReadCapacity, SenseIsRead, SenseNow, NoMediumNow, MediumNow
<2>2. Asks
  BY <1>1, <2>1, TriesOK, StaysAsking DEF Detecting
<2>3. /\ Answers
      /\ idePc'.at = "done" \/ (ideDev'.media.present => ideDev.media.present)
  BY <1>1, <1>5, <2>1, MediaOK, StaysAsking DEF Detecting
<2>4. ideSense' = FALSE
  BY <1>7 DEF AtapiReadCapacity, SenseIsRead
<2>5. \/ ideDev'.media.id > ideDev.media.id
      \/ ideSense = FALSE /\ ideDev'.media.id = ideDev.media.id
<3>1. ideSense \in BOOLEAN
  BY DEF IdeInv, IdeTypes
<3> QED BY <1>1, <1>5, <2>1, <3>1, MediaOK
<2>6. SenseKept
  BY <2>4, <2>5 DEF SenseKept
<2> QED BY <1>1, <1>2, <1>3, <1>4, <2>2, <2>3, <2>6, AskingOK
<1> QED BY <1>6, <1>7

LEMMA NotReadyOK ==
    ASSUME IdeInv, AtapiNotReady
    PROVE  IdeInv'
<1>1. /\ idePc.at \in {"TUR", "RC"} /\ idePc \in IdePcs /\ ideDev \in DevInfos
      /\ IdeGoes("fails") /\ IdeFault
  BY DEF IdeInv, AtapiNotReady, IdeTypes, DevInfos
<1>2. UNCHANGED <<ideDevice, ideDisk, ideSense, ideLatch, ideData, ideDev, ideDma, ideSeen,
                  ideUntold, ideWrong>>
  BY DEF AtapiNotReady, ideHist, ideHw
<1>3. /\ ideLatch' \in [stale : BOOLEAN, fault : BOOLEAN]
      /\ ideLeft' \in [calls : Nat, changes : Nat, faults : Nat]
  BY <1>1, <1>2, LeftOK DEF IdeInv, IdeTypes
<1>4. Answers /\ SenseKept
<2>1. LastOf(ideDisk) \in Nat
  BY LastIsNat DEF IdeInv, IdeTypes
<2> QED BY <1>1, <1>2, <2>1, MediaOK DEF SenseKept
<1>5. Asks
  BY <1>1, StaysAsking DEF Detecting
<1> QED BY <1>1, <1>2, <1>3, <1>4, <1>5, AskingOK

LEMMA DetectFailsOK ==
    ASSUME IdeInv, AtapiDetectFails
    PROVE  IdeInv'
<1>1. /\ idePc.at = "fails" /\ IdeReturns("EFI_DEVICE_ERROR", FALSE) /\ ideDev.type \notin HardDisks
      /\ idePc.at \notin Setup
  BY DEF IdeInv, AtapiDetectFails, DeviceOK, Detecting, Setup
<1>2. UNCHANGED <<ideDevice, ideDisk, ideSense, ideData, ideDma, ideLeft, ideDev, ideWrong>>
  BY DEF IdeInv, AtapiDetectFails
<1>3. ideDma' = [mapped |-> FALSE, running |-> FALSE]
  BY <1>1, <1>2 DEF IdeInv, DmaOK, IdeTypes
<1>4. /\ ideDev' \in DevInfos /\ ideWrong' = FALSE
      /\ ideLeft' \in [calls : Nat, changes : Nat, faults : Nat]
  BY <1>2 DEF IdeInv, IdeTypes, DevInfos
<1>5. /\ ideSeen <= ideDev'.media.id
      /\ Unasked => ideDev'.media.id > ideSeen \/ ~ideDev'.media.present
  BY <1>1, <1>2 DEF IdeInv, ToldOK, Detecting
<1> QED BY <1>1, <1>2, <1>3, <1>4, <1>5, ReturnsOK

(* What a call is told after its medium was asked for.  Only a medium that *)
(* is as it was leaves the MediaId alone.                                  *)
LEMMA ComparedOK ==
    ASSUME NEW old \in MediaInfos, NEW media \in MediaInfos
    PROVE  /\ Compared(old, media) \in MediaInfos
           /\ Compared(old, media).present = media.present
           /\ ~Differs(old, media) => Compared(old, media).id = media.id
           /\ Compared(old, media).readOnly = media.readOnly
           /\ Compared(old, media).last = media.last
<1> DEFINE D == {f \in {"readOnly", "last"} : media[f] # old[f]}
           n == Cardinality(D)
<1>1. n \in Nat
<2>1. IsFiniteSet({"readOnly"}) /\ IsFiniteSet({"readOnly"} \cup {"last"})
  BY FS_Singleton, FS_AddElement
<2>2. D \subseteq {"readOnly"} \cup {"last"}
  OBVIOUS
<2>3. IsFiniteSet(D)
  BY <2>1, <2>2, FS_Subset
<2> QED BY <2>3, FS_CardinalityType
<1>2. ~Differs(old, media) => n = 0
<2>1. ~Differs(old, media) => D = {}
  BY DEF Differs
<2> QED BY <2>1, FS_EmptySet
<1>3. media.id \in Nat /\ media.id + n \in Nat
  BY <1>1 DEF MediaInfos
<1>4. Compared(old, media) = [media EXCEPT !.id = IF media.present = old.present THEN media.id + n
                                                 ELSE IF media.present THEN 1 ELSE 0]
  BY DEF Compared
<1> HIDE DEF n
<1>5. Compared(old, media) \in MediaInfos
  BY <1>3, <1>4 DEF MediaInfos
<1>6. /\ Compared(old, media).present = media.present
      /\ Compared(old, media).readOnly = media.readOnly
      /\ Compared(old, media).last = media.last
  BY <1>4 DEF MediaInfos
<1>7. ~Differs(old, media) => Compared(old, media).id = media.id
<2>1. ~Differs(old, media) => media.present = old.present
  BY DEF Differs
<2>2. media.present = old.present => Compared(old, media).id = media.id + n
  BY <1>4 DEF MediaInfos
<2> QED BY <1>2, <1>3, <2>1, <2>2
<1> QED BY <1>5, <1>6, <1>7

LEMMA DetectedOK ==
    ASSUME IdeInv, Detected
    PROVE  IdeInv'
<1> USE DEF IdeInv
<1>1. /\ idePc.at = "done" /\ idePc \in IdePcs /\ ideDev \in DevInfos
      /\ ideDev.type \notin HardDisks /\ ideDev.media \in MediaInfos
      /\ idePc.old \in MediaInfos /\ idePc.at \notin Setup
  BY DEF Detected, IdeTypes, DevInfos, IdePcs, DeviceOK, Detecting, Setup
<1>2. UNCHANGED <<ideDevice, ideDisk, ideSense, ideData, ideDma, ideWrong>>
  BY DEF Detected
<1>3. ideDma' = [mapped |-> FALSE, running |-> FALSE] /\ ideWrong' = FALSE
  BY <1>1, <1>2 DEF DmaOK, IdeTypes
<1>4. PICK readOnly \in BOOLEAN :
           LET media == [ideDev.media EXCEPT !.readOnly = readOnly]
               status == IF ~media.present THEN "EFI_NO_MEDIA"
                         ELSE IF \/ idePc.id # Compared(idePc.old, media).id
                                 \/ Differs(idePc.old, media)
                              THEN "EFI_MEDIA_CHANGED"
                         ELSE IF idePc.op = "write" /\ readOnly THEN "EFI_WRITE_PROTECTED"
                         ELSE IF ~InRange(media) THEN "EFI_INVALID_PARAMETER"
                         ELSE "EFI_SUCCESS"
           IN  /\ ReadOnlyNow(readOnly)
               /\ Media(Compared(idePc.old, media))
               /\ IF status = "EFI_SUCCESS"
                  THEN IdeGoes("command") /\ UNCHANGED <<ideSeen, ideUntold, ideLatch>>
                  ELSE IdeReturns(status, FALSE)
  BY DEF Detected
<1> DEFINE media == [ideDev.media EXCEPT !.readOnly = readOnly]
           now == Compared(idePc.old, media)
           same == idePc.id = now.id /\ ~Differs(idePc.old, media)
<1>5. ideLeft' \in [calls : Nat, changes : Nat, faults : Nat]
<2>1. IdeFine \/ IdeFault
  BY <1>4 DEF ReadOnlyNow
<2> QED BY <2>1, LeftOK
<1>6. media \in MediaInfos /\ media.id = ideDev.media.id /\ media.present = ideDev.media.present
  BY <1>1 DEF MediaInfos
<1>7. /\ now \in MediaInfos /\ now.present = media.present
      /\ ~Differs(idePc.old, media) => now.id = media.id
  BY <1>1, <1>6, ComparedOK
<1>8. ideDev' \in DevInfos /\ ideDev'.type = ideDev.type /\ ideDev'.media = now
<2>1. Media(now)
  BY <1>4
<2> HIDE DEF now
<2> QED BY <1>1, <1>7, <2>1 DEF Media, DevInfos
<1>9. \/ IdeGoes("command") /\ UNCHANGED <<ideSeen, ideUntold, ideLatch>> /\ same /\ media.present
      \/ IdeReturns("EFI_NO_MEDIA", FALSE)
      \/ IdeReturns("EFI_MEDIA_CHANGED", FALSE)
      \/ IdeReturns("EFI_WRITE_PROTECTED", FALSE) /\ same /\ media.present
      \/ IdeReturns("EFI_INVALID_PARAMETER", FALSE) /\ same /\ media.present
  BY <1>4
<1>10. same /\ media.present => ideSeen = now.id /\ ~Unasked
<2>1. idePc.id = ideSeen /\ (Unasked => ideDev.media.id > ideSeen \/ ~idePc.old.present)
  BY <1>1 DEF ToldOK, Detecting
<2>2. ideSeen \in Nat /\ ideDev.media.id \in Nat
  BY <1>1 DEF IdeTypes, MediaInfos
<2>3. ~Differs(idePc.old, media) => media.present = idePc.old.present
  BY DEF Differs
<2> QED BY <1>6, <1>7, <2>1, <2>2, <2>3
<1>11. ideSeen \in Nat /\ now.id \in Nat
  BY <1>7 DEF MediaInfos, IdeTypes
<1> HIDE DEF media, now, same
<1>12. CASE \/ IdeReturns("EFI_NO_MEDIA", FALSE)
            \/ IdeReturns("EFI_MEDIA_CHANGED", FALSE)
  BY <1>1, <1>2, <1>3, <1>5, <1>8, <1>12, ReturnsOK
<1>13. CASE /\ \/ IdeReturns("EFI_WRITE_PROTECTED", FALSE)
               \/ IdeReturns("EFI_INVALID_PARAMETER", FALSE)
            /\ same /\ media.present
<2>1. ideSeen <= ideDev'.media.id /\ ~Unasked
  BY <1>8, <1>10, <1>11, <1>13
<2> QED BY <1>1, <1>2, <1>3, <1>5, <1>8, <1>13, <2>1, ReturnsOK
<1>14. CASE IdeGoes("command") /\ UNCHANGED <<ideSeen, ideUntold, ideLatch>> /\ same /\ media.present
<2>1. /\ idePc' \in IdePcs /\ idePc'.at = "command"
      /\ UNCHANGED <<idePc.op, idePc.lba, idePc.blocks, idePc.want, idePc.left, idePc.sent,
                     idePc.done, idePc.late, idePc.error>>
  BY <1>1, <1>14, GoesOK DEF Transfer
<2>2. IdeTypes'
  BY <1>2, <1>5, <1>8, <1>14, <2>1 DEF IdeTypes, DevInfos
<2>3. DeviceOK'
  BY <1>1, <1>2, <1>8, <1>14, <2>1 DEF DeviceOK, Setup, UdmaSteps, Detecting
<2>4. PcOK'
<3>1. /\ idePc.done = <<>> /\ idePc.sent = 0 /\ ~idePc.late /\ ~idePc.error
      /\ idePc.lba = idePc.want /\ idePc.left = idePc.blocks
      /\ idePc.op \in {"read", "write"} /\ idePc.left \in 1 .. idePc.blocks
  BY <1>1 DEF PcOK, Detecting
<3>2. idePc.lba \in Nat /\ idePc.blocks \in Nat
  BY <1>1 DEF IdePcs
<3>3. SectorCount' \in 1 .. idePc'.left
  BY <2>1, <3>1, CommandSize DEF SectorCount
<3> QED BY <1>1, <1>8, <2>1, <3>1, <3>2, <3>3
        DEF PcOK, MovedNow, Setup, UdmaSteps, Detecting, Transfer
<2>5. MovedOK'
  BY <1>1, <2>1 DEF MovedOK, PcOK, Detecting
<2>6. DmaOK'
  BY <1>1, <1>2, <2>1 DEF DmaOK
<2>7. ToldOK'
<3>1. Unasked' <=> Unasked
  BY <1>2, <1>14 DEF Unasked
<3> QED BY <1>8, <1>10, <1>11, <1>14, <2>1, <3>1 DEF ToldOK, Setup, Detecting
<2> QED BY <1>3, <2>2, <2>3, <2>4, <2>5, <2>6, <2>7
<1> QED BY <1>9, <1>12, <1>13, <1>14

-----------------------------------------------------------------------------
(* Sectors are moved. *)

LEMMA TransferParts ==
    ASSUME IdeInv, idePc.at \in Transfer
    PROVE  /\ idePc \in IdePcs /\ idePc.lba \in Nat /\ idePc.blocks \in Nat /\ idePc.want \in Nat
           /\ idePc.left \in 1 .. idePc.blocks /\ idePc.sent \in Nat /\ idePc.done \in Seq(Sectors)
           /\ Len(idePc.done) \in Nat
           /\ SectorCount \in 1 .. idePc.left /\ SectorCount <= IdeMaxSectors
           /\ idePc.op \in {"read", "write"}
           /\ idePc.lba + idePc.left = idePc.want + idePc.blocks
           /\ Len(idePc.done) = idePc.lba - idePc.want + MovedNow
           /\ idePc.sent <= SectorCount
           /\ ideDisk \in DiskNames \cup {IdeNoDisk} /\ LastOf(ideDisk) \in Nat
           /\ ~Unasked
<1>1. /\ idePc \in IdePcs /\ idePc.lba \in Nat /\ idePc.blocks \in Nat /\ idePc.want \in Nat
      /\ idePc.sent \in Nat /\ idePc.done \in Seq(Sectors)
      /\ ideDisk \in DiskNames \cup {IdeNoDisk}
  BY DEF IdeInv, IdeTypes, IdePcs
<1>2. /\ idePc.left \in 1 .. idePc.blocks /\ idePc.op \in {"read", "write"}
      /\ idePc.lba + idePc.left = idePc.want + idePc.blocks
      /\ Len(idePc.done) = idePc.lba - idePc.want + MovedNow
      /\ idePc.sent <= SectorCount
  BY DEF IdeInv, PcOK
<1>3. SectorCount \in 1 .. idePc.left /\ SectorCount <= IdeMaxSectors
  BY <1>1, <1>2, CommandSize DEF SectorCount
<1>4. ~Unasked /\ LastOf(ideDisk) \in Nat
  BY <1>1, LastIsNat DEF IdeInv, ToldOK
<1> QED BY <1>1, <1>2, <1>3, <1>4, LenProperties

LEMMA TakenOK ==
    ASSUME NEW n \in Nat, ideDisk \in DiskNames \cup {IdeNoDisk}, ideUntold \in BOOLEAN, Block \in Int
    PROVE  /\ Taken(n) \in Seq(Sectors) /\ Len(Taken(n)) = n
           /\ \A i \in 1 .. n : Taken(n)[i] = [disk |-> ideDisk, block |-> Block + i - 1,
                                               untold |-> ideUntold]
<1>1. \A i \in 1 .. n : [disk |-> ideDisk, block |-> Block + i - 1, untold |-> ideUntold] \in Sectors
  BY DEF Sectors
<1>2. Taken(n) \in [1 .. n -> Sectors]
  BY <1>1 DEF Taken
<1> QED BY <1>2 DEF Taken

LEMMA NoSectorsOK ==
    ASSUME NEW n \in Nat
    PROVE  /\ [i \in 1 .. n |-> NoSector] \in Seq(Sectors)
           /\ Len([i \in 1 .. n |-> NoSector]) = n
<1>1. NoSector \in Sectors
  BY DEF NoSector, Sectors
<1> QED BY <1>1

LEMMA Joined ==
    ASSUME NEW S, NEW s \in Seq(S), NEW t \in Seq(S)
    PROVE  /\ s \o t \in Seq(S) /\ Len(s \o t) = Len(s) + Len(t)
           /\ \A i \in 1 .. Len(s) : (s \o t)[i] = s[i]
           /\ \A i \in 1 .. Len(t) : (s \o t)[Len(s) + i] = t[i]
  OBVIOUS

LEMMA WritesOK ==
    ASSUME IdeInv, ideDisk \in DiskNames, NEW n \in Nat, IdeMoves(n)
    PROVE  /\ DOMAIN ideData' = DiskNames
           /\ \A disk \in DiskNames : ideData'[disk] \in [0 .. LastOf(disk) -> Nat]
           /\ \A disk \in DiskNames, b \in Int :
                 b \in 0 .. LastOf(disk) /\ idePc.op = "write" =>
                    ideData'[disk][b] = IF disk = ideDisk /\ b \in Block .. (Block + n - 1)
                                        THEN Version ELSE ideData[disk][b]
<1>1. /\ DOMAIN ideData = DiskNames
      /\ \A disk \in DiskNames : ideData[disk] \in [0 .. LastOf(disk) -> Nat]
  BY DEF IdeInv, IdeTypes
<1>2. CASE idePc.op # "write"
  BY <1>1, <1>2 DEF IdeMoves
<1>3. CASE idePc.op = "write"
<2> DEFINE new == [b \in DOMAIN ideData[ideDisk] |->
                      IF b \in Block .. (Block + n - 1) THEN Version ELSE ideData[ideDisk][b]]
<2>1. ideData' = [ideData EXCEPT ![ideDisk] = new]
  BY <1>3 DEF IdeMoves, Writes
<2>2. DOMAIN ideData[ideDisk] = 0 .. LastOf(ideDisk)
  BY <1>1
<2>3. Version \in Nat
  BY DEF Version, IdeInv, IdeTypes
<2>4. new \in [0 .. LastOf(ideDisk) -> Nat]
  BY <1>1, <2>2, <2>3
<2>5. \A b \in 0 .. LastOf(ideDisk) :
         new[b] = IF b \in Block .. (Block + n - 1) THEN Version ELSE ideData[ideDisk][b]
  BY <2>2
<2> HIDE DEF new
<2>6. /\ DOMAIN ideData' = DiskNames
      /\ \A disk \in DiskNames : ideData'[disk] = IF disk = ideDisk THEN new ELSE ideData[disk]
  BY <1>1, <2>1
<2> QED BY <1>1, <2>4, <2>5, <2>6
<1> QED BY <1>2, <1>3

(* n more sectors have been moved from Block on, or the last of them is    *)
(* not and the device tells it.                                            *)
LEMMA SectorsMoved ==
    ASSUME IdeInv, idePc.at \in Transfer, NEW n \in Nat \ {0}, ideDisk \in DiskNames, ~ideUntold,
           Block = idePc.want + Len(idePc.done), Block + n - 1 <= LastOf(ideDisk),
           idePc'.done = idePc.done \o Taken(n),
           UNCHANGED <<idePc.want, idePc.op, idePc.late>>, Version' = Version,
           \/ ideLatch'.fault = ideLatch.fault /\ IdeMoves(n)
           \/ ideLatch'.fault /\ UNCHANGED ideData
    PROVE  /\ MovedOK'
           /\ DOMAIN ideData' = DiskNames
           /\ \A disk \in DiskNames : ideData'[disk] \in [0 .. LastOf(disk) -> Nat]
           /\ idePc'.done \in Seq(Sectors) /\ Len(idePc'.done) = Len(idePc.done) + n
<1>1. /\ idePc.want \in Nat /\ Len(idePc.done) \in Nat /\ idePc.done \in Seq(Sectors)
      /\ LastOf(ideDisk) \in Nat /\ Block \in Nat
<2>1. /\ idePc.want \in Nat /\ Len(idePc.done) \in Nat /\ idePc.done \in Seq(Sectors)
      /\ LastOf(ideDisk) \in Nat
  BY TransferParts, Zenon
<2>2. PICK w \in Nat, l \in Nat : w = idePc.want /\ l = Len(idePc.done)
  BY <2>1, Zenon
<2>3. Block = w + l
  BY <2>2, Zenon
<2>4. Block \in Nat
  BY <2>3
<2> QED BY <2>1, <2>4, Zenon
<1>2. /\ Taken(n) \in Seq(Sectors) /\ Len(Taken(n)) = n
      /\ \A i \in 1 .. n : Taken(n)[i] = [disk |-> ideDisk, block |-> Block + i - 1,
                                          untold |-> ideUntold]
  BY <1>1, TakenOK DEF IdeInv, IdeTypes
<1>3. /\ idePc'.done \in Seq(Sectors) /\ Len(idePc'.done) = Len(idePc.done) + n
      /\ \A i \in 1 .. Len(idePc.done) : idePc'.done[i] = idePc.done[i]
      /\ \A i \in 1 .. n : idePc'.done[Len(idePc.done) + i] = Taken(n)[i]
<2>1. \A s, t \in Seq(Sectors) :
         /\ s \o t \in Seq(Sectors) /\ Len(s \o t) = Len(s) + Len(t)
         /\ \A i \in 1 .. Len(s) : (s \o t)[i] = s[i]
         /\ \A i \in 1 .. Len(t) : (s \o t)[Len(s) + i] = t[i]
  BY Joined, Zenon
<2>2. PICK s \in Seq(Sectors) : s = idePc.done
  BY <1>1
<2>3. PICK t \in Seq(Sectors) : t = Taken(n)
  BY <1>2
<2>4. idePc'.done = s \o t
  BY <2>2, <2>3
<2>5. /\ s \o t \in Seq(Sectors) /\ Len(s \o t) = Len(s) + Len(t)
      /\ \A i \in 1 .. Len(s) : (s \o t)[i] = s[i]
      /\ \A i \in 1 .. Len(t) : (s \o t)[Len(s) + i] = t[i]
  BY <2>1, Zenon
<2>6. Len(t) = n
  BY <1>2, <2>3, Zenon
<2>7. /\ idePc'.done \in Seq(Sectors) /\ Len(idePc'.done) = Len(s) + n
      /\ \A i \in 1 .. Len(s) : idePc'.done[i] = s[i]
      /\ \A i \in 1 .. n : idePc'.done[Len(s) + i] = t[i]
  BY <2>4, <2>5, <2>6, Zenon
<2> QED BY <2>2, <2>3, <2>7, Zenon
<1>4. /\ DOMAIN ideData' = DiskNames
      /\ \A disk \in DiskNames : ideData'[disk] \in [0 .. LastOf(disk) -> Nat]
  BY WritesOK DEF IdeInv, IdeTypes
<1>5. \A disk \in DiskNames, b \in Int :
         b \in 0 .. LastOf(disk) /\ idePc.op = "write" /\ ~ideLatch'.fault =>
            ideData'[disk][b] = IF disk = ideDisk /\ b \in Block .. (Block + n - 1)
                                THEN Version ELSE ideData[disk][b]
  BY WritesOK
<1>6. MovedOK'
<2> SUFFICES ASSUME ~idePc.late, NEW i \in 1 .. (Len(idePc.done) + n)
             PROVE  /\ idePc'.done[i].disk \in DiskNames
                    /\ idePc'.done[i].block \in 0 .. LastOf(idePc'.done[i].disk)
                    /\ idePc'.done[i].block = idePc.want + i - 1 /\ ~idePc'.done[i].untold
                    /\ idePc.op = "write" /\ ~ideLatch'.fault =>
                          ideData'[idePc'.done[i].disk][idePc'.done[i].block] = Version
  BY <1>3 DEF MovedOK
<2>1. CASE i \in 1 .. Len(idePc.done)
<3>1. /\ idePc.done[i].disk \in DiskNames
      /\ idePc.done[i].block \in 0 .. LastOf(idePc.done[i].disk)
      /\ idePc.done[i].block = idePc.want + i - 1 /\ ~idePc.done[i].untold
      /\ idePc.op = "write" /\ ~ideLatch.fault =>
            ideData[idePc.done[i].disk][idePc.done[i].block] = Version
  BY <2>1 DEF IdeInv, MovedOK
<3>2. idePc'.done[i] = idePc.done[i]
  BY <1>3, <2>1
<3>3. idePc.done[i].block \in Int
  BY <1>1, <3>1
<3>4. idePc.op = "write" /\ ~ideLatch'.fault =>
         ideData'[idePc.done[i].disk][idePc.done[i].block] = Version
<4>1. ~ideLatch'.fault => ~ideLatch.fault
  OBVIOUS
<4> QED BY <1>5, <3>1, <3>3, <4>1
<3> QED BY <3>1, <3>2, <3>4
<2>2. CASE i \notin 1 .. Len(idePc.done)
<3>1. PICK k \in 1 .. n : i = Len(idePc.done) + k
<4>1. i - Len(idePc.done) \in 1 .. n /\ i = Len(idePc.done) + (i - Len(idePc.done))
  BY <1>1, <2>2
<4> QED BY <4>1
<3>2. idePc'.done[i] = [disk |-> ideDisk, block |-> Block + k - 1, untold |-> ideUntold]
  BY <1>2, <1>3, <3>1
<3>3. /\ Block + k - 1 \in 0 .. LastOf(ideDisk) /\ Block + k - 1 \in Block .. (Block + n - 1)
      /\ Block + k - 1 = idePc.want + i - 1
<4>1. k \in Int /\ k >= 1 /\ k <= n /\ n \in Int
  OBVIOUS
<4>2. Block + k - 1 >= 0 /\ Block + k - 1 <= LastOf(ideDisk)
  BY <1>1, <4>1
<4>3. Block + k - 1 >= Block /\ Block + k - 1 <= Block + n - 1
  BY <1>1, <4>1
<4>4. Block + k - 1 = idePc.want + i - 1
<5>1. PICK l \in Nat : l = Len(idePc.done)
  BY <1>1
<5>2. PICK w \in Nat : w = idePc.want
  BY <1>1
<5>3. PICK b \in Nat : b = Block
  BY <1>1
<5>4. b = w + l
  BY <5>1, <5>2, <5>3
<5>5. i = l + k
  BY <3>1, <5>1
<5>6. b + k - 1 = w + i - 1
  BY <4>1, <5>4, <5>5
<5> QED BY <5>2, <5>3, <5>6, Zenon
<4> QED BY <1>1, <4>1, <4>2, <4>3, <4>4
<3>4. idePc.op = "write" /\ ~ideLatch'.fault => ideData'[ideDisk][Block + k - 1] = Version
<4>1. PICK b : b = Block + k - 1
  OBVIOUS
<4>2. b \in 0 .. LastOf(ideDisk) /\ b \in Block .. (Block + n - 1)
  BY <3>3, <4>1, Zenon
<4>3. b \in Int
  BY <1>1, <4>1
<4>4. ideDisk \in DiskNames
  OBVIOUS
<4>5. idePc.op = "write" /\ ~ideLatch'.fault => ideData'[ideDisk][b] = Version
  BY <1>5, <4>2, <4>3, <4>4, Zenon
<4> QED BY <4>1, <4>5, Zenon
<3> QED BY <3>2, <3>3, <3>4
<2> QED BY <2>1, <2>2
<1> QED BY <1>3, <1>4, <1>6

-----------------------------------------------------------------------------
(* A step within a transfer: what it must keep. *)

LEMMA TransferGoesOn ==
    ASSUME IdeInv, idePc.at \in Transfer, idePc' \in IdePcs, idePc'.at \in Transfer,
           UNCHANGED <<ideDevice, ideDisk, ideSense, ideDev, ideSeen, ideUntold, ideWrong>>,
           ideLeft' \in [calls : Nat, changes : Nat, faults : Nat],
           DOMAIN ideData' = DiskNames,
           \A disk \in DiskNames : ideData'[disk] \in [0 .. LastOf(disk) -> Nat],
           ideLatch' \in [stale : BOOLEAN, fault : BOOLEAN],
           ideDma' \in [mapped : BOOLEAN, running : BOOLEAN],
           ideDev.type \in HardDisks /\ ideLatch'.fault => idePc'.at \in {"sectors", "verify"},
           idePc'.at \in UdmaSteps => ideDev.type \in HardDisks,
           PcOK', MovedOK', DmaOK'
    PROVE  IdeInv'
<1> USE DEF IdeInv
<1>1. IdeTypes'
  BY DEF IdeTypes
<1>2. idePc.at \notin Setup /\ idePc'.at \notin Setup \cup Detecting \cup {"idle", "check"}
  BY DEF Transfer, UdmaSteps, Setup, Detecting
<1>3. DeviceOK'
<2>1. ideDev.type \in HardDisks <=> ideDevice.type = "ATA"
  BY <1>2 DEF DeviceOK, Setup
<2> QED BY <1>2, <2>1 DEF DeviceOK, Setup
<1>4. ToldOK'
<2>1. ~Unasked /\ ~Unasked'
  BY TransferParts DEF Unasked
<2> QED BY <1>2, <2>1 DEF ToldOK, Setup, Detecting
<1> QED BY <1>1, <1>3, <1>4

(* The place in the call after a step of one command. *)
LEMMA CommandGoesOn ==
    ASSUME IdeInv, idePc.at \in Transfer, idePc' \in IdePcs, idePc'.at \in Transfer,
           UNCHANGED <<idePc.op, idePc.lba, idePc.blocks, idePc.want, idePc.left>>,
           UNCHANGED <<ideDev, ideDisk>>,
           Len(idePc'.done) = idePc.lba - idePc.want + MovedNow',
           idePc'.sent <= SectorCount,
           idePc'.at = "sectors" => idePc'.sent < SectorCount,
           idePc'.at \notin {"sectors", "verify"} => idePc'.sent = 0,
           idePc'.error => idePc'.at \in {"unmap", "stop"}
    PROVE  PcOK' /\ SectorCount' = SectorCount
<1>1. SectorCount' = SectorCount
  BY DEF SectorCount
<1>2. idePc'.at \notin Setup \cup Detecting \cup {"idle", "check"}
  BY DEF Transfer, UdmaSteps, Setup, Detecting
<1>3. /\ idePc.op \in {"read", "write"} /\ idePc.left \in 1 .. idePc.blocks
      /\ idePc.lba + idePc.left = idePc.want + idePc.blocks
      /\ ideDev.type \in HardDisks => idePc.want + idePc.blocks - 1 <= LastOf(ideDisk)
  BY DEF IdeInv, PcOK
<1> QED BY <1>1, <1>2, <1>3 DEF PcOK, Detecting

(* What holds at a step of a transfer without UDMA. *)
LEMMA NotMapped ==
    ASSUME IdeInv, idePc.at \in {"command", "sectors", "verify", "map"}
    PROVE  /\ ideDma = [mapped |-> FALSE, running |-> FALSE] /\ ~idePc.error
           /\ idePc.at \in Transfer
  BY DEF IdeInv, IdeTypes, DmaOK, PcOK, Transfer, UdmaSteps

LEMMA IdeCommandOK ==
    ASSUME IdeInv, IdeCommand
    PROVE  IdeInv'
<1> DEFINE sent == \/ AtaPioDataIn \/ AtaPioDataOut \/ AtaPioDataInExt \/ AtaPioDataOutExt
                   \/ AtapiPacketCommandIn \/ AtapiPacketCommandOut
<1>1. /\ idePc.at = "command"
      /\ \/ sent /\ IdeFine /\ IdeGoes("sectors") /\ Stays
         \/ (IF sent THEN IdeFault ELSE IdeFine) /\ Failed
      /\ UNCHANGED <<ideDevice, ideDisk, ideSense, ideData, ideDev, ideDma, ideWrong>>
  BY DEF IdeCommand
<1> HIDE DEF sent
<1>2. ideDma = [mapped |-> FALSE, running |-> FALSE] /\ ~idePc.error /\ idePc.at \in Transfer
  BY <1>1, NotMapped
<1>3. ideLeft' \in [calls : Nat, changes : Nat, faults : Nat]
  BY <1>1, LeftOK
<1>4. CASE Failed
  BY <1>1, <1>2, <1>3, <1>4, FailedOK
<1>5. CASE IdeFine /\ IdeGoes("sectors") /\ Stays
<2>1. /\ idePc' \in IdePcs /\ idePc'.at = "sectors"
      /\ UNCHANGED <<idePc.op, idePc.lba, idePc.blocks, idePc.want, idePc.left, idePc.sent,
                     idePc.done, idePc.late, idePc.error>>
  BY <1>5, GoesOK DEF Transfer, IdeInv, IdeTypes
<2>2. UNCHANGED <<ideSeen, ideUntold, ideLatch, ideLeft>>
  BY <1>5 DEF Stays, IdeFine
<2>3. idePc.sent = 0 /\ SectorCount \in Nat \ {0} /\ Len(idePc.done) = idePc.lba - idePc.want
<3>1. MovedNow = 0 /\ idePc.sent = 0
  BY <1>1, <1>2 DEF MovedNow, IdeInv, PcOK
<3> QED BY <1>2, <3>1, TransferParts
<2>4. MovedNow' = 0
  BY <2>1, <2>3 DEF MovedNow
<2>5. PcOK'
<3>1. Len(idePc'.done) = idePc.lba - idePc.want + MovedNow'
  BY <1>2, <2>1, <2>3, <2>4, TransferParts
<3> QED BY <1>1, <1>2, <2>1, <2>3, <3>1, CommandGoesOn DEF Transfer
<2>6. MovedOK'
  BY <1>1, <2>1, <2>2 DEF MovedOK, Version, IdeInv
<2>7. DmaOK'
  BY <1>1, <1>2, <2>1 DEF DmaOK
<2>8. /\ DOMAIN ideData' = DiskNames
      /\ \A disk \in DiskNames : ideData'[disk] \in [0 .. LastOf(disk) -> Nat]
      /\ ideLatch' \in [stale : BOOLEAN, fault : BOOLEAN]
      /\ ideDma' \in [mapped : BOOLEAN, running : BOOLEAN]
  BY <1>1, <2>2 DEF IdeInv, IdeTypes
<2>9. idePc'.at \in Transfer /\ idePc'.at \notin UdmaSteps
  BY <2>1 DEF Transfer, UdmaSteps
<2> QED BY <1>1, <1>2, <1>3, <2>1, <2>2, <2>5, <2>6, <2>7, <2>8, <2>9, TransferGoesOn
<1> QED BY <1>1, <1>4, <1>5

LEMMA IdeSectorOK ==
    ASSUME IdeInv, IdeSector
    PROVE  IdeInv'
<1>1. /\ idePc.at = "sectors"
      /\ UNCHANGED <<ideDevice, ideDisk, ideSense, ideDev, ideDma, ideWrong>>
  BY DEF IdeSector
<1>2. ideDma = [mapped |-> FALSE, running |-> FALSE] /\ ~idePc.error /\ idePc.at \in Transfer
  BY <1>1, NotMapped
<1>3. CASE ~DRQReady
<2>1. Failed /\ UNCHANGED ideData /\ IdeFine
  BY <1>3 DEF IdeSector
<2>2. ideLeft' \in [calls : Nat, changes : Nat, faults : Nat]
  BY <2>1, LeftOK
<2> QED BY <1>1, <1>2, <2>1, <2>2, FailedOK
<1>4. CASE DRQReady
<2>1. /\ Takes(Taken(1)) /\ UNCHANGED <<ideSeen, ideUntold>>
      /\ \/ IdeFine /\ IdeMoves(1) /\ UNCHANGED ideLatch
         \/ /\ IdeFault /\ UNCHANGED ideData
            /\ ideLatch' = [ideLatch EXCEPT !.fault = TRUE]
  BY <1>4 DEF IdeSector
<2>2. /\ idePc \in IdePcs /\ idePc.lba \in Nat /\ idePc.want \in Nat /\ idePc.blocks \in Nat
      /\ idePc.left \in 1 .. idePc.blocks /\ idePc.sent \in Nat
      /\ SectorCount \in 1 .. idePc.left /\ LastOf(ideDisk) \in Nat
      /\ idePc.lba + idePc.left = idePc.want + idePc.blocks
      /\ Len(idePc.done) \in Nat /\ idePc.done \in Seq(Sectors)
      /\ ideDisk \in DiskNames \cup {IdeNoDisk} /\ ~Unasked
  BY <1>2, TransferParts
<2>3. Len(idePc.done) = idePc.lba - idePc.want + idePc.sent /\ idePc.sent < SectorCount
<3>1. MovedNow = idePc.sent
  BY <1>1 DEF MovedNow
<3> QED BY <1>1, <1>2, <3>1, TransferParts DEF IdeInv, PcOK
<2>4. Block \in Nat /\ Block = idePc.want + Len(idePc.done) /\ Block = idePc.lba + idePc.sent
  BY <2>2, <2>3 DEF Block
<2>5. ideDisk \in DiskNames /\ ~ideUntold /\ Block <= LastOf(ideDisk) /\ ~ideLatch.fault
<3>1. ~ideLatch.fault
  BY <1>4 DEF DRQReady
<3>2. CASE ideDevice.type = "ATAPI"
<4>1. ~ideSense /\ ideDisk # IdeNoDisk /\ idePc.lba + SectorCount - 1 <= LastOf(ideDisk)
  BY <1>4, <2>2, <3>2 DEF DRQReady, PacketRefused
<4>2. Block <= LastOf(ideDisk)
  BY <2>2, <2>3, <2>4, <4>1
<4> QED BY <2>2, <3>1, <4>1, <4>2 DEF Unasked
<3>3. CASE ideDevice.type # "ATAPI"
<4>1. ideDevice.type = "ATA"
  BY <3>3, DevicesTyped DEF IdeInv, IdeTypes
<4>2. ideDisk # IdeNoDisk /\ ~ideUntold /\ ideDev.type \in HardDisks
  BY <1>1, <4>1 DEF IdeInv, DeviceOK
<4>3. idePc.want + idePc.blocks - 1 <= LastOf(ideDisk)
  BY <1>2, <4>2 DEF IdeInv, PcOK
<4>4. Block <= LastOf(ideDisk)
<5>1. PICK c \in Nat : c = SectorCount /\ c <= idePc.left /\ idePc.sent < c
  BY <2>2, <2>3
<5>2. PICK f \in Nat : f = idePc.left
  BY <2>2
<5>3. idePc.lba + idePc.sent < idePc.lba + f
  BY <2>2, <5>1, <5>2
<5>4. idePc.lba + f - 1 <= LastOf(ideDisk)
<6>1. idePc.lba + f = idePc.want + idePc.blocks
  BY <2>2, <5>2
<6>2. (idePc.want + idePc.blocks) - 1 <= LastOf(ideDisk)
  BY <2>2, <4>3
<6>3. (idePc.lba + f) - 1 <= LastOf(ideDisk)
  BY <6>1, <6>2, Zenon
<6> QED BY <2>2, <5>2, <6>3
<5> QED BY <2>2, <2>4, <5>2, <5>3, <5>4
<4> QED BY <2>2, <3>1, <4>2, <4>4
<3> QED BY <3>2, <3>3
<2>6. ideLeft' \in [calls : Nat, changes : Nat, faults : Nat] /\ Version' = Version
  BY <2>1, LeftOK DEF Version
<2>7. ideLatch' \in [stale : BOOLEAN, fault : BOOLEAN]
  BY <2>1 DEF IdeInv, IdeTypes
<2>8. \/ ideLatch'.fault = ideLatch.fault /\ IdeMoves(1)
      \/ ideLatch'.fault /\ UNCHANGED ideData
<3>1. ideLatch' = [ideLatch EXCEPT !.fault = TRUE] => ideLatch'.fault
  BY DEF IdeInv, IdeTypes
<3> QED BY <2>1, <3>1
<2>9. Taken(1) \in Seq(Sectors) /\ Len(Taken(1)) = 1
<3>1. ideUntold \in BOOLEAN /\ Block \in Int /\ 1 \in Nat
  BY <2>4 DEF IdeInv, IdeTypes
<3> QED BY <2>2, <3>1, TakenOK
<2>10. /\ idePc'.done = idePc.done \o Taken(1) /\ idePc'.sent = idePc.sent + 1
       /\ idePc' = [idePc EXCEPT !.done = idePc'.done, !.sent = idePc'.sent, !.at = idePc'.at]
       /\ idePc'.at = IF idePc.sent + 1 = SectorCount THEN "verify" ELSE "sectors"
  BY <2>1, <2>2, <2>9 DEF Takes, IdePcs
<2>11. /\ UNCHANGED <<idePc.op, idePc.lba, idePc.blocks, idePc.want, idePc.left, idePc.late,
                      idePc.error>>
  BY <2>2, <2>10 DEF IdePcs
<2>12. /\ MovedOK' /\ DOMAIN ideData' = DiskNames
       /\ \A disk \in DiskNames : ideData'[disk] \in [0 .. LastOf(disk) -> Nat]
       /\ idePc'.done \in Seq(Sectors) /\ Len(idePc'.done) = Len(idePc.done) + 1
<3>1. Block + 1 - 1 <= LastOf(ideDisk) /\ 1 \in Nat \ {0}
  BY <2>4, <2>5
<3> QED BY <1>2, <2>4, <2>5, <2>6, <2>8, <2>10, <2>11, <3>1, SectorsMoved
<2>13. idePc' \in IdePcs /\ idePc'.at \in {"sectors", "verify"} /\ idePc'.sent \in Nat
<3>1. idePc'.sent \in Nat /\ idePc'.at \in {"sectors", "verify"}
  BY <2>2, <2>10
<3>2. idePc'.at \in Transfer
  BY <3>1 DEF Transfer
<3> QED BY <2>2, <2>10, <2>12, <3>1, <3>2 DEF IdePcs
<2>14. PcOK'
<3>1. SectorCount' = SectorCount
  BY <2>11 DEF SectorCount
<3>2. MovedNow' = idePc'.sent
  BY <2>2, <2>10, <3>1 DEF MovedNow
<3>3. idePc'.at \in Transfer
  BY <2>13 DEF Transfer
<3>4. Len(idePc'.done) = idePc.lba - idePc.want + MovedNow'
<4>1. PICK l \in Nat : l = Len(idePc.done)
  BY <2>2
<4>2. PICK d \in Int : d = idePc.lba - idePc.want
  BY <2>2
<4>3. l = d + idePc.sent /\ Len(idePc'.done) = l + 1 /\ MovedNow' = idePc.sent + 1
  BY <2>3, <2>10, <2>12, <3>2, <4>1, <4>2
<4>4. l + 1 = d + (idePc.sent + 1)
  BY <2>2, <4>3
<4> QED BY <4>2, <4>3, <4>4, Zenon
<3>5. idePc'.sent <= SectorCount /\ (idePc'.at = "sectors" => idePc'.sent < SectorCount)
  BY <2>2, <2>3, <2>10
<3> QED BY <1>1, <1>2, <2>11, <2>13, <3>3, <3>4, <3>5, CommandGoesOn
<2>15. DmaOK'
  BY <1>1, <1>2, <2>13 DEF DmaOK
<2>16. idePc'.at \in Transfer /\ idePc'.at \notin UdmaSteps
  BY <2>13 DEF Transfer, UdmaSteps
<2>17. ideDma' \in [mapped : BOOLEAN, running : BOOLEAN]
  BY <1>1 DEF IdeInv, IdeTypes
<2> QED BY <1>1, <1>2, <2>1, <2>6, <2>7, <2>12, <2>13, <2>14, <2>15, <2>16, <2>17, TransferGoesOn
<1> QED BY <1>3, <1>4

LEMMA IdeLateOK ==
    ASSUME IdeInv, IdeLate
    PROVE  IdeInv'
<1>1. /\ idePc.at = "sectors" /\ IdeFault
      /\ UNCHANGED <<ideDevice, ideDisk, ideSense, ideData, ideDev, ideDma, ideWrong>>
  BY DEF IdeLate
<1>2. ideDma = [mapped |-> FALSE, running |-> FALSE] /\ ~idePc.error /\ idePc.at \in Transfer
  BY <1>1, NotMapped
<1>3. ideLeft' \in [calls : Nat, changes : Nat, faults : Nat]
  BY <1>1, LeftOK
<1>4. CASE ideDev.type \in HardDisks
<2>1. Failed
  BY <1>4 DEF IdeLate
<2> QED BY <1>1, <1>2, <1>3, <2>1, FailedOK
<1>5. CASE ideDev.type \notin HardDisks
<2> DEFINE none == [i \in 1 .. (SectorCount - idePc.sent) |-> NoSector]
<2>1. /\ idePc' = [idePc EXCEPT !.late = TRUE, !.at = "verify", !.done = idePc.done \o none]
      /\ ideLatch' = [ideLatch EXCEPT !.stale = TRUE]
      /\ UNCHANGED <<ideSeen, ideUntold>>
  BY <1>5 DEF IdeLate
<2>2. /\ idePc \in IdePcs /\ idePc.lba \in Nat /\ idePc.want \in Nat /\ idePc.sent \in Nat
      /\ SectorCount \in Nat /\ Len(idePc.done) \in Nat /\ idePc.done \in Seq(Sectors)
      /\ idePc.sent <= SectorCount
  BY <1>2, TransferParts
<2>3. Len(idePc.done) = idePc.lba - idePc.want + idePc.sent
<3>1. MovedNow = idePc.sent
  BY <1>1 DEF MovedNow
<3> QED BY <1>2, <3>1, TransferParts
<2>4. none \in Seq(Sectors) /\ Len(none) = SectorCount - idePc.sent
<3>1. SectorCount - idePc.sent \in Nat
  BY <2>2
<3> QED BY <3>1, NoSectorsOK
<2> HIDE DEF none
<2>5. /\ idePc.done \o none \in Seq(Sectors)
      /\ Len(idePc.done \o none) = Len(idePc.done) + (SectorCount - idePc.sent)
<3>1. \A s, t \in Seq(Sectors) : s \o t \in Seq(Sectors) /\ Len(s \o t) = Len(s) + Len(t)
  BY Joined, Zenon
<3>2. /\ idePc.done \o none \in Seq(Sectors)
      /\ Len(idePc.done \o none) = Len(idePc.done) + Len(none)
  BY <2>2, <2>4, <3>1, Zenon
<3> QED BY <2>4, <3>2, Zenon
<2>6. /\ idePc'.done = idePc.done \o none /\ idePc'.at = "verify" /\ idePc'.late = TRUE
      /\ UNCHANGED <<idePc.op, idePc.lba, idePc.blocks, idePc.want, idePc.left, idePc.sent,
                     idePc.error>>
  BY <2>1, <2>2 DEF IdePcs
<2>7. idePc' \in IdePcs
<3>1. "verify" \in Transfer
  BY DEF Transfer
<3> QED BY <2>1, <2>2, <2>5, <3>1 DEF IdePcs
<2>8. idePc'.at \in Transfer /\ idePc'.at \notin UdmaSteps
  BY <2>6 DEF Transfer, UdmaSteps
<2>9. PcOK'
<3>1. SectorCount' = SectorCount
  BY <2>6 DEF SectorCount
<3>2. MovedNow' = SectorCount
  BY <2>6, <3>1 DEF MovedNow
<3>3. Len(idePc'.done) = idePc.lba - idePc.want + MovedNow'
<4>1. Len(idePc'.done) = Len(idePc.done) + (SectorCount - idePc.sent)
  BY <2>5, <2>6
<4> QED BY <2>2, <2>3, <3>2, <4>1
<3> QED BY <1>1, <1>2, <2>2, <2>6, <2>7, <2>8, <3>3, CommandGoesOn
<2>10. MovedOK'
  BY <2>6 DEF MovedOK
<2>11. DmaOK'
  BY <1>1, <1>2, <2>6 DEF DmaOK
<2>12. /\ DOMAIN ideData' = DiskNames
       /\ \A disk \in DiskNames : ideData'[disk] \in [0 .. LastOf(disk) -> Nat]
       /\ ideLatch' \in [stale : BOOLEAN, fault : BOOLEAN]
       /\ ideDma' \in [mapped : BOOLEAN, running : BOOLEAN]
  BY <1>1, <2>1 DEF IdeInv, IdeTypes
<2> QED BY <1>1, <1>2, <1>3, <1>5, <2>1, <2>7, <2>8, <2>9, <2>10, <2>11, <2>12, TransferGoesOn
<1> QED BY <1>4, <1>5

-----------------------------------------------------------------------------
(* A command is done: the call succeeds, or goes on with the next one. *)

LEMMA NextCommandOK ==
    ASSUME IdeInv, idePc.at \in {"verify", "stop"}, ~ideLatch.fault, ~idePc.error, NextCommand,
           UNCHANGED <<ideDevice, ideDisk, ideSense, ideData, ideDev, ideLeft>>,
           ideDma' = [mapped |-> FALSE, running |-> FALSE]
    PROVE  IdeInv'
<1>1. idePc.at \in Transfer
  BY DEF Transfer, UdmaSteps
<1>2. /\ idePc \in IdePcs /\ idePc.lba \in Nat /\ idePc.want \in Nat /\ idePc.blocks \in Nat
      /\ idePc.left \in 1 .. idePc.blocks /\ SectorCount \in 1 .. idePc.left
      /\ Len(idePc.done) \in Nat /\ idePc.done \in Seq(Sectors)
      /\ idePc.lba + idePc.left = idePc.want + idePc.blocks /\ ~Unasked
  BY <1>1, TransferParts
<1>3. Len(idePc.done) = idePc.lba - idePc.want + SectorCount
<2>1. MovedNow = SectorCount
  BY DEF MovedNow
<2> QED BY <1>1, <2>1, TransferParts
<1>4. ideLeft' \in [calls : Nat, changes : Nat, faults : Nat] /\ Version' = Version
  BY DEF IdeInv, IdeTypes, Version
<1>5. CASE idePc.left = SectorCount
<2>1. IdeReturns("EFI_SUCCESS", FALSE) /\ ideWrong' = (ideWrong \/ ~(idePc.late \/ AllMoved))
  BY <1>5 DEF NextCommand, Succeeds
<2>2. idePc.late \/ AllMoved
<3> SUFFICES ASSUME ~idePc.late PROVE AllMoved
  OBVIOUS
<3>1. Len(idePc.done) = idePc.blocks
  BY <1>2, <1>3, <1>5
<3>2. \A i \in 1 .. Len(idePc.done) : Right(i)
  BY DEF IdeInv, MovedOK, Right
<3>3. DOMAIN idePc.done = 1 .. Len(idePc.done)
  BY <1>2
<3> QED BY <3>1, <3>2, <3>3 DEF AllMoved
<2>3. ideWrong' = FALSE
  BY <2>1, <2>2 DEF IdeInv, IdeTypes
<2>4. idePc.at \notin Setup /\ ideDev' \in DevInfos /\ ideSeen <= ideDev'.media.id
  BY DEF Setup, IdeInv, IdeTypes, DevInfos, ToldOK
<2> QED BY <1>2, <1>4, <2>1, <2>3, <2>4, ReturnsOK
<1>6. CASE idePc.left # SectorCount
<2>1. idePc' = Advanced /\ UNCHANGED <<ideSeen, ideUntold, ideLatch, ideWrong>>
  BY <1>6 DEF NextCommand, Stays
<2>2. /\ idePc' = [idePc EXCEPT !.lba = idePc'.lba, !.left = idePc'.left, !.sent = 0,
                                !.at = idePc'.at]
      /\ idePc'.lba = idePc.lba + SectorCount /\ idePc'.left = idePc.left - SectorCount
      /\ idePc'.at = IF ideDev.udma /\ ideDev.type \in HardDisks THEN "map" ELSE "command"
  BY <1>2, <2>1 DEF Advanced, IdePcs
<2>3. /\ idePc'.sent = 0
      /\ UNCHANGED <<idePc.op, idePc.blocks, idePc.want, idePc.done, idePc.late, idePc.error>>
  BY <1>2, <2>2 DEF IdePcs
<2>4. /\ idePc'.lba \in Nat /\ idePc'.left \in 1 .. idePc.blocks
      /\ idePc'.lba + idePc'.left = idePc.want + idePc.blocks
      /\ Len(idePc.done) = idePc'.lba - idePc.want
<3>1. PICK c \in Nat \ {0} : c = SectorCount
  BY <1>2
<3>2. PICK f \in Nat : f = idePc.left
  BY <1>2
<3>3. /\ idePc'.lba = idePc.lba + c /\ idePc'.left = f - c /\ c <= f /\ c # f
      /\ f <= idePc.blocks /\ idePc.lba + f = idePc.want + idePc.blocks
  BY <1>2, <1>6, <2>2, <3>1, <3>2
<3>4. idePc'.lba \in Nat /\ idePc'.left \in 1 .. idePc.blocks
  BY <1>2, <3>3
<3>5. idePc'.lba + idePc'.left = idePc.want + idePc.blocks
  BY <1>2, <3>3
<3>6. Len(idePc.done) = idePc'.lba - idePc.want
<4>1. Len(idePc.done) = idePc.lba - idePc.want + c
  BY <1>3, <3>1
<4>2. idePc.lba - idePc.want + c = (idePc.lba + c) - idePc.want
  BY <1>2
<4>3. idePc'.lba = idePc.lba + c
  BY <3>3
<4> QED BY <4>1, <4>2, <4>3, Zenon
<3> QED BY <3>4, <3>5, <3>6
<2>5. idePc'.at \in Transfer /\ (idePc'.at \in UdmaSteps => ideDev.type \in HardDisks)
      /\ idePc'.at \in {"map", "command"}
  BY <2>2 DEF Transfer, UdmaSteps
<2>6. idePc' \in IdePcs
<3>1. idePc'.left \in Nat
  BY <1>2, <2>4
<3>2. idePc \in IdePcs /\ idePc'.lba \in Nat /\ idePc'.at \in Transfer
  BY <1>2, <2>4, <2>5
<3>3. idePc' = [at |-> idePc'.at, op |-> idePc.op, lba |-> idePc'.lba, blocks |-> idePc.blocks,
                id |-> idePc.id, old |-> idePc.old, tries |-> idePc.tries,
                want |-> idePc.want, left |-> idePc'.left, sent |-> 0,
                done |-> idePc.done, late |-> idePc.late, error |-> idePc.error]
  BY <2>1, <3>2 DEF Advanced, IdePcs
<3> QED BY <3>1, <3>2, <3>3 DEF IdePcs
<2>7. PcOK'
<3>1. SectorCount' \in 1 .. idePc'.left
  BY <2>3, <2>4, <2>6, CommandSize DEF SectorCount
<3>2. MovedNow' = 0
  BY <2>5 DEF MovedNow
<3>3. idePc'.at \notin Setup \cup Detecting \cup {"idle", "check"}
  BY <2>5 DEF Setup, Detecting
<3>4. /\ idePc.op \in {"read", "write"}
      /\ ideDev.type \in HardDisks => idePc.want + idePc.blocks - 1 <= LastOf(ideDisk)
  BY <1>1 DEF IdeInv, PcOK
<3>5. Len(idePc'.done) = idePc'.lba - idePc'.want + MovedNow' /\ idePc'.sent <= SectorCount'
  BY <1>2, <2>3, <2>4, <3>1, <3>2
<3> QED BY <2>3, <2>4, <2>5, <3>3, <3>4, <3>5 DEF PcOK
<2>8. MovedOK'
  BY <1>4, <2>1, <2>3 DEF MovedOK, IdeInv
<2>9. DmaOK'
  BY <2>5 DEF DmaOK
<2>10. /\ DOMAIN ideData' = DiskNames
       /\ \A disk \in DiskNames : ideData'[disk] \in [0 .. LastOf(disk) -> Nat]
       /\ ideLatch' \in [stale : BOOLEAN, fault : BOOLEAN]
       /\ ideDma' \in [mapped : BOOLEAN, running : BOOLEAN]
  BY <2>1 DEF IdeInv, IdeTypes
<2>11. ~ideLatch'.fault
  BY <2>1
<2> QED BY <1>1, <1>4, <2>1, <2>5, <2>6, <2>7, <2>8, <2>9, <2>10, <2>11, TransferGoesOn
<1> QED BY <1>5, <1>6

LEMMA IdeVerifyOK ==
    ASSUME IdeInv, IdeVerify
    PROVE  IdeInv'
<1>1. /\ idePc.at = "verify"
      /\ IF ideLatch.fault THEN Failed /\ UNCHANGED ideWrong ELSE NextCommand
      /\ UNCHANGED <<ideDevice, ideDisk, ideSense, ideData, ideDev, ideDma, ideLeft>>
  BY DEF IdeVerify
<1>2. ideDma = [mapped |-> FALSE, running |-> FALSE] /\ ~idePc.error /\ idePc.at \in Transfer
  BY <1>1, NotMapped
<1>3. ideLeft' \in [calls : Nat, changes : Nat, faults : Nat]
  BY <1>1 DEF IdeInv, IdeTypes
<1>4. CASE ideLatch.fault
  BY <1>1, <1>2, <1>3, <1>4, FailedOK
<1>5. CASE ~ideLatch.fault
  BY <1>1, <1>2, <1>5, NextCommandOK
<1> QED BY <1>4, <1>5

-----------------------------------------------------------------------------
(* The bus master.  Its steps are those of an ATA disk, whose faults are   *)
(* reset away before a command is sent.                                    *)

LEMMA UdmaParts ==
    ASSUME IdeInv, idePc.at \in UdmaSteps
    PROVE  /\ idePc.at \in Transfer /\ idePc.sent = 0 /\ ~ideLatch.fault
           /\ ideDev.type \in HardDisks /\ ideDisk \in DiskNames /\ ~ideUntold
           /\ idePc.want + idePc.blocks - 1 <= LastOf(ideDisk)
           /\ ideLatch \in [stale : BOOLEAN, fault : BOOLEAN]
           /\ DOMAIN ideData = DiskNames
           /\ \A disk \in DiskNames : ideData[disk] \in [0 .. LastOf(disk) -> Nat]
<1>1. idePc.at \in Transfer /\ idePc.at \notin {"sectors", "verify"}
  BY DEF Transfer, UdmaSteps
<1>2. idePc.sent = 0
  BY <1>1 DEF IdeInv, PcOK
<1>3. ideDev.type \in HardDisks
  BY DEF IdeInv, DeviceOK
<1>4. /\ ~ideLatch.fault /\ ideDisk # IdeNoDisk /\ ~ideUntold
  BY <1>1, <1>3 DEF IdeInv, DeviceOK
<1>5. idePc.want + idePc.blocks - 1 <= LastOf(ideDisk)
  BY <1>1, <1>3 DEF IdeInv, PcOK
<1> QED BY <1>1, <1>2, <1>3, <1>4, <1>5 DEF IdeInv, IdeTypes

(* A step from one place of a UDMA command to another, with the sectors    *)
(* moved so far the same.                                                  *)
LEMMA UdmaGoesOn ==
    ASSUME IdeInv, idePc.at \in UdmaSteps, NEW at, at \in UdmaSteps, IdeGoes(at), Stays,
           UNCHANGED <<ideDevice, ideDisk, ideSense, ideData, ideDev, ideWrong, ideLeft>>,
           ideDma' \in [mapped : BOOLEAN, running : BOOLEAN], DmaOK',
           idePc.error => at \in {"unmap", "stop"},
           idePc.at \in {"unmap", "stop"} <=> at \in {"unmap", "stop"}
    PROVE  IdeInv'
<1>1. /\ idePc' \in IdePcs /\ idePc'.at = at
      /\ UNCHANGED <<idePc.op, idePc.lba, idePc.blocks, idePc.want, idePc.left, idePc.sent,
                     idePc.done, idePc.late, idePc.error>>
  BY GoesOK DEF Transfer, IdeInv, IdeTypes
<1>2. UNCHANGED <<ideSeen, ideUntold, ideLatch>>
  BY DEF Stays
<1>3. at \in Transfer /\ at \notin {"sectors", "verify"}
  BY DEF Transfer, UdmaSteps
<1>4. /\ idePc.at \in Transfer /\ idePc.sent = 0 /\ ~ideLatch.fault /\ ideDev.type \in HardDisks
  BY UdmaParts
<1>5. SectorCount' = SectorCount
  BY <1>1 DEF SectorCount
<1>6. MovedNow' = MovedNow
<2>1. idePc.at \notin {"sectors", "verify"} /\ idePc'.at \notin {"sectors", "verify"}
  BY <1>1, <1>3 DEF UdmaSteps
<2> QED BY <1>1, <1>5, <2>1 DEF MovedNow
<1>7. PcOK'
<2>1. Len(idePc'.done) = idePc.lba - idePc.want + MovedNow'
  BY <1>1, <1>4, <1>6, TransferParts
<2>2. idePc'.sent <= SectorCount
  BY <1>1, <1>4, TransferParts
<2>3. idePc'.at # "sectors" /\ idePc'.sent = 0 /\ idePc'.at \in Transfer
  BY <1>1, <1>3, <1>4
<2>4. idePc'.error => idePc'.at \in {"unmap", "stop"}
  BY <1>1
<2> QED BY <1>1, <1>4, <2>1, <2>2, <2>3, <2>4, CommandGoesOn
<1>8. MovedOK'
  BY <1>1, <1>2 DEF MovedOK, Version, IdeInv
<1>9. /\ DOMAIN ideData' = DiskNames
      /\ \A disk \in DiskNames : ideData'[disk] \in [0 .. LastOf(disk) -> Nat]
      /\ ideLatch' \in [stale : BOOLEAN, fault : BOOLEAN]
      /\ ideLeft' \in [calls : Nat, changes : Nat, faults : Nat]
      /\ ~ideLatch'.fault
  BY <1>2, <1>4 DEF IdeInv, IdeTypes
<1> QED BY <1>1, <1>2, <1>3, <1>4, <1>7, <1>8, <1>9, TransferGoesOn

LEMMA DmaMapOK ==
    ASSUME IdeInv, DmaMap
    PROVE  IdeInv'
<1>1. /\ idePc.at = "map"
      /\ UNCHANGED <<ideDevice, ideDisk, ideSense, ideData, ideDev, ideWrong>>
  BY DEF DmaMap
<1>2. ideDma = [mapped |-> FALSE, running |-> FALSE] /\ ~idePc.error /\ idePc.at \in Transfer
  BY <1>1, NotMapped
<1>3. CASE IdeFine /\ Dma(TRUE, FALSE) /\ IdeGoes("issue") /\ Stays
<2>1. ideDma' = [mapped |-> TRUE, running |-> FALSE] /\ UNCHANGED ideLeft
  BY <1>3 DEF Dma, IdeFine
<2>2. idePc'.at = "issue"
  BY <1>3 DEF IdeGoes, IdeInv, IdeTypes, IdePcs
<2>3. DmaOK'
  BY <2>1, <2>2 DEF DmaOK
<2>4. ideDma' \in [mapped : BOOLEAN, running : BOOLEAN]
  BY <2>1
<2>5. idePc.at \in UdmaSteps /\ "issue" \in UdmaSteps
  BY <1>1 DEF UdmaSteps
<2> QED BY <1>1, <1>2, <1>3, <2>1, <2>3, <2>4, <2>5, UdmaGoesOn
<1>4. CASE IdeFault /\ UNCHANGED ideDma /\ Failed
  BY <1>1, <1>2, <1>4, LeftOK, FailedOK
<1> QED BY <1>3, <1>4 DEF DmaMap

LEMMA DmaIssueOK ==
    ASSUME IdeInv, DmaIssue
    PROVE  IdeInv'
<1>1. /\ idePc.at = "issue"
      /\ UNCHANGED <<ideDevice, ideDisk, ideSense, ideData, ideDev, ideWrong>>
  BY DEF DmaIssue
<1>2. idePc.at \in UdmaSteps /\ "dma" \in UdmaSteps /\ idePc.at \in Transfer /\ ~idePc.error
  BY <1>1 DEF UdmaSteps, Transfer, IdeInv, PcOK
<1>3. CASE (AtaCommandIssueExt \/ AtaCommandIssue) /\ Dma(TRUE, TRUE) /\ IdeGoes("dma") /\ Stays
<2>1. ideDma' = [mapped |-> TRUE, running |-> TRUE] /\ UNCHANGED ideLeft
  BY <1>3 DEF Dma, IdeFine, AtaCommandIssueExt, AtaCommandIssue
<2>2. idePc'.at = "dma"
  BY <1>3 DEF IdeGoes, IdeInv, IdeTypes, IdePcs
<2>3. DmaOK'
  BY <2>1, <2>2 DEF DmaOK
<2>4. ideDma' \in [mapped : BOOLEAN, running : BOOLEAN]
  BY <2>1
<2> QED BY <1>1, <1>2, <1>3, <2>1, <2>3, <2>4, UdmaGoesOn
<1>4. CASE IdeFault /\ Dma(FALSE, FALSE) /\ Failed
<2>1. ideDma' = [mapped |-> FALSE, running |-> FALSE]
  BY <1>4 DEF Dma
<2> QED BY <1>1, <1>2, <1>4, <2>1, LeftOK, FailedOK
<1> QED BY <1>3, <1>4 DEF DmaIssue

LEMMA DmaUnmapOK ==
    ASSUME IdeInv, DmaUnmap
    PROVE  IdeInv'
<1>1. /\ idePc.at = "unmap" /\ IdeGoes("stop")
      /\ UNCHANGED <<ideDevice, ideDisk, ideSense, ideLatch, ideData, ideDev, ideSeen, ideLeft,
                     ideUntold, ideWrong>>
      /\ ideDma' = [mapped |-> FALSE, running |-> ideDma.running]
  BY DEF DmaUnmap, ideHw, ideHist, Dma
<1>2. idePc'.at = "stop" /\ idePc'.late = idePc.late
  BY <1>1 DEF IdeGoes, IdeInv, IdeTypes, IdePcs
<1>3. ideDma' \in [mapped : BOOLEAN, running : BOOLEAN]
  BY <1>1 DEF IdeInv, IdeTypes
<1>4. DmaOK'
  BY <1>1, <1>2 DEF DmaOK, IdeInv
<1>5. idePc.at \in UdmaSteps /\ "stop" \in UdmaSteps
  BY <1>1 DEF UdmaSteps
<1> QED BY <1>1, <1>3, <1>4, <1>5, UdmaGoesOn DEF Stays

LEMMA DmaStopOK ==
    ASSUME IdeInv, DmaStop
    PROVE  IdeInv'
<1>1. /\ idePc.at = "stop" /\ ideDma' = [mapped |-> ideDma.mapped, running |-> FALSE]
      /\ IF idePc.error THEN Failed /\ UNCHANGED ideWrong ELSE NextCommand
      /\ UNCHANGED <<ideDevice, ideDisk, ideSense, ideData, ideDev, ideLeft>>
  BY DEF DmaStop, Dma
<1>2. idePc.at \in UdmaSteps /\ idePc.at \in Transfer
  BY <1>1 DEF UdmaSteps, Transfer
<1>3. ideDma' = [mapped |-> FALSE, running |-> FALSE]
  BY <1>1 DEF IdeInv, IdeTypes, DmaOK
<1>4. ~ideLatch.fault
  BY <1>2, UdmaParts
<1>5. ideLeft' \in [calls : Nat, changes : Nat, faults : Nat]
  BY <1>1 DEF IdeInv, IdeTypes
<1>6. CASE idePc.error
  BY <1>1, <1>2, <1>3, <1>5, <1>6, FailedOK
<1>7. CASE ~idePc.error
  BY <1>1, <1>3, <1>4, <1>7, NextCommandOK
<1> QED BY <1>6, <1>7

(* The end of a UDMA command: the sectors are there (taken), or the drive  *)
(* is too late or its error not seen, or nothing counts as moved.          *)
LEMMA DmaEndsOK ==
    ASSUME IdeInv, DmaEnds
    PROVE  IdeInv'
<1>1. /\ idePc.at = "dma"
      /\ UNCHANGED <<ideDevice, ideDisk, ideSense, ideLatch, ideDev, ideSeen, ideUntold, ideWrong>>
  BY DEF DmaEnds, ideHist
<1>2. idePc.at \in UdmaSteps /\ ~idePc.error
  BY <1>1 DEF UdmaSteps, IdeInv, PcOK
<1>3. /\ idePc.at \in Transfer /\ idePc.sent = 0 /\ ~ideLatch.fault
      /\ ideDev.type \in HardDisks /\ ideDisk \in DiskNames /\ ~ideUntold
      /\ idePc.want + idePc.blocks - 1 <= LastOf(ideDisk)
      /\ ideLatch \in [stale : BOOLEAN, fault : BOOLEAN]
      /\ DOMAIN ideData = DiskNames
      /\ \A disk \in DiskNames : ideData[disk] \in [0 .. LastOf(disk) -> Nat]
  BY <1>2, UdmaParts
<1>4. /\ idePc \in IdePcs /\ idePc.lba \in Nat /\ idePc.want \in Nat /\ idePc.blocks \in Nat
      /\ idePc.left \in 1 .. idePc.blocks /\ SectorCount \in 1 .. idePc.left
      /\ Len(idePc.done) \in Nat /\ idePc.done \in Seq(Sectors) /\ LastOf(ideDisk) \in Nat
      /\ idePc.lba + idePc.left = idePc.want + idePc.blocks
  BY <1>3, TransferParts
<1>5. Len(idePc.done) = idePc.lba - idePc.want
<2>1. MovedNow = 0
  BY <1>1 DEF MovedNow
<2> QED BY <1>3, <1>4, <2>1, TransferParts
<1>6. ideLeft' \in [calls : Nat, changes : Nat, faults : Nat] /\ Version' = Version
<2>1. IdeFine \/ IdeFault
  BY DEF DmaEnds
<2> QED BY <2>1, LeftOK DEF Version
<1>7. "unmap" \in Transfer /\ "unmap" \in UdmaSteps
  BY DEF Transfer, UdmaSteps
<1>8. ASSUME UNCHANGED <<idePc.op, idePc.lba, idePc.blocks, idePc.want, idePc.left, idePc.sent>>,
             idePc' \in IdePcs, idePc'.at = "unmap",
             Len(idePc'.done) = idePc.lba - idePc.want + (IF idePc'.error THEN 0 ELSE SectorCount),
             DOMAIN ideData' = DiskNames,
             \A disk \in DiskNames : ideData'[disk] \in [0 .. LastOf(disk) -> Nat],
             ideDma' \in [mapped : BOOLEAN, running : BOOLEAN],
             ideDma'.mapped, ideDma'.running => idePc'.late, MovedOK'
      PROVE  IdeInv'
<2>1. SectorCount' = SectorCount
  BY <1>8 DEF SectorCount
<2>2. MovedNow' = IF idePc'.error THEN 0 ELSE SectorCount
  BY <1>8, <2>1 DEF MovedNow
<2>3. idePc'.at \in Transfer /\ idePc'.at \in {"unmap", "stop"} /\ idePc'.at # "sectors"
  BY <1>7, <1>8
<2>4. idePc'.sent = 0 /\ idePc'.sent <= SectorCount
  BY <1>3, <1>4, <1>8
<2>5. PcOK'
  BY <1>1, <1>3, <1>8, <2>2, <2>3, <2>4, CommandGoesOn
<2>6. DmaOK'
  BY <1>8 DEF DmaOK
<2>7. ~ideLatch'.fault /\ ideLatch' \in [stale : BOOLEAN, fault : BOOLEAN]
  BY <1>1, <1>3
<2> QED BY <1>1, <1>3, <1>6, <1>8, <2>3, <2>5, <2>6, <2>7, TransferGoesOn
<1>9. CASE /\ Dma(TRUE, FALSE) /\ IdeMoves(SectorCount)
           /\ idePc' = [idePc EXCEPT !.done = @ \o Taken(SectorCount), !.at = "unmap"]
<2>1. ideDma' = [mapped |-> TRUE, running |-> FALSE]
  BY <1>9 DEF Dma
<2>2. /\ idePc'.done = idePc.done \o Taken(SectorCount) /\ idePc'.at = "unmap"
      /\ idePc' = [idePc EXCEPT !.done = idePc'.done, !.at = "unmap"]
      /\ UNCHANGED <<idePc.op, idePc.lba, idePc.blocks, idePc.want, idePc.left, idePc.sent,
                     idePc.late, idePc.error>>
  BY <1>4, <1>9 DEF IdePcs
<2>3. PICK n \in Nat \ {0} : n = SectorCount /\ n <= idePc.left
  BY <1>4
<2>4. Block = idePc.want + Len(idePc.done) /\ Block = idePc.lba
<3>1. Block = idePc.lba
  BY <1>3, <1>4 DEF Block
<3> QED BY <1>4, <1>5, <3>1
<2>5. Block + n - 1 <= LastOf(ideDisk)
<3>1. (idePc.lba + idePc.left) - 1 <= LastOf(ideDisk)
<4>1. (idePc.want + idePc.blocks) - 1 <= LastOf(ideDisk)
  BY <1>3, <1>4
<4> QED BY <1>4, <4>1, Zenon
<3>2. PICK f \in Nat : f = idePc.left
  BY <1>4
<3>3. idePc.lba + n - 1 <= LastOf(ideDisk)
  BY <1>4, <2>3, <3>1, <3>2
<3> QED BY <2>4, <3>3
<2>6. idePc'.done = idePc.done \o Taken(n) /\ IdeMoves(n) /\ ideLatch'.fault = ideLatch.fault
  BY <1>1, <1>9, <2>2, <2>3
<2>7. /\ MovedOK' /\ DOMAIN ideData' = DiskNames
      /\ \A disk \in DiskNames : ideData'[disk] \in [0 .. LastOf(disk) -> Nat]
      /\ idePc'.done \in Seq(Sectors) /\ Len(idePc'.done) = Len(idePc.done) + n
  BY <1>3, <1>6, <2>2, <2>3, <2>4, <2>5, <2>6, SectorsMoved
<2>8. idePc' \in IdePcs
  BY <1>4, <1>7, <2>2, <2>7 DEF IdePcs
<2>9. Len(idePc'.done) = idePc.lba - idePc.want + (IF idePc'.error THEN 0 ELSE SectorCount)
  BY <1>2, <1>5, <2>2, <2>3, <2>7
<2>10. /\ ideDma' \in [mapped : BOOLEAN, running : BOOLEAN] /\ ideDma'.mapped
       /\ ideDma'.running => idePc'.late
  BY <2>1
<2> QED BY <1>8, <2>2, <2>7, <2>8, <2>9, <2>10
<1>10. CASE /\ UNCHANGED ideData
            /\ \/ Dma(TRUE, FALSE) /\ idePc' = [idePc EXCEPT !.at = "unmap", !.error = TRUE]
               \/ /\ Dma(TRUE, TRUE)
                  /\ idePc' = [idePc EXCEPT !.at = "unmap", !.error = TRUE, !.late = TRUE]
<2>1. /\ idePc' \in IdePcs /\ idePc'.at = "unmap" /\ idePc'.error
      /\ idePc.late => idePc'.late
      /\ UNCHANGED <<idePc.op, idePc.lba, idePc.blocks, idePc.want, idePc.left, idePc.sent,
                     idePc.done>>
<3>1. "unmap" \in {"idle", "check"} \cup Setup \cup Detecting \cup Transfer
  BY <1>7
<3>2. CASE idePc' = [idePc EXCEPT !.at = "unmap", !.error = TRUE]
  BY <1>4, <3>1, <3>2 DEF IdePcs
<3>3. CASE idePc' = [idePc EXCEPT !.at = "unmap", !.error = TRUE, !.late = TRUE]
  BY <1>4, <3>1, <3>3 DEF IdePcs
<3> QED BY <1>10, <3>2, <3>3
<2>2. /\ ideDma' \in [mapped : BOOLEAN, running : BOOLEAN] /\ ideDma'.mapped
<3>1. \/ ideDma' = [mapped |-> TRUE, running |-> FALSE]
      \/ ideDma' = [mapped |-> TRUE, running |-> TRUE]
  BY <1>10 DEF Dma
<3>2. CASE ideDma' = [mapped |-> TRUE, running |-> FALSE]
  BY <3>2
<3>3. CASE ideDma' = [mapped |-> TRUE, running |-> TRUE]
  BY <3>3
<3> QED BY <3>1, <3>2, <3>3
<2>3. ideDma'.running => idePc'.late
<3>1. CASE Dma(TRUE, FALSE)
<4>1. ideDma' = [mapped |-> TRUE, running |-> FALSE]
  BY <3>1 DEF Dma
<4> QED BY <4>1
<3>2. CASE idePc' = [idePc EXCEPT !.at = "unmap", !.error = TRUE, !.late = TRUE]
  BY <1>4, <3>2 DEF IdePcs
<3> QED BY <1>10, <3>1, <3>2
<2>4. MovedOK'
<3>1. ~idePc'.late => ~idePc.late
  BY <2>1
<3> QED BY <1>1, <1>6, <1>10, <2>1, <3>1 DEF MovedOK, IdeInv
<2>5. Len(idePc'.done) = idePc.lba - idePc.want + (IF idePc'.error THEN 0 ELSE SectorCount)
  BY <1>4, <1>5, <2>1
<2>6. /\ DOMAIN ideData' = DiskNames
      /\ \A disk \in DiskNames : ideData'[disk] \in [0 .. LastOf(disk) -> Nat]
  BY <1>3, <1>10
<2> QED BY <1>8, <2>1, <2>2, <2>3, <2>4, <2>5, <2>6
<1>11. CASE /\ UNCHANGED ideData /\ Dma(TRUE, FALSE)
            /\ idePc' = [idePc EXCEPT !.at = "unmap", !.late = TRUE,
                                 !.done = @ \o [i \in 1..SectorCount |-> NoSector]]
<2> DEFINE none == [i \in 1 .. SectorCount |-> NoSector]
<2>1. none \in Seq(Sectors) /\ Len(none) = SectorCount
<3>1. SectorCount \in Nat
  BY <1>4
<3> QED BY <3>1, NoSectorsOK
<2>2. /\ idePc'.done = idePc.done \o none /\ idePc'.at = "unmap" /\ idePc'.late = TRUE
      /\ idePc' = [idePc EXCEPT !.at = "unmap", !.late = TRUE, !.done = idePc'.done]
      /\ UNCHANGED <<idePc.op, idePc.lba, idePc.blocks, idePc.want, idePc.left, idePc.sent,
                     idePc.error>>
  BY <1>4, <1>11 DEF IdePcs
<2> HIDE DEF none
<2>3. idePc'.done \in Seq(Sectors) /\ Len(idePc'.done) = Len(idePc.done) + SectorCount
<3>1. \A s, t \in Seq(Sectors) : s \o t \in Seq(Sectors) /\ Len(s \o t) = Len(s) + Len(t)
  BY Joined, Zenon
<3>2. /\ idePc.done \o none \in Seq(Sectors)
      /\ Len(idePc.done \o none) = Len(idePc.done) + Len(none)
  BY <1>4, <2>1, <3>1, Zenon
<3> QED BY <2>1, <2>2, <3>2, Zenon
<2>4. idePc' \in IdePcs
  BY <1>4, <1>7, <2>2, <2>3 DEF IdePcs
<2>5. MovedOK'
  BY <2>2 DEF MovedOK
<2>6. Len(idePc'.done) = idePc.lba - idePc.want + (IF idePc'.error THEN 0 ELSE SectorCount)
  BY <1>2, <1>5, <2>2, <2>3
<2>7. /\ ideDma' \in [mapped : BOOLEAN, running : BOOLEAN] /\ ideDma'.mapped
      /\ ideDma'.running => idePc'.late
  BY <1>11, <2>2 DEF Dma
<2>8. /\ DOMAIN ideData' = DiskNames
      /\ \A disk \in DiskNames : ideData'[disk] \in [0 .. LastOf(disk) -> Nat]
  BY <1>3, <1>11
<2> QED BY <1>8, <2>2, <2>4, <2>5, <2>6, <2>7, <2>8
<1> QED BY <1>9, <1>10, <1>11 DEF DmaEnds

-----------------------------------------------------------------------------
(* The theorem. *)

LEMMA IdeStep == IdeInv /\ [IdeNext]_ideVars => IdeInv'
<1> SUFFICES ASSUME IdeInv, [IdeNext]_ideVars PROVE IdeInv'
  OBVIOUS
<1>1. ASSUME NEW disk \in DiskNames \cup {IdeNoDisk}, IdeChange(disk) PROVE IdeInv'
  BY <1>1, IdeChangeOK
<1>2. ASSUME NEW c \in IdeCalls, IdeCall(c) PROVE IdeInv'
  BY <1>2, IdeCallOK
<1>3. CASE DetectIDEController \/ DiscoverIdeDevice \/ SetDeviceTransferMode
  BY <1>3, DetectOK, DiscoverOK, SetModeOK
<1>4. CASE IDEBlkIoReset \/ ClearInterrupt \/ AtaBlkIo
  BY <1>4, IdeResetOK, AtaBlkIoOK
<1>5. CASE \/ AtapiTestUnitReady \/ AtapiReadCapacity \/ AtapiNotReady \/ AtapiDetectFails
           \/ Detected
  BY <1>5, TestUnitReadyOK, ReadCapacityOK, NotReadyOK, DetectFailsOK, DetectedOK
<1>6. CASE IdeCommand \/ IdeSector \/ IdeLate \/ IdeVerify
  BY <1>6, IdeCommandOK, IdeSectorOK, IdeLateOK, IdeVerifyOK
<1>7. CASE DmaMap \/ DmaIssue \/ DmaEnds \/ DmaUnmap \/ DmaStop
  BY <1>7, DmaMapOK, DmaIssueOK, DmaEndsOK, DmaUnmapOK, DmaStopOK
<1>8. CASE UNCHANGED ideVars
<2>1. UNCHANGED <<ideDevice, ideDisk, ideSense, ideLatch, ideData, ideDev, ideDma, idePc, ideSeen,
                  ideLeft, ideUntold, ideWrong>>
  BY <1>8 DEF ideVars, ideHw, ideHist
<2>2. IdeTypes' /\ DeviceOK'
  BY <2>1 DEF IdeInv, IdeTypes, DeviceOK
<2>3. PcOK'
<3>1. SectorCount' = SectorCount /\ MovedNow' = MovedNow
  BY <2>1 DEF SectorCount, MovedNow
<3> QED BY <2>1, <3>1 DEF IdeInv, PcOK
<2>4. MovedOK' /\ DmaOK'
  BY <2>1 DEF IdeInv, MovedOK, DmaOK, Version
<2>5. ToldOK'
  BY <2>1 DEF IdeInv, ToldOK, Unasked
<2> QED BY <2>1, <2>2, <2>3, <2>4, <2>5 DEF IdeInv
<1> QED BY <1>1, <1>2, <1>3, <1>4, <1>5, <1>6, <1>7, <1>8 DEF IdeNext, DiskNames

LEMMA IdeInvImplies == IdeInv => IdeTypeOK /\ IdeTransfersTrue
<1> SUFFICES ASSUME IdeInv PROVE IdeTypeOK /\ IdeTransfersTrue
  OBVIOUS
<1>1. idePc \in IdePcs /\ idePc.at \in {"idle", "check"} \cup Setup \cup Detecting \cup Transfer
  BY DEF IdeInv, IdeTypes, IdePcs
<1>2. idePc.blocks \in Nat /\ Len(idePc.done) \in Nat
  BY <1>1, LenProperties DEF IdePcs
<1>3. idePc.sent \in 0 .. IdeMaxSectors /\ Len(idePc.done) <= idePc.blocks
<2>1. CASE idePc.at \in Transfer
<3>1. /\ idePc.lba \in Nat /\ idePc.blocks \in Nat /\ idePc.want \in Nat
      /\ idePc.left \in 1 .. idePc.blocks /\ idePc.sent \in Nat
      /\ SectorCount \in 1 .. idePc.left /\ SectorCount <= IdeMaxSectors
      /\ idePc.lba + idePc.left = idePc.want + idePc.blocks
      /\ Len(idePc.done) = idePc.lba - idePc.want + MovedNow
      /\ idePc.sent <= SectorCount
  BY <2>1, TransferParts
<3>2. MovedNow \in Nat /\ MovedNow <= SectorCount
  BY <2>1, <3>1 DEF MovedNow
<3>3. PICK l, w, b, f, m \in Nat : /\ l = idePc.lba /\ w = idePc.want /\ b = idePc.blocks
                                   /\ f = idePc.left /\ m = MovedNow
  BY <3>1, <3>2
<3>4. l + f = w + b /\ m <= f
  BY <3>1, <3>2, <3>3
<3>5. l - w + m <= b
  BY <3>4
<3>6. Len(idePc.done) = l - w + m
  BY <3>1, <3>3
<3>7. Len(idePc.done) <= idePc.blocks
  BY <3>3, <3>5, <3>6, Zenon
<3>8. idePc.sent \in 0 .. IdeMaxSectors
<4>1. PICK c \in Nat, n \in Nat : c = SectorCount /\ n = idePc.sent
  BY <3>1
<4>2. n <= c /\ c <= IdeMaxSectors
  BY <3>1, <4>1, Zenon
<4> QED BY <4>1, <4>2, IdeSizes
<3> QED BY <3>7, <3>8, Zenon
<2>2. CASE idePc.at \notin Transfer
<3>1. idePc.done = <<>> /\ idePc.sent = 0
  BY <1>1, <2>2 DEF IdeInv, PcOK, IdeIdle
<3> QED BY <1>2, <3>1, IdeSizes
<2> QED BY <2>1, <2>2
<1>4. IdeTypeOK
<2>1. idePc.at # "idle" \/ idePc.tries = 0
  BY DEF IdeInv, PcOK, IdeIdle
<2>2. /\ ideDisk \in DOMAIN IdeDisks \cup {IdeNoDisk}
      /\ ideLatch \in [stale : BOOLEAN, fault : BOOLEAN]
      /\ ideDev.type \in HardDisks \cup {"IdeCdRom", "IdeMagnetic", "IdeUnknown"}
      /\ ideDev.media.id \in Nat /\ ideSeen \in Nat
  BY DEF IdeInv, IdeTypes, DiskNames, DevTypes, MediaInfos
<2> QED BY <1>3, <2>1, <2>2 DEF IdeTypeOK
<1>5. IdeTransfersTrue
  BY DEF IdeInv, IdeTypes, DmaOK, IdeTransfersTrue
<1> QED BY <1>4, <1>5

(* Whatever the sizes of the disks, the calls and the commands, and        *)
(* however often the disk of a drive is changed and a command fails: a     *)
(* transfer that the driver reports as done has moved every sector asked   *)
(* for, the right one, of a medium that its caller was told of, but for a  *)
(* device that was too late or whose error the bus master does not see;    *)
(* and the bus master never runs on memory that was given back, but when   *)
(* the driver gave up waiting for it.  (IdeBus.c, Ata.c, Atapi.c, Ide.c)   *)
THEOREM IdeSafe == IdeSpec => [](IdeTypeOK /\ IdeTransfersTrue)
<1>1. IdeInit => IdeInv
  BY IdeInitOK
<1>2. IdeInv /\ [IdeNext]_ideVars => IdeInv'
  BY IdeStep
<1>3. IdeInv => IdeTypeOK /\ IdeTransfersTrue
  BY IdeInvImplies
<1> QED BY <1>1, <1>2, <1>3, PTL DEF IdeSpec
=============================================================================
