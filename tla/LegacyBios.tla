----------------------------- MODULE LegacyBios -----------------------------
(***************************************************************************)
(* LegacyBiosDxe: a 16-bit BIOS (CSM) below 1 MB, the option ROMs of PCI    *)
(* devices shadowed beside it, and the boot of an operating system through  *)
(* it.  The calls run one at a time, but they nest: to install a ROM the    *)
(* VGA ROM is installed first, by connecting a thunk driver, which calls    *)
(* back to install its own ROM.  The stack of calls is lbFrames; the last   *)
(* frame moves, and the one below it reads the status left to it.           *)
(* Addresses of ROMs count from C0000, addresses of memory from 0, each in  *)
(* units of its own.                                                        *)
(***************************************************************************)
EXTENDS Integers, SequencesExt

CONSTANTS
    LbDevices,    \* PCI devices: name -> [display, line, images, boots]
    LbVga,        \* the handle the platform names for VGA
    LbCsm3,       \* the CSM has the PCI 3.0 interface
    LbMaxRom,     \* end of the space for ROMs: UmaAddress or PcdEndOpromShadowAddress
    LbMaxEntries, \* ROM_MAX_ENTRIES
    LbBbsMax,     \* entries of the BBS table
    LbMaps,       \* memory maps: [entries, hobs]
    LbSmbios,     \* sizes an SMBIOS table may have, in pages
    LbBudgets     \* bounds: calls, boots, tables, faults

VARIABLES
    lbFrames,     \* the calls that run
    lbStatus,     \* what the last call returned
    lbRegion,     \* segments that are unlocked (writable)
    lbMem,        \* whose code is at each address of the space for ROMs
    lbOption,     \* Private->OptionRom
    lbRoms,       \* mRomEntry
    lbBbs,        \* the BBS table and NumberBbsEntries
    lbVideo,      \* VgaInstalled, mVgaInstallationInProgress, the driver
    lbIrq,        \* PciInterruptLine, mHandleCount, devices with a line
    lbFlags,      \* installed, LegacyBootEntered, mBbsTableDoneFlag
    lbE820,       \* the memory map, the E820 table, OsMemoryAbove1Mb
    lbTable,      \* SMBIOS: its size, and what is reserved for it
    lbLeft,       \* what is left of the budget
    lbEarly,      \* history: devices whose ROM ran before they had a line
    lbBroken      \* history: the last boot, or the start, was given up

lbVars == <<lbFrames, lbStatus, lbRegion, lbMem, lbOption, lbRoms, lbBbs, lbVideo, lbIrq,
            lbFlags, lbE820, lbTable, lbLeft, lbEarly, lbBroken>>
lbRomVars == <<lbMem, lbOption, lbRoms, lbEarly>>
lbBootVars == <<lbBbs, lbFlags, lbE820, lbTable, lbBroken>>

NoDevice == "none"
PciDevices == DOMAIN LbDevices
LegacyRegion == {"C", "E"}  \* C0000..DFFFF and E0000..FFFFF
UnLocks(segments) == lbRegion' = lbRegion \cup segments
LocksAgain(segments) == lbRegion' = lbRegion \ segments
LbFault == lbLeft.faults > 0 /\ lbLeft' = [lbLeft EXCEPT !.faults = @ - 1]
LbFine == UNCHANGED lbLeft

Frame(op, at, dev, todo) == [op |-> op, at |-> at, dev |-> dev, todo |-> todo]
Top == Last(lbFrames)
Runs(op, at) == lbFrames # <<>> /\ Top.op = op /\ Top.at = at
TopAt(at) == [Top EXCEPT !.at = at]
Replaced(frame) == [lbFrames EXCEPT ![Len(lbFrames)] = frame]
GoesOn(frame) == lbFrames' = Replaced(frame) /\ UNCHANGED lbStatus
Enters(frame, callee) == lbFrames' = Append(Replaced(frame), callee) /\ UNCHANGED lbStatus
CallEnds(status) == lbFrames' = Front(lbFrames) /\ lbStatus' = status

IgnoreEntry == [dev |-> NoDevice, prio |-> "BBS_IGNORE_ENTRY"]
Floppy == 0  \* the BBS entries of the floppy and of the IDE drives
IdeDrive == 1

LbInit ==
    /\ lbFrames = <<>> /\ lbStatus = "EFI_SUCCESS"
    /\ lbRegion = {}
    /\ lbMem = [a \in 0..(LbMaxRom - 1) |-> NoDevice]
    /\ lbOption = 0
    /\ lbRoms = <<>>
    /\ lbBbs = [n |-> 0, table |-> [i \in 0..(LbBbsMax - 1) |-> IgnoreEntry]]
    /\ lbVideo = [installed |-> FALSE, progress |-> FALSE, driver |-> "efi"]
    /\ lbIrq = [pirq |-> FALSE, count |-> 0, lines |-> {}]
    /\ lbFlags = [installed |-> FALSE, entered |-> FALSE, bbsDone |-> FALSE]
    /\ lbE820 = [map |-> CHOOSE m \in LbMaps : TRUE, table |-> <<>>, above |-> 0]
    /\ lbTable = [size |-> 0, entry |-> FALSE, pages |-> 0]
    /\ lbLeft \in LbBudgets
    /\ lbEarly = {} /\ lbBroken = FALSE

----------------------------------------------------------------------------
(* LegacyBiosBuildE820.  Memory is counted so that 1 MB is MB1; the first   *)
(* three entries stand for what is below it.                                *)
MB1 == 8
Ebda == 4      \* from the BDA
Conventional640K == 5
E0000 == 7
E820(base, len, type) == [base |-> base, len |-> len, type |-> type]
E820End(e) == e.base + e.len
Below1MB == <<E820(0, Ebda, "memory"), E820(Ebda, Conventional640K - Ebda, "reserved"),
              E820(E0000, MB1 - E0000, "reserved")>>
EfiMemoryTypeToE820Type(type) ==
    CASE type \in {"LoaderCode", "LoaderData", "BootServicesCode", "BootServicesData",
                   "Conventional", "RuntimeServicesCode", "RuntimeServicesData"} -> "memory"
      [] type = "ACPIReclaim" -> "acpi"
      [] type = "ACPIMemoryNVS" -> "nvs"
      [] type = "Persistent" -> "persistent"
      [] OTHER -> "reserved"
ByBase(table) == SortSeq(table, LAMBDA a, b : a.base < b.base)
Clipped(e) == IF e.base >= MB1 THEN e ELSE E820(MB1, e.len - (MB1 - e.base), e.type)
AddAnyType(table, e) ==
    LET last == Last(table)
        new == [Clipped(e) EXCEPT !.type = EfiMemoryTypeToE820Type(e.type)]
    IN  IF E820End(e) < MB1 THEN table
        ELSE IF new.base = E820End(last)
        THEN Front(table) \o <<[last EXCEPT !.len = @ + new.len]>>
        ELSE Append(table, new)
AddDescriptor(table, e) ==
    LET last == Last(table)
        new == [Clipped(e) EXCEPT !.type = EfiMemoryTypeToE820Type(e.type)]
    IN  IF E820End(e) < MB1 THEN table
        ELSE IF last.type = new.type /\ new.base = E820End(last)
        THEN Front(table) \o <<[last EXCEPT !.len = @ + new.len]>>
        ELSE Append(table, new)
ResourceHobs(map) ==
    [i \in DOMAIN map.hobs |-> [map.hobs[i] EXCEPT !.type = "reserved"]]
AboveMB1(hobs) == SelectSeq(hobs, LAMBDA h : h.base > MB1)
AddDescriptors(entries) ==
    LET add[n \in 0..Len(entries)] ==
            IF n = 0 THEN Below1MB ELSE AddDescriptor(add[n - 1], entries[n])
    IN  add[Len(entries)]
\* An entry inside the one before it is dropped; its successor is not compared.
DropStep(t, i) == IF i <= Len(t) /\ E820End(t[i - 1]) >= E820End(t[i]) THEN RemoveAt(t, i) ELSE t
DropCovered(table) ==
    LET drop[i \in 1..(Len(table) + 1)] == IF i = 1 THEN table ELSE DropStep(drop[i - 1], i)
    IN  drop[Len(table) + 1]
E820Table(map) ==
    DropCovered(ByBase(AddDescriptors(ByBase(map.entries)) \o AboveMB1(ResourceHobs(map))))
\* OsMemoryAbove1Mb: entries of memory up to the first that is not.
OsMemoryAbove1Mb(table) ==
    LET high == SelectSeq(table, LAMBDA e : e.base >= MB1)
        sum[n \in 0..Len(high)] ==
            IF n = 0 \/ \E i \in 1..n : high[i].type \notin {"memory", "acpi"}
            THEN IF n = 0 THEN 0 ELSE sum[n - 1]
            ELSE sum[n - 1] + high[n].len
    IN  sum[Len(high)]
E820Of == [map \in LbMaps |-> E820Table(map)]
LegacyBiosBuildE820(map) ==
    lbE820' = [map |-> map, table |-> E820Of[map], above |-> OsMemoryAbove1Mb(E820Of[map])]

----------------------------------------------------------------------------
(* LegacyBiosInstall: ShadowAndStartLegacy16 copies the CSM and starts it.  *)
(* When there is no table in it, or it does not start, nothing is installed *)
(* and the region stays unlocked.  SMBIOS is looked up at the end.          *)
ShadowAndStartLegacy16 ==
    /\ ~lbFlags.installed /\ ~lbBroken
    /\ \/ /\ LbFine
          /\ lbFlags' = [lbFlags EXCEPT !.installed = TRUE]
          /\ LegacyBiosBuildE820(lbE820.map)
          /\ lbBbs' = [lbBbs EXCEPT !.n = 2, !.table[Floppy].dev = "floppy",
                           !.table[IdeDrive].dev = "ide"]
          /\ UNCHANGED <<lbRegion, lbBroken>>
       \/ /\ LbFault
          /\ UnLocks(LegacyRegion) /\ lbBroken' = TRUE
          /\ UNCHANGED <<lbFlags, lbE820, lbBbs>>
    /\ UNCHANGED <<lbFrames, lbStatus, lbMem, lbOption, lbRoms, lbVideo, lbIrq, lbTable, lbEarly>>

(* A table of another size is installed, and InstallSmbiosEventCallback     *)
(* reserves memory for a copy of it, or gives back what it has.             *)
Reserved(size) ==
    IF lbTable.pages >= size /\ lbTable.pages > 0
    THEN lbTable' = [lbTable EXCEPT !.size = size, !.entry = TRUE] /\ LbFine
    ELSE \/ lbTable' = [size |-> size, entry |-> TRUE, pages |-> size] /\ LbFine
         \/ lbTable' = [size |-> size, entry |-> FALSE, pages |-> 0] /\ LbFault
InstallSmbiosEventCallback(size) ==
    /\ lbFlags.installed /\ lbLeft.tables > 0
    /\ \/ Reserved(size)
       \/ /\ ~lbTable.entry /\ LbFault          \* no memory for the entry point
          /\ lbTable' = [lbTable EXCEPT !.size = size]
    /\ UNCHANGED <<lbFrames, lbStatus, lbRegion, lbRomVars, lbBbs, lbVideo, lbIrq, lbFlags, lbE820,
                   lbBroken>>

----------------------------------------------------------------------------
(* Calls from outside.                                                      *)
Idle16 == lbFlags.installed /\ lbFrames = <<>>
CalledIn == Idle16 /\ lbLeft.calls > 0 /\ lbLeft' = [lbLeft EXCEPT !.calls = @ - 1]
BeginsCall(frame) == lbFrames' = <<frame>> /\ UNCHANGED lbStatus
CallInstallPciRom(d) ==
    /\ CalledIn /\ BeginsCall(Frame("rom", "begin", d, <<>>))
    /\ UNCHANGED <<lbRegion, lbRomVars, lbVideo, lbIrq, lbBootVars>>

(* PciProgramAllInterruptLineRegisters.  While VGA is installed only its    *)
(* line is programmed.  When a device was programmed mHandleCount is 0      *)
(* again, so the next call starts anew.                                     *)
CopyPirqTable == [lbIrq EXCEPT !.pirq = TRUE, !.count = 0]
TableCopied == IF lbIrq.pirq THEN lbIrq ELSE CopyPirqTable
ProgrammedDevices == IF lbVideo.progress THEN {LbVga} ELSE PciDevices
\* TranslateBusPirq leads each line to a PIRQ; WritePirq and 8259 follow.
WithLine(devices) == {d \in devices : LbDevices[d].line}
IrqLeftCounted(irq) == [irq EXCEPT !.count = Cardinality(PciDevices), !.lines = @ \cup
                            WithLine(ProgrammedDevices)]
IrqProgrammed(irq) ==
    [irq EXCEPT !.count = IF ProgrammedDevices = {} THEN Cardinality(PciDevices) ELSE 0,
                !.lines = @ \cup WithLine(ProgrammedDevices)]
Programmed ==
    IF TableCopied.count = Cardinality(PciDevices) THEN TableCopied ELSE IrqProgrammed(TableCopied)
PciProgramAllInterruptLineRegisters == lbIrq' = Programmed

ShadowAllLegacyOproms ==
    /\ CalledIn /\ BeginsCall(Frame("shadow", "begin", NoDevice, <<>>))
    /\ PciProgramAllInterruptLineRegisters
    /\ UNCHANGED <<lbRegion, lbRomVars, lbVideo, lbBootVars>>

----------------------------------------------------------------------------
(* InstallPciRom: VGA first, then the ROM of the device.                    *)
IsLegacyRom(d) == \E i \in DOMAIN lbRoms : lbRoms[i].dev = d
VgaProgress(progress) == lbVideo' = [lbVideo EXCEPT !.progress = progress]
RomAnswers(status) == VgaProgress(FALSE) /\ CallEnds(status)
\* The entry of the device gives its parameters.
GetShadowedRomParameters == IsLegacyRom(Top.dev)

(* GetPciLegacyRom: the first image of the revision the CSM is made for,    *)
(* else the last one of another.                                            *)
MatchingImages(d) == SelectSeq(LbDevices[d].images, LAMBDA i : i.pcat)
GetPciLegacyRom(d) ==
    LET best == SelectSeq(MatchingImages(d), LAMBDA i : i.rev3 = LbCsm3)
    IN  IF best # <<>> THEN Head(best) ELSE Last(MatchingImages(d))
LegacyBiosCheckPciRomEx(d) == MatchingImages(d) # <<>>

RomBegin ==
    LET d == Top.dev
    IN  /\ Runs("rom", "begin")
        /\ IF ~lbVideo.installed /\ d # LbVga
           THEN /\ VgaProgress(TRUE)
                /\ Enters(TopAt("vga"), Frame("vga", "open", NoDevice, <<>>))
           ELSE /\ VgaProgress(lbVideo.progress \/ (LbDevices[d].display /\ ~lbVideo.installed))
                /\ GoesOn(TopAt("check"))
        /\ UNCHANGED <<lbRegion, lbRomVars, lbIrq, lbLeft, lbBootVars>>
RomVgaDone ==
    /\ Runs("rom", "vga")
    /\ CASE lbStatus = "EFI_SUCCESS" -> VgaProgress(FALSE) /\ GoesOn(TopAt("check"))
         [] lbStatus = "EFI_NOT_FOUND" -> UNCHANGED lbVideo /\ GoesOn(TopAt("check"))
         [] OTHER -> RomAnswers(lbStatus)
    /\ UNCHANGED <<lbRegion, lbRomVars, lbIrq, lbLeft, lbBootVars>>
RomCheck ==
    /\ Runs("rom", "check")
    /\ IF GetShadowedRomParameters THEN RomAnswers("EFI_SUCCESS")
       ELSE IF ~LegacyBiosCheckPciRomEx(Top.dev) THEN RomAnswers("EFI_UNSUPPORTED")
       ELSE GoesOn(TopAt("copy")) /\ UNCHANGED lbVideo
    /\ UNCHANGED <<lbRegion, lbRomVars, lbIrq, lbLeft, lbBootVars>>

(* LegacyBiosInstallRom.  An image of PCI 3.0 is initialised in memory below*)
(* 640 KB and leaves its runtime part at OptionRom; an older one is         *)
(* initialised in place, at the next 2 KB.                                  *)
PciStartAddress(x) == x + (x % 2)
Pci3(image) == image.rev3 /\ LbCsm3
RuntimeAddress(image) == IF Pci3(image) THEN lbOption ELSE PciStartAddress(lbOption)
SpaceNeeded(image) == IF Pci3(image) THEN image.runtime ELSE image.size
Fits(image) == RuntimeAddress(image) + SpaceNeeded(image) <= LbMaxRom
Filled(mem, first, n, code) ==
    [a \in DOMAIN mem |-> IF a \in first..(first + n - 1) THEN code ELSE mem[a]]
RomCopy ==
    LET image == GetPciLegacyRom(Top.dev)
    IN  /\ Runs("rom", "copy")
        /\ PciProgramAllInterruptLineRegisters
        /\ \/ /\ Fits(image) /\ LbFine
              /\ UnLocks(LegacyRegion)
              /\ lbMem' = IF Pci3(image) THEN lbMem
                          ELSE Filled(lbMem, RuntimeAddress(image), image.size, Top.dev)
              /\ GoesOn(TopAt("dispatch")) /\ UNCHANGED lbVideo
           \/ /\ IF Fits(image) THEN Pci3(image) /\ LbFault ELSE LbFine
              /\ RomAnswers("EFI_OUT_OF_RESOURCES")
              /\ UNCHANGED <<lbRegion, lbMem>>
        /\ UNCHANGED <<lbOption, lbRoms, lbEarly, lbBootVars>>

(* UpdateBevBcvTable: the boot entries of the ROM follow those there are.   *)
BbsEntry(d) == [dev |-> d, prio |-> "BBS_UNPRIORITIZED_ENTRY"]
UpdateBevBcvTable(d) ==
    LET last == lbBbs.n + LbDevices[d].boots
    IN  [n |-> last,
         table |-> [i \in DOMAIN lbBbs.table |->
                       IF i \in lbBbs.n..(last - 1) THEN BbsEntry(d)
                       ELSE IF i = last THEN IgnoreEntry ELSE lbBbs.table[i]]]
RomShadow(d, first, n) ==
    IF Len(lbRoms) >= LbMaxEntries THEN lbRoms
    ELSE Append(lbRoms, [dev |-> d, first |-> first, size |-> n])
PlatformRefuses ==   \* EfiPlatformHookPrepareToScanRom
    /\ LbFault
    /\ RomAnswers("EFI_UNSUPPORTED")
    /\ UNCHANGED <<lbRomVars, lbBbs>>

(* Legacy16DispatchOprom: the ROM runs and says how much of it stays; it    *)
(* may enter itself in the BBS table.                                       *)
Dispatched(d, image, n) ==
    LET first == RuntimeAddress(image)
        rest == Filled(lbMem, first, n, d)
    IN  /\ LbFine
        /\ lbMem' = IF Pci3(image) THEN rest
                    ELSE Filled(rest, first + n, image.size - n, NoDevice)
        /\ lbRoms' = RomShadow(d, first, n)
        /\ lbOption' = first + n
        /\ lbBbs' = IF n # 0 THEN UpdateBevBcvTable(d) ELSE lbBbs
        /\ lbEarly' = IF LbDevices[d].line /\ d \notin lbIrq.lines /\ ~lbVideo.progress
                      THEN lbEarly \cup {d} ELSE lbEarly
        /\ RomAnswers("EFI_SUCCESS")
RomDispatch ==
    LET d == Top.dev
        image == GetPciLegacyRom(d)
    IN  /\ Runs("rom", "dispatch")
        /\ \/ PlatformRefuses
           \/ \E n \in 0..image.runtime : Dispatched(d, image, n)
        /\ LocksAgain(LegacyRegion)
        /\ UNCHANGED <<lbIrq, lbFlags, lbE820, lbTable, lbBroken>>

----------------------------------------------------------------------------
(* LegacyBiosInstallVgaRom: another driver is disconnected, and the thunk   *)
(* drivers are connected; the one for video installs the ROM.               *)
VgaOpen ==
    /\ Runs("vga", "open")
    /\ \/ /\ lbVideo.driver = "thunk" /\ LbFine
          /\ lbVideo' = [lbVideo EXCEPT !.installed = TRUE]
          /\ CallEnds("EFI_SUCCESS")
       \/ /\ lbVideo.driver # "thunk" /\ LbFine
          /\ lbVideo' = [lbVideo EXCEPT !.installed = TRUE, !.driver = "none"]
          /\ Enters(TopAt("connected"), Frame("rom", "begin", LbVga, <<>>))
       \/ /\ lbVideo.driver = "efi" /\ LbFault
          /\ UNCHANGED lbVideo
          /\ CallEnds("EFI_NOT_FOUND")            \* from DisconnectController
       \/ /\ lbVideo.driver # "thunk" /\ LbFault
          /\ lbVideo' = [lbVideo EXCEPT !.installed = FALSE, !.driver = "efi"]
          /\ CallEnds("EFI_DEVICE_ERROR")
    /\ UNCHANGED <<lbRegion, lbRomVars, lbIrq, lbBootVars>>
VgaConnected ==
    /\ Runs("vga", "connected")
    /\ IF lbStatus = "EFI_SUCCESS"
       THEN /\ lbVideo' = [lbVideo EXCEPT !.driver = "thunk"]
            /\ CallEnds("EFI_SUCCESS")
       ELSE /\ lbVideo' = [lbVideo EXCEPT !.installed = FALSE, !.driver = "efi"]
            /\ CallEnds("EFI_DEVICE_ERROR")
    /\ UNCHANGED <<lbRegion, lbRomVars, lbIrq, lbLeft, lbBootVars>>

\* BDS connects the thunk driver for video, which installs the ROM.
ConnectVideo ==
    /\ CalledIn /\ lbVideo.driver # "thunk"
    /\ lbVideo' = [lbVideo EXCEPT !.driver = "none"]
    /\ lbFrames' = <<Frame("vga", "bds", NoDevice, <<>>), Frame("rom", "begin", LbVga, <<>>)>>
    /\ UNCHANGED <<lbStatus, lbRegion, lbRomVars, lbIrq, lbBootVars>>
VideoConnected ==
    /\ Runs("vga", "bds")
    /\ lbVideo' = [lbVideo EXCEPT !.driver = IF lbStatus = "EFI_SUCCESS" THEN "thunk" ELSE "efi"]
    /\ CallEnds(lbStatus)
    /\ UNCHANGED <<lbRegion, lbRomVars, lbIrq, lbLeft, lbBootVars>>

(* PciShadowRoms: VGA first; devices that have no ROM yet are disconnected, *)
(* other displays are left alone.                                           *)
OthersInOrder == SetToSeq({d \in PciDevices : ~LbDevices[d].display})
ShadowBegin ==
    /\ Runs("shadow", "begin")
    /\ lbVideo' = [lbVideo EXCEPT !.driver = IF IsLegacyRom(LbVga) THEN @ ELSE "none"]
    /\ GoesOn([TopAt("next") EXCEPT !.todo = <<LbVga>> \o OthersInOrder])
    /\ UNCHANGED <<lbRegion, lbRomVars, lbIrq, lbLeft, lbBootVars>>
ShadowNext ==
    /\ Runs("shadow", "next")
    /\ IF Top.todo = <<>> THEN CallEnds("EFI_SUCCESS")
       ELSE LET d == Head(Top.todo)
                rest == [Top EXCEPT !.todo = Tail(@)]
            IN  IF IsLegacyRom(d) THEN GoesOn(rest)
                ELSE Enters(rest, IF d = LbVga THEN Frame("vga", "open", NoDevice, <<>>)
                                  ELSE Frame("rom", "begin", d, <<>>))
    /\ UNCHANGED <<lbRegion, lbRomVars, lbVideo, lbIrq, lbLeft, lbBootVars>>

----------------------------------------------------------------------------
(* LegacyBiosGetBbsInfo: the table is built once: the entries of the floppy *)
(* and of the IDE drives.  The CSM may complete it.                         *)
HasMediaInFloppy == {"BBS_UNPRIORITIZED_ENTRY", "BBS_LOWEST_PRIORITY", "BBS_IGNORE_ENTRY"}
LegacyBiosBuildIdeData == {"BBS_UNPRIORITIZED_ENTRY", "BBS_IGNORE_ENTRY"}
LegacyBiosBuildBbs ==
    \E floppy \in HasMediaInFloppy, ide \in LegacyBiosBuildIdeData :
        lbBbs' = [lbBbs EXCEPT !.table[Floppy].prio = floppy, !.table[IdeDrive].prio = ide]
BbsInfo ==
    IF lbFlags.bbsDone THEN UNCHANGED <<lbFlags, lbBbs>>
    ELSE lbFlags' = [lbFlags EXCEPT !.bbsDone = TRUE] /\ LegacyBiosBuildBbs
LegacyBiosGetBbsInfo ==
    /\ CalledIn /\ BbsInfo
    /\ IF lbFlags.bbsDone THEN UNCHANGED lbRegion ELSE LocksAgain({"E"})
    /\ UNCHANGED <<lbFrames, lbStatus, lbRomVars, lbVideo, lbIrq, lbE820, lbTable, lbBroken>>

\* LegacyBiosGetLegacyRegion and LegacyBiosCopyLegacyRegion
LegacyBiosGetLegacyRegion ==
    /\ CalledIn /\ LocksAgain({"E"})
    /\ UNCHANGED <<lbFrames, lbStatus, lbRomVars, lbVideo, lbIrq, lbBootVars>>

(* The boots: of an operating system, of EFI (which only prepares the CSM), *)
(* of an unconventional device, for which the BBS table gets an entry: the  *)
(* count is raised first, and the entry written behind what it counts.      *)
BeginBoot(mode) ==
    /\ Idle16 /\ lbLeft.boots > 0
    /\ lbLeft' = [lbLeft EXCEPT !.boots = @ - 1]
    /\ BeginsCall(Frame("boot", "prepare", mode, <<>>))
LegacyBoot ==
    /\ \E mode \in {"BOOT_LEGACY_OS", "BOOT_EFI_OS"} : BeginBoot(mode)
    /\ UNCHANGED <<lbRegion, lbRomVars, lbVideo, lbIrq, lbBootVars>>
DoNotBoot(table, n) ==
    [i \in DOMAIN table |-> IF i < n THEN [table[i] EXCEPT !.prio = "BBS_DO_NOT_BOOT_FROM"]
                            ELSE table[i]]
LegacyBiosBootUnconventionalDevice ==
    /\ BeginBoot("BOOT_UNCONVENTIONAL_DEVICE")
    /\ lbBbs' = [n |-> lbBbs.n + 1,
                 table |-> [DoNotBoot(lbBbs.table, lbBbs.n) EXCEPT
                                ![lbBbs.n + 1] = [dev |-> "ide", prio |-> "0"]]]
    /\ UNCHANGED <<lbRegion, lbRomVars, lbVideo, lbIrq, lbFlags, lbE820, lbTable, lbBroken>>

(* GenericLegacyBoot.                                                       *)
BootPrepare ==   \* E820, SMBIOS, ACPI, interrupt lines, SIO, BDA, CMOS, IDE
    /\ Runs("boot", "prepare")
    /\ UnLocks({"E"})
    /\ \E map \in LbMaps : LegacyBiosBuildE820(map)
    /\ PciProgramAllInterruptLineRegisters
    /\ Enters(TopAt("roms"), Frame("shadow", "begin", NoDevice, <<>>))
    /\ UNCHANGED <<lbRomVars, lbVideo, lbBbs, lbFlags, lbTable, lbLeft, lbBroken>>
\* EfiPlatformHookShadowServiceRoms moves OptionRom behind its ROMs.
ShadowServiceRoms == lbOption' \in {lbOption, Min({lbOption + 1, LbMaxRom})}
BootRoms ==
    /\ Runs("boot", "roms")
    /\ UnLocks(LegacyRegion)
    /\ ShadowServiceRoms
    /\ BbsInfo
    /\ GoesOn(TopAt("choose"))
    /\ UNCHANGED <<lbMem, lbRoms, lbEarly, lbVideo, lbIrq, lbE820, lbTable, lbLeft, lbBroken>>
\* PrepareToBoot of the platform: what was chosen comes first, if it is there.
PrepareToBoot ==
    \/ UNCHANGED lbBbs
    \/ \E i \in 0..(lbBbs.n - 1) :
           /\ lbBbs.table[i].prio \in {"BBS_UNPRIORITIZED_ENTRY", "BBS_LOWEST_PRIORITY"}
           /\ lbBbs' = [lbBbs EXCEPT !.table[i].prio = "0"]
BootChoose ==
    /\ Runs("boot", "choose")
    /\ PrepareToBoot
    /\ GoesOn(TopAt("start"))
    /\ UnLocks(LegacyRegion)
    /\ UNCHANGED <<lbRomVars, lbVideo, lbIrq, lbFlags, lbE820, lbTable, lbLeft, lbBroken>>
HasPriority(entry) == entry.prio \notin {"BBS_DO_NOT_BOOT_FROM", "BBS_UNPRIORITIZED_ENTRY",
                                         "BBS_IGNORE_ENTRY"}
SomethingToBoot == Top.dev = "BOOT_EFI_OS"
                   \/ \E i \in DOMAIN lbBbs.table : HasPriority(lbBbs.table[i])
\* The status of a boot that comes back is an error, unless EFI is booted.
BootStatus == IF Top.dev = "BOOT_EFI_OS" THEN "EFI_SUCCESS" ELSE "EFI_DEVICE_ERROR"
BootStart ==
    /\ Runs("boot", "start")
    /\ \/ /\ SomethingToBoot /\ LbFine
          /\ LocksAgain(LegacyRegion)                         \* Lock, BootLock
          /\ lbFlags' = [lbFlags EXCEPT !.entered = TRUE]
          /\ lbBroken' = FALSE
          /\ CallEnds(BootStatus)
       \/ /\ IF SomethingToBoot THEN LbFault ELSE LbFine   \* Legacy16PrepareToBoot
          /\ lbBroken' = TRUE
          /\ CallEnds("EFI_DEVICE_ERROR")
          /\ UNCHANGED <<lbRegion, lbFlags>>
    /\ UNCHANGED <<lbRomVars, lbVideo, lbIrq, lbBbs, lbE820, lbTable>>

----------------------------------------------------------------------------
LbNext ==
    \/ ShadowAndStartLegacy16
    \/ \E size \in LbSmbios : InstallSmbiosEventCallback(size)
    \/ \E d \in PciDevices : CallInstallPciRom(d)
    \/ ShadowAllLegacyOproms \/ LegacyBiosGetBbsInfo \/ LegacyBiosGetLegacyRegion
    \/ RomBegin \/ RomVgaDone \/ RomCheck \/ RomCopy \/ RomDispatch
    \/ VgaOpen \/ VgaConnected \/ ConnectVideo \/ VideoConnected
    \/ ShadowBegin \/ ShadowNext
    \/ LegacyBoot \/ LegacyBiosBootUnconventionalDevice
    \/ BootPrepare \/ BootRoms \/ BootChoose \/ BootStart

LbSpec == LbInit /\ [][LbNext]_lbVars

----------------------------------------------------------------------------
LbTypeOK ==
    /\ lbRegion \subseteq LegacyRegion
    /\ lbOption \in 0..LbMaxRom /\ Len(lbRoms) <= LbMaxEntries
    /\ lbBbs.n \in 0..(LbBbsMax - 1)
    /\ lbVideo.driver \in {"none", "efi", "thunk"}
    /\ lbIrq.lines \subseteq PciDevices /\ lbEarly \subseteq PciDevices

(* Each device has one ROM at most, and all of it is where it was left:     *)
(* no ROM, initialised later at any size, was put over it.  Its entries in  *)
(* the BBS table are there once, for as long as the ROM is.  No ROM ran     *)
(* before the interrupt line of its device was programmed (but while VGA    *)
(* was being installed).  When no call runs, nothing can write to the       *)
(* region, unless a boot was given up halfway.                              *)
BootEntries(d) == {i \in 0..(lbBbs.n - 1) : lbBbs.table[i] = BbsEntry(d)}
LegacyRomsSound ==
    /\ \A i, j \in DOMAIN lbRoms : lbRoms[i].dev = lbRoms[j].dev => i = j
    /\ \A i \in DOMAIN lbRoms :
           \A a \in lbRoms[i].first..(lbRoms[i].first + lbRoms[i].size - 1) :
               lbMem[a] = lbRoms[i].dev
    /\ \A d \in PciDevices : Cardinality(BootEntries(d)) <= LbDevices[d].boots
    /\ lbEarly = {}
    /\ lbFrames = <<>> /\ ~lbBroken => lbRegion = {}
    /\ lbTable.entry => lbTable.pages >= lbTable.size

(* The E820 table tells the operating system of every address above 1 MB    *)
(* what the memory map and the resources of the platform say of it, in      *)
(* order; the memory counted from 1 MB on is memory without a hole.         *)
TypesAt(table, a) == {table[i].type : i \in {j \in DOMAIN table :
                                               a >= table[j].base /\ a < E820End(table[j])}}
KnownAt(map, a) ==
    {EfiMemoryTypeToE820Type(t) : t \in TypesAt(map.entries, a)}
        \cup TypesAt(AboveMB1(ResourceHobs(map)), a)
MapTop(map) == Max({E820End(e) : e \in Range(map.entries \o map.hobs)})
E820Sound ==
    lbFlags.installed =>
        /\ \A i \in 2..Len(lbE820.table) : lbE820.table[i - 1].base <= lbE820.table[i].base
        /\ \A a \in MB1..MapTop(lbE820.map) : TypesAt(lbE820.table, a) = KnownAt(lbE820.map, a)
        /\ \A a \in MB1..(MB1 + lbE820.above - 1) :
               TypesAt(lbE820.table, a) \subseteq {"memory", "acpi"}
=============================================================================
