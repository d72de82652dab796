# Verification of the Intel Framework module package

This directory specifies and verifies drivers of `edk2-IntelFrameworkModulePkg`
in TLA+. TLC checks the specifications on small instances; TLAPS proves
theorems about some of them for instances of every size. `PROJECT.json` maps every
definition to the lines of C it models, and lists the runs, the mutants, the
hazards, the findings and the theorems.

    tlc -workers 2 -config single.cfg MCFwVolDxe      # a run
    tlc -workers 2 -config codes.cfg MCStatusCode
    tlc -workers 2 -config devices.cfg MCDevices
    tlapm FwVolDxe_proofs.tla                         # the proofs of a module

Contents: 1 the system, 2 the modules, 3 the runs, 4 findings and divergences,
5 proofs, 6 what is not modelled.

## 1. The system

The package holds firmware drivers and libraries of the Framework era: they run
before an operating system does, on one processor. There are no threads. What
interleaves is *events* (a notify function of a higher task priority level, TPL,
preempts the code of a lower one, at any instruction), *hardware* (flash, disk
and keyboard controllers, which fail, time out and lose power) and *callers*
(drivers that call one another's protocols in any legal order).

| Component | State it keeps | What is hard | Correct when | Module |
|---|---|---|---|---|
| **FwVolDxe** | a copy of the volume, lists of free space and of files, the current file; the volume in flash | writes that fail half-way; loss of power between any two; flash that only clears bits; undo of memory; freed entries still pointed to | a file reads old or new; free space is erased; memory agrees with flash; nothing else is touched | `FwVolDxe` |
| **DataHubDxe**, DataHubStdErrDxe | records with monotonic counts; filter drivers, each with the count it has read up to | a log from a notify function while another is under way; filters called while the list is walked | every filter reads every record of its class once, in order | `DataHub` |
| **StatusCode** RuntimeDxe, Pei | ring of records; FIFO and free list of buffers; nest flags | reports nested in reports and callbacks; buffers reused; wrap-around | a record is logged once, whole, with its own data | `StatusCode` |
| UpdateDriverDxe | the record of the fault-tolerant write, the profile | power lost in the middle of an update, and a restart | an update that is reported as done is whole; nothing else changed | `UpdateDriver` |
| SectionExtractionDxe | streams, their children, events | nested streams made on demand and when protocols arrive | a search finds what a fresh parse would find | `SectionExtraction` |
| AcpiSupportDxe | tables with handles, RSDT/XSDT | removal and replacement in root tables of several versions | the root tables list what is set, and nothing freed | `AcpiSupport` |
| GenericBdsLib, BdsDxe | boot option variables, `BootOrder`, `LegacyDevOrder`; console variables | variables written one by one; devices that come and go between boots; menus that see a part of what is stored | numbers in an order name options, options name devices, consoles are kept | `BdsOptions`, `Consoles` |
| BdsDxe: hot keys, front page, boot loop | hot keys with the key they wait for, the option caught; lists of the round | key strokes at Notify during the countdown, an option or the menu; options that never return | a hot key boots if and only if it was typed; the loop leaves no option out and takes `BootNext` once | `BootHotkeys` |
| LegacyBiosDxe | option ROMs, shadow memory, BBS table, E820 map | calls that nest through a driver that is connected; space for ROMs that runs out | ROMs do not overlap, the region is locked again, the map tells no lie | `LegacyBios` |
| IsaIoDxe, IsaBusDxe | child handles, DMA mappings | bounce buffers, 64 KB, ports that fail half-way | data go where they were mapped and nowhere else | `IsaIo` |
| IsaFloppyDxe | motor and its timer, head, cache of block 0 | the timer against a transfer of another drive; disks changed at any time; calls in the middle of calls, for it raises no TPL | no stale data and a motor that runs, unless a call is made in the middle of another; it always stops | `IsaFloppy` |
| IsaFloppyPei | two drives, where their heads are believed to be | commands that never end; disks exchanged; ISA memory | blocks of the disk that is there; no failure outlives its cause | `FloppyPeim` |
| IsaSerialDxe | two FIFOs in front of a UART | FIFOs full, flow control and loopback switched on the way, timeouts | bytes neither lost, repeated nor reordered | `IsaSerial` |
| Ps2KeyboardDxe, Ps2MouseDxe | scan code and key queues, modifiers; packets | two drivers share the 8042; acknowledges and codes arrive mixed | keys as typed, movements as made, unless bytes are lost | `Ps2` |
| IdeBusDxe | channels, devices, media, DMA regions | retries after resets; late answers; exchanged media | success means that all sectors were moved | `Ide` |
| BiosThunk: Snp16, Keyboard, Video, BlockIo | UNDI state and FIFOs; key queue and notify list; modes and buffers; media and one shared buffer | calls of the BIOS that fail; handlers that nest; buffers freed and reused; calls from events | see the modules | `Snp16`, `BiosKeyboard`, `BiosVideo`, `BiosInt13` |
| Start and Stop of thirteen drivers | protocols opened, memory, events, children | any of the calls fails | all is held or nothing | `DriverBinding` |

Components interact by calls of protocols: the fault-tolerant update writes
flash below FwVolDxe; status codes flow through the RuntimeDxe driver into the
data hub, whose filters may report status codes again (composed here in
`StatusCode`); the PS/2 drivers share the controller (composed in `Ps2`); BDS reads
and writes variables and connects all the others. The drivers of section 2.4
share no state with one another.
`PROJECT.json` lists each component with its status; `hazards` lists, line by
line, what a test would hardly reach.

## 2. Modules

    Ffs            the file format: cells, headers, states, pad computations
      FwVolDxe     the driver: its state, one action per step between writes
        MCFwVolDxe       small volumes, calls and budgets for TLC
        FwVolDxe_proofs  lemmas on the format, the inductive invariant, type correctness,
                         and that the current file is in the list of files

    Tpl            task priority levels and events (external)
      DataHub      the log, its filters and the loop by which they read
        StatusCode       the rings, the queue of records and its drain
          MCStatusCode   events, filters and budgets for TLC
          StatusCode_proofs         what the levels promise one another; types,
                                    lock, counts, queue, buffers
            StatusCodeReaders_proofs  readers: no gaps, nobody misses
            StatusCodeOrder_proofs    what is logged was reported, the refinement
                                      of Conduit, and the ring
    Conduit        what StatusCode promises: a queue in order, at most once

    Ps2 DriverBinding Snp16 AcpiSupport IsaSerial IsaFloppy BdsOptions Ide
    LegacyBios UpdateDriver IsaIo SectionExtraction Consoles BiosKeyboard
    BiosVideo BiosInt13 BootHotkeys FloppyPeim      one part of the system each
      MCDevices              their instances, in one run
    Isa_proofs               the floppy driver's cache and motor; what becomes of
                             the bytes of the serial driver; where DMA goes
    Ps2_proofs               keys and movements, read from one buffer
    Snp16_proofs             frames, buffers and filter of the network driver
    Ide_proofs               transfers of the IDE driver and its bus master

Operators whose comment says "a mistake" are not part of a specification.
Each is a plausible wrong version of its neighbour, and `PROJECT.json` names the
property that tells them apart. In every module a variable `...Left` (or `left`)
bounds how many calls, faults and outside events are still to come, and the
variables marked "history" are not in the code.
### 2.1 Ffs: the format

A volume is a function from positions to *cells* of eight bytes, the unit to
which the format aligns everything. A header is three cells (four for
`EFI_FFS_FILE_HEADER2`, when the size does not fit in 24 bits): two of GUID and
one of checksum, type, size and state. Checksums are modelled by what they
establish (a header is intact when its cells were written for one header). The
erase polarity is 1. A state byte is the *set of bits that differ from the
erased state*, so that "the highest bit set" of `GetFileState` is `Max`, and
`SetFileState`, an exclusive or in the code, is a symmetric difference. It is
not modelled as "set the bit": two of the findings depend on that.

`DuplicateFileExist` and `TotalSize` recurse; both are recursive *functions*, so
that proofs can use the module.

### 2.2 FwVolDxe: the driver

| Variable | Code |
|---|---|
| `flash` | the flash behind `EFI_FIRMWARE_VOLUME_BLOCK_PROTOCOL` (external) |
| `cache` | `FvDevice->CachedFv` |
| `free` | `FvDevice->FreeSpaceHeader`, entries of start and length |
| `files` | `FvDevice->FfsFileListHeader`, positions of headers |
| `cur` | `FvDevice->CurrentFfsFile` |
| `ptr` | the pointer of the scan in `FvCheck` |
| `op` | the call in progress: where it is (`pc`) and the variables of its functions |
| `accept` | history, not in the code: what each name may read as now |
| `left` | bounds: how many calls, failing writes and losses of power are left |

The driver runs alone, at the caller's TPL, and no notify function calls it
back; so a step of the model goes from one write of the flash to the next,
including every change of the lists and of `CurrentFfsFile` in between. In
`op.pc` stands the write that is pending; `PendingWrite` is the operator that
says which cells it writes. Each write completes (`WriteOk`), fails after any
number of cells (`WriteFails`), or is cut short by `PowerLoss`, after which the
next mount has only `flash`. `FvbOverwrites` chooses between a block driver that
replaces bytes and one that only programs bits (NOR flash): the interface
allows both.

| Actions | Function |
|---|---|
| `PowerOn`, `Scan...` | `FvCheck`, with `IsValidFFSFile` and its repair of a superseded file |
| `ReadFileAction`, `GetNextFile` | `FvReadFile`, `FvGetNextFile` |
| `WriteFile`, `LookupFile`, `DeleteMissing`, `LookedUp`, `MixedRefused`, `AllDone` | `FvWriteFile` |
| `DeleteStart`, `DeleteDone`, `DeleteFailed` | `FvDeleteFile` |
| `UpdateStart`, `Marked`, `MarkFailed`, `OldDeleted`, `OldNotDeleted` | `FvUpdateFile` |
| `CreateStart`, `CreateRefused`, `CreateInFree`, `HeaderAllocated` ... `DataMadeValid`, `CreateFailed` | `FvCreateNewFile` |
| `PadConstructed`, `PadWritten`, `PadValid`, `Pad...` | `FvCreatePadFileInFreeSpace` |
| `CreateInPad`, `PadMarked`, `AreaWritten`, `PadReplaced`, ... | `FvCreateNewFileInsidePadFile` |
| `Multi...`, `Fill...`, `Unlink` | `FvCreateMultipleFiles` and its two ways to place files |

### 2.3 Tpl, DataHub, StatusCode: records and levels

One processor runs the code of the highest task priority level entered. `Tpl`
says when code may take its next step (`At`), when an interrupt or a notify
function may enter a level (`Below`), and what signaling an event does: a pending
event stays pending, once. Pending events of one level are notified in any
order; the order of the dispatcher is not used. `RaiseTPL` to High around a few
lines (the lists of buffers) makes these lines one step.

| Variable | Code |
|---|---|
| `code[l]` | what runs at level `l`: its place `pc`, where the function it is in returns to (`ret`), its current TPL |
| `pending` | events signaled and not yet notified |
| `count`, `records`, `locked` | `GlobalMonotonicCount`, `DataListHead`, `DataLock` |
| `nodes`, `filters` | the `DATA_HUB_FILTER_DRIVER`s ever allocated, with `GetNextMonotonicCount` and, once removed, the link they keep; `FilterDriverListHead` |
| `nest`, `logging` | `mStatusCodeNestStatus`, `mLogDataHubStatus` |
| `pool`, `fifo`, `free` | the record buffers, `mRecordsFifo`, `mRecordsBuffer` |
| `ring`, `hob` | the table in runtime memory, the hand-off block of PEI |
| `call[l]`, `report[l]` | the variables of the functions at level `l` |
| `seen`, `reported` | history: what each filter was returned; the codes accepted, numbered |
| `left` | bounds |

| Actions | Function |
|---|---|
| `LogAcquire` ... `LogSignal` | `DataHubLogData`: the list of filters is walked, without the lock, one node per step |
| `ReadFails`, `ReadFinds`, `ReadStores`, `ReadGoesOn` | `DataHubGetNextRecord` in the loop of `DataHubStdErrEventHandler` |
| `Register...`, `Unregister...` | `DataHubRegisterFilterDriver`, `DataHubUnregisterFilterDriver` |
| `PeiReport` | `MemoryStatusCodeReportWorker` (PEI) |
| `StartDriver`, `ReplayRecord`, `ReplayEnds` | `StatusCodeRuntimeDxeEntry`, `InitializationDispatcherWorker` |
| `ReportNested`, `ReportBegins`, `ReportEnds` | `ReportDispatcher` |
| `RingTakes`, `RingSaves` | `RtMemoryStatusCodeReportWorker` |
| `HubRefuses` ... `SignalLog` | `DataHubStatusCodeReportWorker`, `AcquireRecordBuffer` |
| `NotifyLog`, `Drain...` | `LogDataHubEventCallBack`, `RetrieveRecord`, `ReleaseRecord` |
| `AskReport`, `HandlerReports`, `AskLog`, `AskRegister`, ... | the callers: code at any level, and handlers of filters |

A driver owns the event of its filter: it does not interrupt one registration of
the event by another. The record that the drain hands to `LogData` is read when it
is retrieved; the buffer is in nobody else's hands from then on, which is what
`BuffersOwned` says.

`LoggedAsReported` is the invariant that the order "insert the buffer into the
FIFO, then fill it" puts at risk; `NothingStranded` the one that signals which
coalesce do; `NobodyMisses` and `NoGaps` speak of filters that come, go and read
while records are logged; `RingKeepsLast` reads the ring back as the comment in the
code tells a reader to. `InOrderOnce` is a refinement: under the mapping that takes
the record in the hands of the drain and then the FIFO for the queue, every step
is a step of `Conduit` or leaves it alone. It accepts codes in ascending order,
delivers them in that order and may drop only its oldest, when memory is out.

### 2.4 The drivers and services that share no state

Eighteen modules, one part of the system each, instantiated together in `MCDevices`. A
behaviour picks its part (`unit`) and stays with it. Every name of a module begins
with a prefix of its own (`fdd`, `Fdd`), or is that of a C function.

**Ps2** (Ps2KeyboardDxe, Ps2MouseDxe): `ps2Out`, `ps2On`, `ps2Asked` are the 8042;
`kbdScan`, `kbdKeys`, `kbdMods`, `kbdLocks`, `kbdPartial`, `kbdErr`, `kbdLeds` the state
of the keyboard driver, `auxX`, `auxChanged`, `auxPacket` that of the mouse driver; `ps2Pc` is
what runs at TPL_NOTIFY. `KbdTick`, `PollScan`, `Getchar...`, `Led...` are the timer
handler down to `KeyGetchar` and the lights, `PollMouse`, `FirstByte`, `DataByte`,
`ProcessPacket` that of the mouse; between two accesses to the controller bytes come
(`KbdSends`, `AuxSends`, `Answers`). `GiveState` and `EnableAfterReset` are apart because
the mouse driver has lowered the TPL by then. `InputAsMade`: the keys are what the codes
that `KeyGetchar` took from the controller mean, once and in order (nothing is said of the codes that the
driver throws away while it sets the lights); a movement is made of consecutive bytes of the mouse, those of
one packet in their places unless a byte came late or was read by the keyboard driver before (`auxLost`), and is
told once. A byte of the mouse has the number of its packet and its place there.

**DriverBinding** (thirteen drivers): `Start` and `Stop` are scripts of steps: what a
step gets or releases, and which way its failure takes (`undo`, `leave`, `ignore`). `bndHeld` is what
the driver holds. `BndDoes` and `BndFails` are a call that succeeds or fails,
`BndMisses` one whose failure is ignored. `StartsWholeOrNotAtAll`: all or nothing, but for what
`LeftBehind`, `WithoutChild` and `ReleasedEarly` list for each driver. These
lists are findings as much as they are a definition: each entry is something the code does not
undo (the mouse interface, which Stop leaves enabled; a child whose controller could
not be opened and which stays installed; PCI attributes).

**Snp16** (BiosSnp16): `snpState`, `snpFilter`, `snpMCast`, `snpAddr` are `Mode`, `snpFifo` the ring
of transmitted buffers, `snpIsr` the event in hand, `undi...` the external network
driver. One action per function of the protocol; `IsrStart` and `IsrLoop` are
`Undi16SimpleNetworkIsr`. `SnpSound`: frames and buffers are handed over once and in
order, and UNDI filters as Mode says, after resets, changes of the address and
changes of the filter that failed half-way.

**AcpiSupport**: `acpi` is `EFI_ACPI_SUPPORT_INSTANCE` (list of tables, fixed tables, root
tables, the next handle), `acpiTold` what was published. `TablesConsistent`, for callers
that remove a table for the versions it was set for, replace it by one of its kind and
publish after the removal of a FADT (`acpiTidy`).

**IsaSerial**: `serRx`, `serTx` are the two FIFOs, `serIn`, `serThre`, `serRts`, `serReady` the UART;
`TakeByte`, `SendByte`, `NothingToDo`, `LoopBack` are the branches of
`IsaSerialReceiveTransmit`, which every call polls and in which bytes come and go.
`BytesInOrder`: bytes arrive in order and once in both directions, and none is missing
unless it was damaged, found a FIFO full or was reset; and RTS is off while Receive is full.

**IsaFloppy**: `fddMotor` and `fddSelect` are the DOR, `fddTimer` the motor timers, `fddLine` the disk change
lines, `fddHead` and `fddCyl` where a head is and where the driver believes it is, `fddCache` the
copy of block 0, `fddPc` the call. A call is `FddReadWriteBlocks` (motor on, timer
off), `DetectMedia`, `Reinstall`, `CheckCall`, `TransferBlock` or `TransferFails`, `EndTransfer`; `FddTimerProc` fires at
any time. The driver raises no TPL, so a call of either drive, or `FdcReset`, may be made between any two of these steps
of another one (`fddOuter` is that one): by an event, or by a driver that `ReinstallProtocolInterface` starts
again. Commands then go to the drive that is selected, whichever the call is for. Some disks are write protected, and a change of
that alone is notified too. `fddMixed` are the drives that had a call in the middle of a call since their cache
was empty. `FloppySound`: a read that the cache answers gets block 0 of the disk in the drive; the motor
of a call runs and no timer can stop it; both unless calls were mixed. Whatever was mixed, a motor
that is on when no call runs has a timer to stop it.

**BdsOptions** (GenericBdsLib, BootMaint): `nv` holds `Boot####`, `BootOrder`, `BootNext` and
`LegacyDevOrder`, `bdsBbs` and `bdsFound` what this boot found, `bdsMenu` and `bdsPages` the
menus. One step is one `SetVariable`, and `PowerOff` may follow any.
`DeleteInvalidLegacy` ... `EnumerationEnds` is `BdsLibEnumerateAllBootOption`, `Var_...` and `StoreNext` the
saves of the menu. `BootListsSound` says that an enumeration repairs whatever was
left, and that the BBS priorities given for a boot are those of the lists.

**Ide**: `ideDevice`, `ideDisk`, `ideSense`, `ideLatch` are the device (with data or a fault left
over from the last command), `ideDev` the `IDE_BLK_IO_DEV`, `ideDma` the bus master. ATA calls
go through `IdeCommand`, `IdeSector`, `IdeLate`, `IdeVerify` with retries after resets, or
`Dma...`; ATAPI calls first through `AtapiTestUnitReady` ... `Detected`. `IdeTransfersTrue`: success
means that every sector moved, and that the caller was told of the medium first.

**LegacyBios**: calls nest, `lbFrames` is their stack: `RomBegin` ... `RomDispatch` is
`LegacyBiosInstallPciRom`, which installs the ROM of the VGA first (`VgaOpen`, `ConnectVideo`), by connecting
a driver that calls back. `lbRegion` (segments unlocked), `lbMem`, `lbOption`, `lbRoms`, `lbBbs` are the
region and its tables; `BootPrepare` ... `BootStart` is a boot. `LegacyBiosSound` is two properties. `LegacyRomsSound`: ROMs
do not cover each other, entries of the BBS table are there once, interrupt lines are
programmed first, the region is locked again. `E820Sound`: every address above 1 MB has the
type of its descriptors.

**UpdateDriver**: `updFlash` is the flash, `updFtw` the record of the fault-tolerant write,
`updRun` the place in the driver. `InitializeUpdateDriver` reads the profile line by line, `Ftw...` is
one block of a tolerant update, `UpdateBufferInOneBlock` one of any other; `PowerLost`
may come between any two, and a later boot restarts. `UpdateSurvivesPowerLoss`: an erased block is in the record,
an update reported as done is whole, nothing else changed.

**IsaIo** (also the build of IsaBusDxe): `isaMem`, `isaUsed`, `isaMaps`, `isaDma` are memory, its pages,
mappings and the 8237s. A mapping programs its channel port by port (`MaskChannel` ... `UnmaskChannel`);
the device moves data whenever its channel is unmasked. Addresses are few (64 KB is `Segment`, 16 MB `Base16MB`), but the
pages of a bounce buffer for a wide channel begin at an even one. `DmaWhereMapped`.

**SectionExtraction**: `secNodes` are the streams by handle, with their children and the
events that wait for a protocol; `CreateChildNode`, `StreamEnds` and `FindChildNode` are a search
that parses on demand, `NotifyGuidedExtraction` the arrival of a protocol. `SectionsAsOpenedNow`
compares every search with a fresh parse of the stream (`InOrder`, the reference
definition).

**Consoles** (GenericBdsLib, BootMaint): `conVar` holds ConIn, ConOut and ErrOut, `conSys` the handles of the
system table, `conMenu` the menus, `conJob` the stack of calls under way. A step is one `SetVariable` or
one connection of an instance. `ConsolesSound`: nothing listed twice, nothing lost that is
plugged in, nothing back that the user took out, and terminals alike in all three.

**BiosKeyboard**: `bkBios` and `bkFlags` are the BIOS, `bkQueue` the queue of the driver, `bkNodes` and `bkFirst`
the list of registrations, `bkStack` the handlers that run (a registered function may read a
key). `ResetStep`, `ResetFails` and `ByteNotWritten` (the write of the command byte times out) go through the steps of `BiosKeyboardReset`.
`BiosKeysSound`: keys in order and once, each shown once to every function that is registered all the while; a reset that
says success has left the keyboard on and the mouse no other than it was, if the reset could read that.

**BiosVideo**: `vidModes` are the modes found (`TryMode`), `vidBuffers`, `vidScreen`, `vidShadow` the buffers and
the pixels. A mode is set in four steps (`NewFrameBuffer`, `Int10SetMode`, `ReadFrameBuffer`, `ModeIsSet`),
between which an event may draw (`BltMeanwhile`). `VideoSound` compares the screen, in VESA modes and in the
planes of the VGA, with a picture drawn pixel by pixel.

**BiosInt13**: `i13Packet` and `i13Bounce` are the packet and the buffer below 1 MB that all
drives share, `i13Calls` the calls in progress; a call is `Call`, then for each chunk `FillPacket` or
`FillRegisters`, `Int13`, `ChunkDone` (or `MediaChanged`, `Fail`). `DisksSound`: what succeeded moved
the right blocks of the right medium, no block holds what was meant for another, and
the record of a drive is that of its medium.


**BootHotkeys** (Hotkey.c, FrontPage.c, BdsEntry.c): `btHotkeys` is `mHotkeyList`, `btNotify` the
registrations at the keyboards, `btHotkey` is `mHotkeyBootOption`, `btList` the boot list with the place in it and the copy of
`BootNext`, `btStore` the variables, `btPc` where the code is. `TypeKey` calls `HotkeyCallback` wherever
the code is; `WaitingKeyAfter` is what a stroke does to a hot key. The front page is `PlatformBdsEnterFrontPage`,
`HotkeyBoot` (before and after the countdown), `ShowProgress` and `FrontPageContinue`; the loop is `BootDeviceSelect`, `TryNextOption`,
`OptionReturns` and `BootListsAgain`. An option may never return (`PowerGoes`), and it and the menu change what is stored (`OsStores`,
`MenuDeletes`). `BootsAsAsked` is two properties. `HotkeysAsTyped`: a hot key is caught if and only if its keys are the last
strokes, boots what its check value vouched for, and does so before the loop when it was caught in time.
`LoopInOrder`: `BootNext` is gone before its option runs, and the loop gives up after every active option had its turn.

**FloppyPeim** (IsaFloppyPei): `fpFdc` is the controller with its change lines, heads and
motor, `fpInfo` the two `DeviceInfo`, `fpCall` the call. The functions below the calls map a state to
the states that they may return in (`DiscoverFdcDevice`, `Seek`, `ReadDataSector`), and a step is what a call does up to the
next point at which somebody may exchange a disk: `LookAtMedia`, `StartMotor`, `ReadBatch`, `EndRead`. `SetDMA`
says where a block lands. `PeimReadsRight`: success means all blocks of the disk that was found, in order; an error is that of this call.
## 3. Runs

| Run | Instance | What it shows |
|---|---|---|
| `single` | 24 cells, two files, ten calls (write, align, delete, batch, bad type, mixed); 3 calls with 2 failing writes, *or* 2 calls with 2 losses of power | `OldOrNew`: a name reads as before or as written. `ValidMeansWritten`: a file is never DATA_VALID without its data. `CorruptOnlyIfTorn`: a mount refuses the volume only over a half-written file. `CacheMatchesFlash`: after a failed write memory and flash agree. `CurrentFileListed`: `CurrentFfsFile` is not a freed entry |
| `faults` | the same; 2 calls with a failing write *and* a loss of power, under fairness | `FreeSpaceErased`, `OneValidCopy`, `LiveFilesUntouched` hold under both faults together, and `CallsReturn` |
| `pads` | 30 cells, a pad file of 5 or 13 cells between two files, or an abandoned header; block driver that overwrites; 2 calls with a failing write; single and reliable multiple writes | `OthersKept`: a call that places files inside a pad file leaves every other file as it was |
| `codes` | two filters (stderr at Callback, both classes; watcher at Notify, errors with the GUID of status codes), rings of two records, two buffers at a time, six budgets | the nine invariants of StatusCode, `InOrderOnce` (the conduit) and `ComesToRest` |
| `devices` | the eighteen modules of section 2.4, each with budgets of its own | their properties |
| `pad_size`, `endless_loop`, `last_block`, `two_copies` | one or two calls, no fault | findings 1 to 4 below |
| `stale_data`, `read_twice` | three reports; two logs and a filter | findings 5 and 6 |
| `boot_order` | two boots, a page of the menu and a deletion | finding 7 |

Together the passing runs fire every action. The bounds of FwVolDxe are the smallest in
which every case happens: a volume of 24 cells holds two files and room for
three more, so that free space runs out within the calls; data of one and two
cells and alignments of 2 and 8 give no pad, a pad of a header alone, and a
longer one; three calls allow an update that is repeated after one that failed;
a write fails or is cut after *every* number of its cells. `MaxSmall = 31` is
above every size in these volumes, as 16 MB is in practice; the erased size
field, `MaxSmall + 1`, then reaches past the end of the volume, as it does in
the code.

The bounds of StatusCode: rings of two records wrap with the third report and
two buffers are used up and reused with three; a failing allocation, a hand-off,
a registration and an unregistration each meet a report or a log; levels 1 to 4
stand for Application, Callback, Notify and High, which are all that the code
tells apart. A budget is one mix of these (`MCStatusCode` lists six), and
larger ones, up to two hand-offs, two reports and two registrations together,
were run once without a violation. Fewer records are handed off than the block
holds: see the divergences below.

The bounds of `devices`: a budget (`MC...Budgets`) is one mix of calls, outside events and
faults, and each part has two to five, so that every fault meets every call but not all
of them meet at once. The sizes are those at which things run out or wrap:

* queues of two or three keys and of four scan codes, FIFOs of two bytes and of three buffers, two
  ACPI tables before the array grows, a region of five units for ROMs that need eight;
* a disk of three blocks moved two at a time; two floppy drives, alike, so that of two starts that swap them one is taken, and two disks, one protected, up to three calls, one
  inside another; three
  media of a BIOS disk whose geometries differ, one with more cylinders than the registers can name;
* memory of 14 units with the limits of the 8237 (64 KB and 16 MB) inside; flash of two
  volumes that a range straddles; a VGA line of two bytes, rectangles that
  overlap, start and end inside a byte and fill one exactly;
* hot keys of one stroke with a modifier and of two strokes, three strokes in a behaviour, during a countdown of one
  second; a recovery from disks of two cylinders of four blocks, pages of two blocks and segments of two pages;
* boots with three sets of devices, so that indices and numbers of options move;
* up to two faults in a behaviour where one may hide another (`DriverBinding`, `Ide`,
  `UpdateDriver`, `BiosVideo`), at most one elsewhere.

Parts that share no state need no product: an interleaving of two of them is a
shuffle of behaviours of each. What may differ initially is fixed in the parts that
do not move (`Idle`), so the run is the sum of eighteen.

Deadlock is not checked: with the budget spent a driver that is waiting for
calls has nothing to do, a volume given up (`corrupt`) stays so, and the endless
loop (`hang`) is a state without a step.

**Fairness.** `FairSpec` of FwVolDxe adds `WF_vars(Mount \/ Work)`: a call that was made and
a mount that was begun go on. The driver is ordinary single-threaded code
which nothing preempts for ever; calls (`Ask`) and `PowerLoss` get no fairness.
For StatusCode `FairSpec` is `WF_vars(Work)`: the code of the highest level
entered goes on, and an event that is pending is notified when the level allows
it, as the boot services promise. Reports, logs and registrations (`Asked`) get
no fairness, and the budget bounds them: interrupts do not come for ever. The run
`devices` checks safety only.

## 4. Findings

Each is a run that must end in a violation.

1. `pad_size`: a file placed in a pad file has an erased size field.
   `FvFillFfsFile` sets the size in the target and then copies the buffer,
   whose size is still erased, over it. It reads back wrong.
2. `endless_loop`: a reliable write of several files into free space never
   returns: the loop that moves the new entries follows links it has changed.
3. `last_block`: `Buffer2LbaEntry` finds no block for an address in the last one,
   `UpdateHeaderBit` ignores this and writes the first byte of the volume.
4. `two_copies`: `SetFileState` toggles. An update repeated after one that found
   no room clears the mark of the old file, and two valid copies result.
5. `stale_data`: a report without data leaves the data of an earlier report in the
   record buffer, which `ReleaseRecord` has not cleared; the data hub gets a record
   with the data of another report, and an old debug message is printed again.
6. `read_twice`: `GetNextRecord` for an event, with a count of zero and nothing new in
   the log, returns the last record again instead of "not found"; signals that
   coalesce make this happen in practice.
7. `boot_order`: `Var_ChangeBootOrder` writes `BootOrder` from a menu that shows
   active options only. After a deletion, an option that was inactive because its
   device was disabled is out of `BootOrder`, though its variable is still there.

### Divergences without a run

These were met in counterexamples or while the code was read. The properties are stated
so as to leave them out, with a history variable or a premise that names the case
(`acpiTidy`, `updMixed`, `conLost`, `bkNested`, `vidOdd`, `vidFaulty`, `lbBroken`, `fddMixed`, `auxLost`, `ideUntold`, `fpTrace.crossed`,
`disturbed`), or are modelled as the code has it and leave the property true.

FwVolDxe and StatusCode:

* A loss of power between HEADER_VALID and DATA_VALID makes `FvCheck` refuse the
  whole volume, other files included. `CorruptOnlyIfTorn` states what is left.
* A *reliable* write of several files into free space writes headers, states and
  data with one call from the lowest address up (FwPadFile.c:960); cut short, it leaves files
  DATA_VALID without data. `ValidMeansWritten` is therefore checked for calls that
  write files one by one.
* When a pad file cannot be marked, HEADER_CONSTRUCTION is toggled back and not
  the mark. `CacheMatchesFlash` is therefore not checked on pad files.
* The area of a pad file with a large header is taken eight bytes too long.
* An old copy whose deletion failed returns after a remount once the new copy
  is deleted: `OldOrNew` holds under failed writes or losses of power, not both.
* A mount skips 32 bytes of an abandoned header for which 24 were set aside, and
  misreads the next file: again a failed write and then a remount.
* The replay of a hand-off block that wrapped around begins at slot 0 instead of
  the oldest record, so the codes of PEI reach the ring and the data hub out of
  order: with three records handed off, `RingKeepsLast` fails.

BDS: boot options and consoles:

* A console variable is deleted before it is written anew (Variable.c:420-472): a loss of
  power between leaves none. `HasFlowControlNode` stays set for the terminals
  after the first that has the node (ConsoleOption.c:682, 726). Menus index their list of terminals
  by the UID of the port (123, 650). Short-form USB paths vanish with any save.
* `BdsLibDelPartMatchInstance` also removes siblings that begin with the same nodes. Without
  a device for ConOut `BdsLibConnectAllDefaultConsoles` returns before the others. Without
  one for ConIn the system table keeps the old handle. `BdsLibConnectAllConsoles` adds a second path for a
  terminal that is listed with other attributes.

BDS: hot keys and the boot loop (Hotkey.c, BdsEntry.c). The reference in `HotkeysAsTyped` is a sequence as the code understands it:

* Strokes that come while an option is pending are ignored and a sequence half typed stays
  half typed (151). A key that no hot key has does not reset a sequence. Of `F F G` the last two
  are not taken for `F G`. A key with a left and a right modifier of one kind never matches. `ShowProgress`
  ends at the first key, so a sequence of several keys must be finished in the time that the rest takes.
* The check value of a key option is compared at the start only. Of two hot keys that one stroke completes the last wins.
  What is caught in the menu, or while an option runs, stays pending until the next
  front page. A hot key boots an option that is inactive.
* An inactive option of `BootNext` is skipped, although the list "will always have this boot option". After a round in which
  all options failed the head of `BootOrder` is taken for that of `BootNext` (BdsEntry.c:323). `BootNext` is
  read before the platform policy: one that the menu sets is not tried in this boot.

IsaFloppyDxe:

* `DetectMedia` reinstalls the protocol (IsaFloppyCtrl.c:764) before its caller drops the cache
  (IsaFloppyBlock.c:242, 258). A driver that is started again there and reads block 0 is answered from the cache of the disk before
  (300-304) with EFI_SUCCESS, "The data was read correctly from the device" (105). The model reaches this
  (`fddStale` = `{"within"}`) with three calls and two changes of disk, a budget that was run by itself and is too large for `devices`;
  a read answered so while no call was made in the middle of another is what `CacheIsFresh` excludes.
* No TPL is raised, though the drives share the controller, its DOR and its timers. A call in the middle of a
  call of the other drive leaves that one with the other's change line, motor and head, and its transfer may
  go to the other's disk. A read in the middle of a write leaves the old block 0 in the cache.

Ps2:

* After a first byte `PS2MouseGetPacket` takes whatever follows, and for a first byte it takes what has bit 3 set (CommPs2.c:393).
  Once a byte was late, or the keyboard driver or a reset read one, a later byte of a packet may pass for a first one, and movements are
  made of the bytes of two packets until a first byte comes first again.
* While the lights are set, codes that come before the acknowledge are thrown away (Ps2KbdCtrller.c:1115): with the break code of a
  modifier the modifier stays on.

FloppyPeim:

* "All the blocks are read, or an error is returned" (FloppyPeim.c:1562) does not hold of a batch whose buffer crosses
  64 KB: `SetDMA` writes a page register that does not count. Pages are never freed; when there are none below 16 MB the transfer
  goes to 0xF00000 whatever is there (1655).
* A command that never ends in `DiscoverFdcDevice` or `Setup` leaves the controller busy, and later calls fail,
  since only a failed batch is followed by `FdcReset` (1696). A batch that failed is copied to the caller (1683) and not tried again.

LegacyBios and Ide:

* When the VGA has no ROM `mVgaInstallationInProgress` stays set; without a VGA the
  interrupt lines are never programmed (LegacyPci.c:1146). A boot that fails leaves the region unlocked
  (LegacyBootSupport.c:1171, 1229) and the timer and the 8259 as they were set for it (1293-1346). `DropCovered` skips
  the descriptor after one that it dropped (1906).
* An ATAPI device that answers too late is taken for one that succeeded; a UDMA
  transfer ignores the error bit of the device.

UpdateDriver:

* The record of a fault-tolerant write names the file of the capsule but neither volume nor address:
  an interrupted update of another part, or of another capsule with that
  file, is taken for this one. If the *second* tolerant part was interrupted every later run aborts at the first one
  (FlashUpdate.c:269, 412). A range over two volumes restarts in the wrong one.
* An error of a tolerant update of a part is returned as success and the same part is tried for ever (1084). A type
  out of range is success with configurations that nobody set (ParseUpdateProfile.c:1038).

SectionExtraction and IsaIo:

* The protocol of a GUID is in the handle database before its GUID is in the configuration
  table (630): a notification between closes the inner stream and returns. A search goes on after a
  nested node could not be made (1121-1140). The event adds the extractor's status whether or not the section
  says that it is valid (645, against 914-925). Inner streams of one to three bytes underflow (1170).
* A mapping for writing by a slave is not copied back in the build for slaves only (IsaIo.c:772). Ports that
  fail after the buffer was made leak it; a length of zero programs a count of 0xFFFF; an odd length on a channel
  of 16 bits moves one byte more (1538).

BiosThunk:

* BiosKeyboard: `ExtendedKeyboard` is set and never reset (271). A full queue drops a key that the BIOS has
  given up. Two registrations of one pattern share a handle and one unregister removes both (2288). A function that
  reads keys gets later ones first, and its handler may then follow a stale link. A
  failed reset leaves the mouse disabled and the next one takes that for its state (1071-1100). With
  `PcdFastPS2Detection`, or an untested controller, that state is not read at all. The status of a write of the command byte that timed out (1167)
  is overwritten by that of the next command, so an extended reset with that PCD may report EFI_SUCCESS, "The command byte
  is written successfully" (980), when it was not.
* BiosVideo: a mode that could not be set leaves freed buffers behind
  (1960-1970), used by the next Blt and freed twice; a Blt from an event while a mode is set uses
  them too. The VGA set to the mode it is in uses a buffer that is NULL (2089). A fill of exactly one
  whole byte of the VGA draws nothing (2935-2950); copies inside the VGA that are not aligned
  copy nothing, and overlapping ones downward are wrong. The data that override those of a monitor
  restrict no modes (1597).
* BiosInt13: the packet and the buffer are shared, and a call from an event between the
  preparation of a chunk and its end moves the blocks of the other call. The BIOS reports an exchange
  once: a nested call between the report and its handling passes with the old MediaId
  and writes to the new medium. Function 48 refused leaves 0xAF in every byte of the size
  (64, 219, 257). Cylinders past ten bits wrap (1195, 1214). When the parameters fail after an exchange
  the MediaId is new and the size is old. `Reset` tests AL for AH (752). A write past the end by
  packets is DEVICE_ERROR.

Start and Stop: the entries of `LeftBehind`, `WithoutChild` and `ReleasedEarly`.

## 5. Proofs

`FwVolDxe_proofs` proves, for every volume length, block length, set of names,
data, images, calls, alignments and budgets that satisfy the assumptions
`SizesAssumption`, `NilAssumption` (module `Ffs`) and `ParametersAssumption`
(module `FwVolDxe`):

* `TypeCorrect == Spec => []TypeOK`;
* `CurrentIsListed == Spec => []CurrentFileListed`: whenever a call can come,
  `CurrentFfsFile` is nil or an entry of the list of files.

`TypeOK` alone is not inductive. A function uses what an earlier step left in its
variables: `MultiDelete` reads `op.olds[op.i]`, which is a position only because
the marking loop stored one for every file; `Shrink(op.fl, ...)` needs `op.fl` to
be an entry of the list of free space; the last new entry exists only because
the filling loop made one per file. `ProgressOK` states, by `op.pc`, what each
function relies on, and `IInv == TypeOK /\ ProgressOK` is inductive. The run
`faults` checks `TypeOK`; `ProgressOK` was checked by TLC before it was proved.
The argument has three layers: what the operators of the format
return (first part of the module), the lemmas on writes, lists and returns (`PendingWriteGood`: the pending
write is a sequence of cells; `WriteType`: whatever part of it is done, flash
remains a volume; `ReturnIInv`), and one lemma per group of actions, combined in
`NextIInv`.

`CurrentFileListed` speaks only of a driver that waits for calls. `CurrentOK` is its
inductive form: between two writes of a call the current file is listed too,
except that while the area of a pad file is being written it is one of the
entries not yet moved (`op.news`), and that after a reliable write into free
space, a call that never returns (finding 2), it may be anything. The lemmas
`Moved`, `Kept` and `Returned` say how the lists change; `SpliceEntries` that
replacing a pad file by the new entries keeps all the others; there is one
lemma per group of actions, under `IInv`.

`StatusCode_proofs`, `StatusCodeReaders_proofs` and `StatusCodeOrder_proofs` prove, for every set of filters, of
events at any levels, of classes and of reports, every length of the rings, every
number of buffers allocated at a time and every budget that satisfy
`FiltersAssumption`, `EventTplAssumption` and `StatusCodeAssumption`:

* `TypeCorrect == Spec => []TypeOK`;
* `LockCorrect == Spec => []LockNeverHeld`: nobody finds the data hub's lock held;
* `CountCorrect == Spec => []CountsAscend`: records in the order of their counts;
* `QueueServed == Spec => []NothingStranded`: a queued record will be looked for;
* `BuffersCorrect == Spec => []BuffersOwned`: each buffer has one owner;
* `LoggedCorrect == Spec => []LoggedAsReported`: what is logged was reported;
* `GapsCorrect == Spec => []NoGaps`: a filter is returned its records without a gap;
* `ReadersCorrect == Spec => []NobodyMisses`: at rest, every filter was returned every record of its classes;
* `ConduitCorrect == Spec => InOrderOnce`: the driver implements `Conduit`, its initial states
  and each of its steps;
* `RingCorrect == Spec => []RingKeepsLast`: the table in runtime memory ends with the last codes.

The last two have a hypothesis: no budget lets the PEI phase report more codes than its block
holds (`\A b \in Budgets : b.handoff <= MaxRecords`). It is not for the sake of the proof: a
block that wrapped is replayed from slot 0, so the codes come out of order, and both statements
are false of the code then (see section 4). Everything else,
interrupts, nesting, failures, filters that come and go, is as free as in the other theorems.

All rest on `TypeInv == Levels /\ HubOK /\ StoreOK`. `Levels` is what makes the code
safe without locks around the queue, and no property says it by itself: which
function may stand at which level, and where it returns to (`Frames`); two reports
are never at work together, because the second finds `mStatusCodeNestStatus` set
(`NestOK`); the replay, which bypasses that flag, runs alone (`PhaseOK`);
`mLogDataHubStatus` is set exactly while the drain runs (`DrainOK`); and when plain
code fills its buffer no drain is at work or about to start (`FillOK`). `HubOK` adds
the types of the data hub, that the link of a node, removed ones included,
leads to a node or to the head, and that the lock is held exactly while one
level is in the critical section. `StoreOK` adds the types of the buffers, that the slot
a report is about to save lies in the ring, and that the drain holds a buffer.
On top of it each theorem has its own strengthening:

* the lock: `Stacked`, the level in the critical section is interrupted only from
  above Notify, where nobody calls the data hub;
* the counts: `CountOK`, no record has a higher count than the last one given, and
  the one waiting to be inserted has exactly that;
* the queue: none, `NothingStranded` is inductive under `TypeInv`;
* the buffers: `Owned`, the same statement about the sets of positions in the two lists
  and their lengths, so that moving one buffer is set algebra;
* the items: `ItemsOK`, an item followed from the report (`ReportsOK`) through the
  queue, where it is filled or its report is about to fill it (`QueueOK`), and the
  call of `DataHubLogData` (`LocalsOK`) to the record (`LoggedOK`). That the drain
  never takes a buffer before it is filled is where `FillOK` is needed;
* the readers, whose proof reduces a step to what it does to the places (`Spot`) and locals of the levels in the
  data hub, so that the status code driver is one lemma (`StatusElsewhere`), in three layers:
  * the list, `ListInv`: it is in the order in which nodes were made (`Sorted`), has one node for an event (`OneEach`),
    and one level at a time registers or unregisters a filter (`OneOwner`), so what it found is
    still true when it links or unlinks (`OwnerAt`);
  * the counts, `CountsInv`: a filter was returned the records of its classes up to some record (`SeenOK`), and the count
    to read on from, in the node (`NextOK`), in the hands of the reader (`ReadsAt`) or about to be stored
    (`StoresAt`), leaves none out. A node may be taken out of the list and its event registered again while its reader
    is between the search and the store; then the new node was not read from. The count of a node was returned
    unless its reader is about to (`TurnAt`), which is why a search that finds nothing after it may leave it there;
  * the signals, `SignalsInv`: a record that a listed filter was not returned is brought to it by a pending event, a
    reader at work, a registration that is to announce, or the walk of the level that logged it. A walk stands on a
    node that may be out of the list, and follows links of removed nodes; `Leads` says that all
    ways from where it stands go by the filter's node, and `LinksNext` that the links of the list do;
    unlinking a node keeps both, because its predecessor gets the link that it had (`UnlinkLeads`);
* the conduit: first what a step does to the two sequences of the refinement mapping, the line
  of waiting codes and the codes logged: it leaves them alone, moves the first one out (`Flows`),
  or puts the code of one report at the end (`Joins`); `StepFlows` says that there is nothing else.
  Taking a buffer off the queue is no move, because the code goes from the head of the queue into the
  hands of the notify function, and filling a buffer is none, because it counts for the code of its report
  from the moment it is queued; that no buffer is twice on the queue (`QueuedOnce`) follows from `Owned` by
  counting. Then `OrderOK`, by which a code that joins is newer than those
  in line and in the log: what is to come from the hand-off block is newer (`HandOff`, `NewOK`), nothing is
  reported to the driver before the replay is over (`PeiOK`, `PhaseOK`), and a report that has not queued
  its code yet has the newest number, since no other can begin under it (`NestOK`);
* the ring: `RingOK`, the ring holds the first `ring.number` codes told to it, those of the last
  round up to the index and those of the round before from there on, and between the step that takes a slot and
  the save the report under way has the next code and the slot before the index.

`Isa_proofs` proves, first for every set of drives and of disks, and for all calls
and budgets that satisfy `FddAssumption`, hence for any number of calls, faults and exchanges:

* `FddTypeCorrect == FddSpec => []FddTypeOK`;
* `FloppyCorrect == FddSpec => []FloppySound`: what the cache answers is on the disk in the drive, and the motor has
  an owner, but for what `fddMixed` and `interrupted` name; that a motor stops has no exception.

The property says that no call *was* answered from a stale cache, which is not
inductive: what makes it true is what holds of a cache nobody has used yet. `FddInv`
adds to the types

* `DisksOK`: a disk is in one drive, and a change line that is clear means that there is one;
* `StackOK`: a call in the middle of another is of a drive in `fddMixed`, as is the other one, which is
  marked as interrupted; the drive that is selected is that of the call, or both are in `fddMixed`;
* `MotorOK`: `MotorHasOwner`, and a motor that is on has a timer or is that of one of the two calls;
* `BoundsOK`: the blocks of both calls are on the disk;
* `CacheOK`: while the line of a drive outside `fddMixed` is clear, its cache is empty or block 0 of the disk in
  it, unless a call has found another medium and is about to drop the cache (`Drops`);
* `CallOK`: a call that is alone has the medium that it named until `DetectMedia` looks, and a write from block 0
  on has dropped the cache;
* `WorkOK`: a call that is alone and goes on to the disk has found its own medium, which is in the drive
  or gone with the line set, and what it keeps of block 0 is that of this disk.

The step that carries it is the return of an inner call: the outer one goes on with what it knew, and nothing is claimed
of its drive until no call runs and the cache is empty (`FddReturnKeeps`).
There is one lemma per action and conjunct, combined in `FddStays`.

Then, for FIFOs and a UART of every length, every timeout, every way to set
flow control, loopback and baud rate, and all budgets that satisfy `SerAssumption`:

* `BytesCorrect == SerSpec => []BytesKept`: order, no byte twice, none missing without a reason;
* `SerialCorrect`: `BytesInOrder`, which adds `NoRtsWhenFull`, under the hypothesis `RtsLeftAlone`: no
  caller of `SetControl` raises RTS together with flow control. `SetControl` does not look at
  the room in Receive, so without it the statement is false; the run has no such call either.

A byte is in one of five places: with the readers, in Receive or in the UART on one line, on the wire or in
Transmit on the other. `BytesOK` says of the places that each is in its order (`PlacesOK`) and comes before
the next of its line (`AlongOK`), what bytes are in them (`GivenOK`, `WholeOK`), and that the lines share none
(`ApartOK`). It is inductive only with `NewerOK`: what is in Transmit is newer than every byte on the
other line. Loopback puts the bytes of Transmit behind those of Receive, and those it leaves, or that
were never looped back because a call timed out, stay behind for the wire or for a later loopback. The
lemmas `Joined`, `Longer`, `Split` and `Tailed` turn what a step does to sequences into what it does to their sets
of bytes, and the rest is about sets; there is one lemma per action that moves bytes, and `NoByteMoves` for the others.

Last, for memory of every size, all sets of mappings, accesses and resources, and all budgets that satisfy
`IsaMapsAssumption` (a caller maps memory that there is, and words from an even address and in full) and
`IsaRangesAssumption` (ranges and accesses are numbers). 64 KB and 16 MB stay the small numbers that stand for them in the
model (`Segment`, `Base16MB`):

* `DmaCorrect == IsaSpec => [](IsaTypeOK /\ DmaWhereMapped)`: memory is written only where a mapping is; what a caller
  finds when it unmaps is what was transferred; accesses stay in the resources.

The property looks at the memory after the fact. What makes it true is `IsaInv`:

* `MappingOK`, `PlaceOK`, `UsedOK`, `MapsApart`: a mapping of a channel ends before the next 64 KB, where its
  count of bytes was cut (`Half`, `MappedBytes`); a bounce buffer is apart from every caller's
  and every other buffer, and no two mappings at work share a byte of memory;
* `PortsOK`: while Map writes the ports of a channel, it is masked and holds what was written so far
  (`SetSoFar`, one line per port); and a channel that is unmasked, at whatever point of a transfer, points at the byte of
  its mapping that is next, with as many to go as are left (`Runs`). A call that ends at a port that fails leaves no
  mapping, and the device of a channel without one asks for nothing;
* `DataOK`, `DoneOK`, `KeptOK`: the bytes moved so far are at their place, also after the buffer was copied back and
  other transfers went on, and the rest of the memory is as it was.

The lemmas to look at are `AimIs`, that base, page and width of a channel make the address the mapping means,
which needs that the mapping does not cross 64 KB, and `DmaKeeps`, one transfer.

`Snp16_proofs` proves, for a ring of every length (`SnpAssumption`: it has a slot), every set of requests for
`ReceiveFilters` and all budgets:

* `SnpTypeCorrect == SnpSpec => []SnpTypeOK`;
* `SnpCorrect == SnpSpec => []SnpSound`: frames and transmit buffers once and in order, none lost without
  a failure or a reset, and UNDI filters as `Mode` says.

`SnpInv` adds to the property what makes it inductive:

* `FramesOK`: the frames that `Receive` returned come before the one that the running call has
  copied, that one before the one left in `Isr`, and all of them came over the wire;
* `IsrOK`: only `Receive` copies a frame, and does so with the interrupt RECEIVE set; while nothing failed that
  interrupt stands for a frame copied or left in `Isr`. Without this `Receive` could answer EFI_SUCCESS
  with no frame, because it looks at the interrupt and not at what the Isr copied; after a failed call of UNDI it can,
  which is the `NoFrame` in `snpTaken`. And what a failed call leaves in `Isr` counts as trouble;
* `NoneLost`: while nothing failed, the number of frames on the wire is that of the returned ones and of those in hand;
* `StateOK`: while the interface is not initialized no call is in the Isr, `Isr` and the ring are empty and UNDI is
  closed; so `Initialize`, which empties both without a look, loses nothing.

The ring is reasoned about as the sequence it holds (`FifoHolds`): `FifoAdds` appends to it, `FifoRemoves` takes its head,
wherever the ring wraps around (`NextLap`). The buffers recycled followed by those held are then
a sequence that `GetStatus` leaves as it is (`Recycles`) and `Transmit` extends by the next number (`NumberedGrows`).

`Ide_proofs` proves, for disks, calls and commands of every size, any number of retries and all budgets
that satisfy `IdeAssumption`:

* `IdeSafe == IdeSpec => [](IdeTypeOK /\ IdeTransfersTrue)`: success means that every sector was moved, from
  or to a medium the caller was told of; the bus master runs on mapped memory, but for a command given up.

`IdeInv` adds to the property what it rests on:

* `DeviceOK`: the kind of driver is the kind of the device, so an ATA disk is never another one and its last block
  is the one in `Media`; a fault it keeps is reset away before the next command;
* `PcOK`: how much of a call is done at each step of it. `LBA` plus the blocks left stays the end of the call, and
  the sectors moved are those before `LBA` and those of the running command (`MovedNow`); a transfer of an ATA
  disk lies on the disk, which is the check of the range before it, kept over all commands of the call;
* `MovedOK`: each sector moved so far is the one that was asked for, and a written one still holds what this call wrote;
* `DmaOK`: at which steps memory is mapped and the bus master runs;
* `ToldOK`: a change of the medium that the drive does not report any more and the caller does not know
  (`Unasked`) shows: the MediaId is beyond the caller's, or there was no medium when the call began. So no such
  change is left when a transfer starts, and one that comes later is a unit attention, by which the drive refuses
  the packet.

The lemma of `Detected` is the heart of it: the old and the new `Media` are equal only if no answer counted the
MediaId on. That lemma does not say that `LastBlock` is that of the disk in the drive, and it is not: when
READ CAPACITY failed after a change (`Atapi.c:1235`), the next call finds the sense clear and a medium present,
does not ask again, and goes by the last block of the disk before. What keeps a transfer inside the disk then is
the drive, which refuses a packet beyond its last block (`PacketRefused`).

`Ps2_proofs` proves, for queues of every length above one, every set of strokes and of packets, and all budgets
that satisfy `Ps2Assumption`:

* `Ps2Correct == Ps2Spec => [](Ps2TypeOK /\ InputAsMade)`: the keys of the codes that `KeyGetchar` took come to
  their callers in order and once, and movements are made of whole packets, unless bytes of the mouse were lost.

The history `kbdMeant` is the reference: it is told the codes that `KeyGetchar` takes one at a time, and keeps
the prefix seen so far, modifiers, locks and the keys meant; `MeansOK` shows that the driver, which looks at one to three
codes at once, says the same. `Ps2Inv` has a part for each driver, and a step of one leaves that of the other
alone (`KbdElsewhere`, `AuxElsewhere`):

* `KeysOK`: modifiers and locks are those that the codes mean, and the keys made are those meant, but for the one that is
  still to be made of `ps2Pc.code` after the lights are set (`Pending`). That modifiers and locks do not change in between
  is why it is made as it was meant;
* `QueueOK`: what waits are the last keys made, element by element, whether a full queue has dropped its oldest or not;
* `StreamOK`, `PacketOK`: the bytes of the mouse are numbered, and the next one to come has the number after the last of the
  packet under way (`Coming`). What could break that is another reader of the buffer. While the command byte is asked for
  (`"status"`) any byte would be taken for it, and none of the mouse is there, because its interface is off;
* `AlignOK`: unless a byte was lost, the bytes of the packet under way are one packet's, in their places, and between two
  readings the next to come is a first byte;
* `MotionOK`: what was moved is what was told and what is kept, and `StateChanged` is set while something is kept.

Only model-checked: of StatusCode `ComesToRest`; of FwVolDxe the other invariants,
`LiveFilesUntouched` and `OthersKept` (action properties) and `CallsReturn`; of the parts in `devices` all
but the floppy, the serial, the ISA I/O, the network, the IDE and the PS/2 drivers. `ComesToRest` and
`CallsReturn` are liveness under fairness, which TLAPS does not do.
What the recursive functions of `Ffs` compute for every input (`DuplicateFileExist`,
`TotalSize`) is not proved: the theorems on induction of the library take an operator, which no
installed prover instantiates. Induction over a set does work (`NatSetInduction`, from the least element of
its complement), and is how `StatusOf`, the records of status codes in a log, is shown to grow with the log
(`StatusOfAppend`).

## 6. What is not modelled

In FwVolDxe: the volume top file and its skip in the scan, file attributes and
types other than pad and "reserved", the section interface (`FvReadFileSection`,
which works on what `FvReadFile` returns), get and set of volume attributes,
authentication, allocation failures, and volumes of the FFS3 format that refuse
large files.

In DataHub: reading without an event (it keeps no state), the time of a record,
and a standard error that is not there yet (the handler then leaves without
reading, and the records wait for the next notification). A registration for
which memory is out changes nothing and is one that was not asked for. In
StatusCode: the serial port and the OEM hook, which keep no state, and the
conversion of pointers for virtual addresses. `DatahubStatusCodeHandlerDxe` has the
same queue as `StatusCode/RuntimeDxe` behind the router of report status codes, which is
not in this package; it is not modelled a second time.

Wording, debug output and the layout of paths and forms are left out everywhere.
Of the parts of section 2.4:

* `Ps2`: key notifications (the same list as in `BiosKeyboard`) and the table of scan codes; the absolute
  pointer driver is a copy of the mouse driver, of which only Start and Stop are modelled.
* `IsaSerial`: parity and word length. `IsaFloppy`: a call made in the middle of a command, or deeper than one in another, the DMA of a transfer
  (see `IsaIo`) and the bytes of the commands: a command works or fails.
* `Snp16`: statistics, NVData and the map of multicast addresses. `AcpiSupport`: the bytes of a table but for its
  links and its checksum.
* `Ide`: the second device of a channel, SMART, names and the choice of timings. `IsaIo`: `CopyMem`, `Flush` and
  `Configure`, which keep no state.
* `BdsOptions`, `Consoles`: time-outs, languages, driver options, memory type
  information, the legacy floppy and the forms; the device manager. `BootHotkeys`: the pictures and texts of the front page,
  password checks and the connection of consoles.
* `FloppyPeim`: buffers that are no whole number of blocks.
* `LegacyBios`: real-mode thunks, BDA, CMOS and SIO data, the
  interrupt routing tables, ROMs of the system board.
* `UpdateDriver`: the text of the profile (a line is a record). `SectionExtraction`: the content of sections.
* `BiosVideo`: reading the EDID by I2C, the bits of a pixel, text modes. `BiosKeyboard`: the table of codes.

Whole components:

* `DatahubStatusCodeHandlerDxe`, `LegacyRegionDxe`, the decompression libraries, the libraries
  for debug output and status codes, `PlatformBdsLibNull`, `PeiRecoveryLib`, `PeiS3Lib`: a second copy, a
  thunk, vendored code, formatting, or nothing that keeps state.
* `CpuIoDxe`: a check of bounds and a loop of single accesses, the same as in `IsaIo`.
* `AcpiS3SaveDxe`, `DxeCapsuleLib`, the SMM status code library: sequences without a partner: one caller, one pass, an
  error returned as it is. What may go wrong in them is a size or a table computed wrongly, which
  a test reaches.
* `VgaClassDxe` beyond Start and Stop: cursor and attributes of a text screen, which one caller changes one
  call at a time.
