----------------------------- MODULE MCDevices -----------------------------
(***************************************************************************)
(* The drivers and services that share no state, checked in one run: every *)
(* behaviour picks one of them, which then takes all the steps.  Each of    *)
(* them is explored exactly as far as a run of its own would explore it.    *)
(***************************************************************************)
EXTENDS Ps2, DriverBinding, Snp16, AcpiSupport, IsaSerial, IsaFloppy, BdsOptions, Ide,
        LegacyBios, UpdateDriver, IsaIo, SectionExtraction, Consoles, BiosKeyboard,
        BiosVideo, BiosInt13, BootHotkeys, FloppyPeim

CONSTANTS Units  \* names of the parts that are explored

VARIABLE unit

Idle(u, left, budgets) == unit # u => left = CHOOSE b \in budgets : TRUE

(***************************************************************************)
(* Keyboard and mouse: letters with shift held, caps lock, the three keys   *)
(* that reboot, a long code, one with a 0xE1 prefix; short and long moves.  *)
(***************************************************************************)
MCKbdStrokes ==
    {<<Down("A")>>, <<Down("LeftShift")>>, <<Up("LeftShift")>>, <<Down("CapsLock")>>,
     <<Down("Ctrl"), Down("Alt"), Down("Delete")>>, <<Extended, Down("Delete")>>,
     <<Pausing, Down("Ctrl"), Down("NumLock")>>}
MCAuxPackets == {[sync |-> {1}, dx |-> 1], [sync |-> {1, 3}, dx |-> 2]}
MCPs2Budgets ==
    {[codes |-> c[1], packets |-> c[2], resets |-> c[3], faults |-> c[4]] :
        c \in {<<3, 0, 0, 0>>, <<0, 2, 0, 1>>, <<1, 1, 0, 1>>, <<1, 0, 1, 1>>, <<0, 1, 1, 1>>}}

\* All drivers; one call after another, two of their steps failing.
MCBndDrivers ==
    {"Ps2Keyboard", "Ps2Mouse", "Ps2Pointer", "IsaFloppy", "IsaBus", "IsaSerial", "VgaClass",
     "VgaMiniPort", "BiosKeyboard", "Snp16", "IdeBus", "BiosVideo", "BiosBlockIo"}
MCBndBudgets == {[calls |-> 4, faults |-> 2]}

MCSnpRequests ==
    {[enable |-> {"UNICAST"}, disable |-> {}, reset |-> FALSE, mcast |-> {}],
     [enable |-> {"MULTICAST"}, disable |-> {}, reset |-> FALSE, mcast |-> {"m"}],
     [enable |-> {"BROADCAST"}, disable |-> {"UNICAST"}, reset |-> TRUE, mcast |-> {}]}
MCSnpBudgets ==
    {[frames |-> c[1], sends |-> c[2], calls |-> c[3], faults |-> c[4]] :
        c \in {<<3, 0, 3, 0>>, <<0, 4, 2, 0>>, <<1, 2, 3, 0>>, <<1, 1, 3, 1>>, <<1, 0, 4, 0>>}}

\* Tables of every kind, of one or several versions.
V1 == {"1.0B"}
V3 == {"2.0", "3.0"}
MCAcpiTables ==
    {[kind |-> t[1], version |-> t[2], checksum |-> t[3]] :
        t \in {<<"FADT", V3, TRUE>>, <<"FADT", AllVersions, FALSE>>, <<"FACS", V1, TRUE>>,
               <<"DSDT", AllVersions, TRUE>>, <<"other", V1, TRUE>>, <<"other", V3, TRUE>>}}
MCAcpiRemovals == {V1, V3, AllVersions}
MCAcpiPages == 1..5
MCAcpiBudgets == {[calls |-> 4, faults |-> 0], [calls |-> 3, faults |-> 1]}

MCSerControls == {{"flow"}, {"loop"}, {}}
MCSerRates == {110}
MCSerBudgets ==
    {[bytes |-> c[1], writes |-> c[2], calls |-> c[3], faults |-> c[4]] :
        c \in {<<1, 2, 3, 1>>, <<3, 0, 3, 1>>, <<0, 5, 3, 1>>}}

MCFddDrives == {"A", "B"}
MCFddDisks == {"k1", "k2"}
MCFddProtected == {"k2"}
MCFddCalls ==
    {[write |-> c[1], lba |-> c[2], blocks |-> c[3]] :
        c \in {<<FALSE, 0, 1>>, <<TRUE, 0, 1>>, <<FALSE, 0, 2>>}}
MCFddBudgets ==
    {[calls |-> c[1], changes |-> c[2], faults |-> c[3]] :
        c \in {<<2, 1, 1>>, <<2, 2, 0>>, <<3, 0, 0>>}}

\* The module treats the drives alike: of two starts that differ by their names one is taken.
MCFddStart == fddDisk["B"] = NoDisk \/ (fddDisk["A"] = "k1" /\ fddDisk["B"] = "k2")

(***************************************************************************)
(* Boot options: three boots with devices that come, go and change their    *)
(* places; a menu with the pages, or with what else it saves.  Only the run *)
(* that looks for lost options uses a page and a deletion in one behaviour. *)
(***************************************************************************)
MCBbsTypes == {"disk", "cdrom"}
Disk1 == [type |-> "disk", prio |-> BBS_UNPRIORITIZED_ENTRY, name |-> "disk1"]
Disk2 == [type |-> "disk", prio |-> BBS_UNPRIORITIZED_ENTRY, name |-> "disk2"]
Cdrom == [type |-> "cdrom", prio |-> BBS_UNPRIORITIZED_ENTRY, name |-> "cdrom"]
Absent == [type |-> "cdrom", prio |-> BBS_IGNORE_ENTRY, name |-> "absent"]
Bbs(entries) == [i \in 0..(Len(entries) - 1) |-> entries[i + 1]]
Usb(boots) == [path |-> "usb", name |-> "usb", boots |-> boots]
Shell == [path |-> "shell", name |-> "shell", boots |-> TRUE]
MCBdsPlatforms ==
    {[bbs |-> Bbs(<<Disk1, Disk2, Cdrom>>), found |-> <<Usb(TRUE), Shell>>],
     [bbs |-> Bbs(<<Disk2, Disk1>>), found |-> <<Usb(FALSE), Shell>>],
     [bbs |-> Bbs(<<Absent, Disk1, Disk2>>), found |-> <<Shell>>]}
MCBdsFiles == {"file"}
MCBdsNumbers == 0..6
BdsBudget(boots, pages, deletes, orders, adds, nexts) ==
    [boots |-> boots, pages |-> pages, deletes |-> deletes, orders |-> orders, adds |-> adds,
     nexts |-> nexts]
MCBdsBudgets == {BdsBudget(2, 1, 0, 0, 0, 0), BdsBudget(2, 0, 1, 0, 0, 1),
                 BdsBudget(2, 0, 0, 1, 0, 0), BdsBudget(2, 0, 0, 0, 1, 0),
                 BdsBudget(3, 0, 0, 0, 0, 0)}
MCBdsLosing == {BdsBudget(2, 1, 1, 0, 0, 0)}

\* A disk by PIO, one by UDMA; drives whose disks are alike, smaller, locked.
MCIdeDevices ==
    {[type |-> "ATA", wide |-> FALSE, udma |-> FALSE, cdrom |-> FALSE],
     [type |-> "ATA", wide |-> TRUE, udma |-> FALSE, cdrom |-> FALSE],
     [type |-> "ATA", wide |-> TRUE, udma |-> TRUE, cdrom |-> FALSE],
     [type |-> "ATA", wide |-> FALSE, udma |-> TRUE, cdrom |-> FALSE],
     [type |-> "ATAPI", wide |-> FALSE, udma |-> FALSE, cdrom |-> TRUE],
     [type |-> "ATAPI", wide |-> FALSE, udma |-> FALSE, cdrom |-> FALSE]}
MCIdeDisks == [d \in {"i1", "i2", "i3", "blank"} |->
                  [last |-> CASE d = "blank" -> 0 [] d = "i3" -> 1 [] OTHER -> 2,
                   locked |-> d = "i3"]]
MCIdeCalls ==
    {[op |-> c[1], lba |-> c[2], blocks |-> c[3]] :
        c \in {<<"read", 0, 3>>, <<"write", 0, 3>>, <<"read", 1, 1>>, <<"write", 1, 1>>}}
MCIdeBudgets ==
    {[calls |-> c[1], changes |-> c[2], faults |-> c[3]] :
        c \in {<<1, 1, 2>>, <<3, 1, 0>>, <<2, 1, 1>>}}

(***************************************************************************)
(* Option ROMs: VGA, one of PCI 3.0 with an older image beside it, one of a *)
(* network card, a drive without a ROM.  There is no room for all of them.  *)
(***************************************************************************)
LbImage(pcat, rev3, size, runtime) ==
    [pcat |-> pcat, rev3 |-> rev3, size |-> size, runtime |-> runtime]
LbDevice(display, line, images, boots) ==
    [display |-> display, line |-> line, images |-> images, boots |-> boots]
MCLbDevices ==
    [d \in {"vga", "raid", "nic", "drive"} |->
        CASE d = "vga" -> LbDevice(TRUE, TRUE, <<LbImage(TRUE, FALSE, 3, 1)>>, 0)
          [] d = "raid" -> LbDevice(FALSE, TRUE, <<LbImage(TRUE, FALSE, 4, 2),
                               LbImage(TRUE, TRUE, 3, 2)>>, 2)
          [] d = "nic" -> LbDevice(FALSE, TRUE, <<LbImage(FALSE, FALSE, 1, 1),
                              LbImage(TRUE, FALSE, 2, 1)>>, 1)
          [] d = "drive" -> LbDevice(FALSE, TRUE, <<LbImage(FALSE, FALSE, 1, 1)>>, 0)]
LbMapOf(entries, hobs) == [entries |-> entries, hobs |-> hobs]
MCLbMaps ==
    {LbMapOf(<<E820(0, 5, "Conventional"), E820(6, 2, "RuntimeServicesCode"),
               E820(8, 3, "Conventional"), E820(11, 1, "Reserved")>>, <<E820(13, 2, "io")>>),
     LbMapOf(<<E820(12, 1, "ACPIReclaim"), E820(9, 3, "Conventional"), E820(7, 2, "LoaderData"),
               E820(16, 1, "MemoryMappedIO")>>, <<E820(15, 4, "io"), E820(17, 1, "rom")>>)}
MCLbSmbios == {1, 2}
LbBudget(calls, boots, tables, faults) ==
    [calls |-> calls, boots |-> boots, tables |-> tables, faults |-> faults]
MCLbBudgets ==
    {LbBudget(c[1], c[2], c[3], c[4]) :
        c \in {<<2, 0, 0, 1>>, <<1, 1, 0, 0>>, <<0, 1, 0, 1>>, <<0, 0, 2, 1>>}}

(***************************************************************************)
(* Capsules: a range over two volumes; a volume, then a range without fault *)
(* tolerance; two fault tolerant updates; a file; profiles with an entry    *)
(* that comes twice, a type that is none, a part missing.                   *)
(***************************************************************************)
MCUpdVolumes == [v \in {"main", "boot"} |->
                    IF v = "main" THEN [base |-> 0, blocks |-> <<2, 2>>, writable |-> TRUE]
                    ELSE [base |-> 4, blocks |-> <<1>>, writable |-> TRUE]]
UpdSection(name) == [kind |-> "section", name |-> name, value |-> NoValue]
UpdEntry(name, value) == [kind |-> "entry", name |-> name, value |-> value]
UpdHead(sections) ==
    <<[kind |-> "comment", name |-> "", value |-> NoValue], UpdSection("Head"),
      UpdEntry("NumOfUpdate", <<"1", "2">>[Len(sections)])>>
        \o [i \in DOMAIN sections |-> UpdEntry(UpdateStrCatNumber(i), sections[i])]
UpdPart(name, type, base, file, ft) ==
    <<UpdSection(name), UpdEntry("UpdateType", "0"), UpdEntry("UpdateType", type),
      UpdEntry("FvBaseAddress", base), UpdEntry("FileGuid", file),
      UpdEntry("FaultTolerant", ft), UpdEntry("Length", "4"), UpdEntry("", "1")>>
UpdFile(type, size, image) == [type |-> type, section |-> TRUE, size |-> size, image |-> image]
UpdCapsule(lines, a, b) == [lines |-> lines, files |-> "a" :> a @@ "b" :> b]
MCUpdCapsules ==
    {UpdCapsule(UpdHead(<<"s">>) \o UpdPart("s", "2", "1", "a", "TRUE"),
         UpdFile("RAW", 4, "one"), UpdFile("RAW", 1, "two")),
     UpdCapsule(UpdHead(<<"s", "t">>) \o UpdPart("s", "0", "0", "a", "TRUE")
                    \o UpdPart("t", "2", "2", "b", "FALSE"),
         UpdFile("FIRMWARE_VOLUME_IMAGE", 4, "three"), UpdFile("RAW", 3, "four")),
     UpdCapsule(UpdHead(<<"s", "t">>) \o UpdPart("s", "2", "0", "b", "TRUE")
                    \o UpdPart("t", "2", "1", "a", "TRUE"),
         UpdFile("RAW", 3, "five"), UpdFile("RAW", 1, "six")),
     UpdCapsule(UpdHead(<<"s", "t">>) \o UpdPart("s", "1", "0", "a", "FALSE")
                    \o UpdPart("t", "5", "1", "a", "TRUE"),
         UpdFile("DRIVER", 1, "seven"), UpdFile("RAW", 1, "eight")),
     UpdCapsule(UpdHead(<<"s", "none">>) \o UpdPart("s", "0", "0", "a", "TRUE"),
         UpdFile("RAW", 4, "nine"), UpdFile("RAW", 1, "ten"))}
MCUpdBudgets ==
    {[boots |-> c[1], losses |-> c[2], faults |-> c[3]] : c \in {<<3, 2, 0>>, <<2, 1, 2>>}}

(***************************************************************************)
(* ISA: DMA of 8 and 16 bits and of a bus master, from buffers below, above *)
(* and across 16 MB and 64 KB; accesses at the ends of two ranges.          *)
(***************************************************************************)
MCIsaFeatures == {{"dma", "memory"}, {"dma", "slave only"}, {"memory"}}
MCIsaResources ==
    <<[kind |-> "io", base |-> 2, length |-> 2], [kind |-> "io", base |-> 6, length |-> 0],
      [kind |-> "dma", mask |-> {1, 2, 5}], [kind |-> "irq", mask |-> {6}],
      [kind |-> "memory", base |-> 1, length |-> 4]>>
IsaAccess(space, offset, width, count, fifo) ==
    [space |-> space, offset |-> offset, width |-> width, count |-> count, fifo |-> fifo]
MCIsaAccesses ==
    {IsaAccess("io", 3, 1, 2, FALSE), IsaAccess("io", 3, 1, 2, TRUE),
     IsaAccess("io", 2, 2, 1, FALSE), IsaAccess("memory", 2, 1, 3, FALSE),
     IsaAccess("memory", 4, 2, 1, FALSE)}
IsaMapOf(op, chan, attributes, host, n) ==
    [op |-> op, chan |-> chan, attributes |-> attributes, host |-> host, n |-> n]
MCIsaMaps ==
    {IsaMapOf(op, 2, {"compatible", "8", "single"}, h, 3) : op \in Slave, h \in {2, 9, 11}}
        \cup {IsaMapOf(op, 5, {"compatible", "16", "demand"}, 4, 2) : op \in Slave}
        \cup {IsaMapOf("SlaveWrite", 5, {"compatible", "8", "demand"}, 4, 2)}
        \cup {IsaMapOf(op, 4, {}, h, 2) :
                 op \in {"BusMasterRead", "BusMasterWrite", "BusMasterCommonBuffer"}, h \in {0, 9}}
MCIsaBudgets == {[calls |-> 2, faults |-> 1]}

(***************************************************************************)
(* Sections: a signed and a compressed encapsulation, one inside the other, *)
(* and one that must be extracted; a stream that is refused.                *)
(***************************************************************************)
SecRecord(id, type, size, guid, attrs, inner) ==
    [id |-> id, type |-> type, size |-> size, guid |-> guid, attrs |-> attrs, inner |-> inner]
SecLeaf(id, type, size) == SecRecord(id, type, size, "none", {}, "none")
MCSecStreams ==
    [outer |-> [length |-> 31,
                sections |-> <<SecLeaf("first", "raw", 5),
                               SecRecord("signed", "guided", 12, "crc", {"status"}, "inner"),
                               SecRecord("packed", "guided", 4, "lzma", {"required"}, "unpacked"),
                               SecLeaf("last", "raw", 7)>>],
     inner |-> [length |-> 12,
                sections |-> <<SecRecord("pressed", "compression", 6, "none", {}, "deepest"),
                               SecLeaf("driver", "pe32", 4)>>],
     unpacked |-> [length |-> 5, sections |-> <<SecLeaf("file", "raw", 5)>>],
     deepest |-> [length |-> 8,
                  sections |-> <<SecLeaf("text", "raw", 4), SecLeaf("more", "pe32", 4)>>],
     broken |-> [length |-> 7, sections |-> <<SecLeaf("cut", "raw", 8)>>]]
MCSecExtracts == [crc |-> {"signed", "failed"}, lzma |-> {}]
MCSecSearches ==
    {[type |-> t, guid |-> "any", n |-> n] : t \in {"all", "raw"}, n \in {1, 3}}
        \cup {[type |-> "guided", guid |-> "lzma", n |-> 0]}
MCSecBudgets == {[opens |-> 1, searches |-> 2, faults |-> 1],
                 [opens |-> 2, searches |-> 1, faults |-> 0]}

\* A graphics card, its second head, a keyboard and one on USB; two serial ports.
MCVga == <<<<"Vga", 0>>>>
MCHead == <<<<"Vga", 0>>, <<"Head", 1>>>>
MCKeyboard == <<<<"Ps2", 0>>>>
MCUsb == <<<<"Usb", 0>>>>
MCUsbShort == <<<<"UsbClass", 3>>>>
MCTerminal(uid, rate) == <<<<"Com", uid>>, <<"Uart", rate>>, <<"Vendor", 1>>>>
MCConLocals ==
    {[path |-> MCVga, serves |-> {"ConOut", "ErrOut"}, short |-> <<>>],
     [path |-> MCHead, serves |-> {"ConOut"}, short |-> <<>>],
     [path |-> MCKeyboard, serves |-> {"ConIn"}, short |-> <<>>],
     [path |-> MCUsb, serves |-> {"ConIn"}, short |-> MCUsbShort]}
MCConDefaults ==
    {[ConIn |-> <<MCUsbShort, MCKeyboard>>, ConOut |-> <<MCHead>>, ErrOut |-> <<>>],
     [ConIn |-> <<MCKeyboard, MCTerminal(1, 1)>>, ConOut |-> <<MCVga, MCTerminal(1, 1)>>,
      ErrOut |-> <<MCTerminal(1, 1)>>]}
MCConPluggings == {{MCVga, MCHead, MCKeyboard, MCUsb}, {MCVga, MCUsb}}
MCConAttributes == {[rate |-> 0, flow |-> 2, type |-> 0]}
MCConBudgets ==
    {[boots |-> c[1], calls |-> c[2], saves |-> c[3], faults |-> c[4]] :
        c \in {<<1, 2, 1, 0>>, <<2, 0, 1, 1>>, <<2, 1, 0, 1>>}}

\* One letter with and without Ctrl, a function key; room for one key.
MCBkPatterns == {[char |-> "a", ctrl |-> FALSE], [char |-> "a", ctrl |-> TRUE]}
MCBkBudgets ==
    {[keys |-> c[1], flags |-> c[2], calls |-> c[3], resets |-> c[4], faults |-> c[5]] :
        c \in {<<2, 1, 0, 0, 0>>, <<2, 0, 2, 0, 0>>, <<1, 1, 1, 0, 0>>, <<1, 0, 0, 2, 1>>}}

(* Video: VESA modes of which one is left out for each reason there is; with*)
(* a monitor, one whose data are damaged, and data that override them; a VGA*)
(* with two bytes in a line.                                                *)
MCVidMode(num, res, w, h, line) ==
    [num |-> num, res |-> res, w |-> w, h |-> h, line |-> line, found |-> TRUE, color |-> TRUE,
     graphics |-> TRUE, linear |-> TRUE, bits |-> 32, base |-> 1]
MCVidVga == [num |-> 18, res |-> <<640, 480>>, w |-> 8, h |-> 3, line |-> 8]
MCVidSmall == MCVidMode(257, <<640, 480>>, 4, 2, 4)
MCVidWide == MCVidMode(259, <<800, 600>>, 3, 3, 4)
MCVidList ==
    <<[MCVidSmall EXCEPT !.num = 6], [MCVidSmall EXCEPT !.bits = 8], MCVidSmall,
      [MCVidWide EXCEPT !.bits = 36], [MCVidWide EXCEPT !.base = 0], MCVidWide,
      [MCVidWide EXCEPT !.linear = FALSE], [MCVidWide EXCEPT !.found = FALSE],
      MCVidMode(263, <<1280, 1024>>, 4, 2, 5), MCVidMode(264, <<1440, 900>>, 4, 2, 5),
      MCVidMode(265, <<1360, 768>>, 4, 2, 5)>>
MCNoEdid == [there |-> FALSE, sum |-> 0, established |-> {}, standard |-> {}, detailed |-> {}]
MCVidEdid == [there |-> TRUE, sum |-> 0, established |-> {9}, standard |-> {<<149, 0>>, <<1, 1>>},
              detailed |-> {<<1440, 768>>}]
MCVidMachine ==
    [compatible |-> TRUE, pcdVbe |-> TRUE, pcdVga |-> TRUE, highest |-> TRUE, vesa |-> 2,
     override |-> MCNoEdid, edid |-> MCNoEdid, bios |-> <<MCVidSmall, MCVidWide>>]
MCVidMachines ==
    {MCVidMachine, [MCVidMachine EXCEPT !.bios = <<MCVidWide>>],
     [MCVidMachine EXCEPT !.pcdVbe = FALSE], [MCVidMachine EXCEPT !.vesa = 1, !.pcdVga = FALSE]}
    \cup {[MCVidMachine EXCEPT !.bios = MCVidList, !.edid = e] :
              e \in {MCVidEdid, [MCVidEdid EXCEPT !.sum = 1]}}
    \cup {[MCVidMachine EXCEPT !.bios = MCVidList, !.override = MCVidEdid, !.compatible = FALSE,
                               !.highest = FALSE]}
MCVidColours == <<<<255, 255, 255>>, <<0, 0, 0>>, <<255, 0, 0>>>>
MCVidRect(sx, sy, dx, dy, w, h) ==
    [sx |-> sx, sy |-> sy, dx |-> dx, dy |-> dy, w |-> w, h |-> h]
MCVidRects ==
    {MCVidRect(0, 0, 0, 1, 3, 1), MCVidRect(0, 0, 1, 1, 2, 2), MCVidRect(1, 1, 0, 0, 2, 2),
     MCVidRect(0, 0, 4, 0, 4, 2), MCVidRect(0, 1, 0, 0, 8, 2), MCVidRect(1, 0, 2, 1, 5, 1)}
MCVidBudgets ==
    {[sets |-> c[1], blts |-> c[2], meanwhile |-> c[3], faults |-> c[4], stops |-> c[5]] :
         c \in {<<0, 2, 0, 0, 0>>, <<2, 1, 0, 0, 1>>, <<1, 0, 1, 2, 1>>, <<1, 1, 0, 1, 1>>}}

(***************************************************************************)
(* Disks of the BIOS: two media to exchange, one of them protected, and a  *)
(* fixed one with more cylinders than the registers can name.               *)
(***************************************************************************)
MCI13Medium(heads, sectors, cylinders, protected) ==
    [heads |-> heads, sectors |-> sectors, cylinders |-> cylinders, protected |-> protected]
MCI13Media == <<MCI13Medium(2, 2, 2, FALSE), MCI13Medium(1, 3, 2, TRUE), MCI13Medium(1, 2, 3, FALSE)>>
MCI13Machines ==
    {[extension |-> e[1], parameters |-> e[2], drives |-> <<{1, 2}, {3}>>] :
         e \in {<<"none", TRUE>>, <<"no packets", TRUE>>, <<"edd11", TRUE>>, <<"edd30", TRUE>>,
                <<"edd30", FALSE>>}}
MCI13Request(op, lba, blocks) ==
    [op |-> op, lba |-> lba, blocks |-> blocks, whole |-> TRUE, null |-> FALSE]
MCI13Requests ==
    {MCI13Request("read", 1, 3), MCI13Request("write", 2, 3), MCI13Request("read", 0, 0),
     [MCI13Request("read", 4, 1) EXCEPT !.whole = FALSE],
     [MCI13Request("write", 4, 1) EXCEPT !.null = TRUE]}
MCI13Budgets ==
    {[calls |-> c[1], nested |-> c[2], swaps |-> c[3], errors |-> c[4], resets |-> c[5]] :
         c \in {<<1, 1, 1, 0, 0>>, <<2, 0, 1, 0, 0>>, <<1, 0, 2, 1, 0>>, <<1, 0, 0, 3, 1>>}}

(***************************************************************************)
(* BootHotkeys: two options, a hot key with a modifier for one, a sequence  *)
(* of two keys for the other.                                               *)
(***************************************************************************)
MCBtOptions == 1 :> "a" @@ 2 :> "b"
MCBtOrder == <<1, 2>>
MCBtTexts == {"a", "off"}
BtKey(c, s) == [code |-> c, shift |-> s]
MCBtKeyOptions ==
    <<[boot |-> 2, crc |-> "b", codes |-> <<"F">>, shift |-> TRUE],
      [boot |-> 1, crc |-> "a", codes |-> <<"G", "H">>, shift |-> FALSE]>>
MCBtStrokes ==
    {BtKey("F", "left"), BtKey("G", "none"), BtKey("H", "none"), BtKey("enter", "none")}
MCBtEnter == BtKey("enter", "none")
MCBtTimeouts == {NoTimeout, 0, 1}
MCBtBudgets == {[boots |-> 1, keys |-> 3, runs |-> 0, edits |-> 0, faults |-> 0],
                [boots |-> 1, keys |-> 1, runs |-> 2, edits |-> 1, faults |-> 0],
                [boots |-> 2, keys |-> 0, runs |-> 1, edits |-> 1, faults |-> 0],
                [boots |-> 1, keys |-> 2, runs |-> 0, edits |-> 0, faults |-> 1]}

(***************************************************************************)
(* FloppyPeim: pages of two blocks, segments of two pages; reads of a whole *)
(* disk, within a cylinder, beyond one, beyond the end, of a second drive.  *)
(***************************************************************************)
MCFpMachines == {[drives |-> {0, 1}, top |-> 5], [drives |-> {1}, top |-> 11]}
FpRead(d, lba, n) == [device |-> d, lba |-> lba, blocks |-> n]
MCFpRequests == {FpRead(1, 0, 8), FpRead(1, 3, 2), FpRead(2, 4, 3), FpRead(1, 6, 3)}
MCFpBudgets ==
    {[calls |-> c[1], faults |-> c[2], swaps |-> c[3]] : c \in {<<2, 1, 1>>, <<3, 1, 0>>}}

(***************************************************************************)
(* The composition.  What a part may choose at first is fixed while another *)
(* part is explored.                                                        *)
(***************************************************************************)
MCInit ==
    /\ unit \in Units
    /\ Ps2Init /\ Idle("Ps2", ps2Left, Ps2Budgets)
    /\ BndInit /\ Idle("DriverBinding", bndLeft, BndBudgets)
    /\ Idle("DriverBinding", bndDriver, BndDrivers)
    /\ SnpInit /\ Idle("Snp16", snpLeft, SnpBudgets)
    /\ AcpiInit /\ Idle("AcpiSupport", acpiLeft, AcpiBudgets)
    /\ SerInit /\ Idle("IsaSerial", serLeft, SerBudgets)
    /\ FddInit /\ MCFddStart /\ Idle("IsaFloppy", fddLeft, FddBudgets)
    /\ BdsInit /\ Idle("BdsOptions", bdsLeft, BdsBudgets)
    /\ IdeInit /\ Idle("Ide", ideLeft, IdeBudgets) /\ Idle("Ide", ideDevice, IdeDevices)
    /\ Idle("Ide", ideDisk, DOMAIN IdeDisks)
    /\ LbInit /\ Idle("LegacyBios", lbLeft, LbBudgets)
    /\ UpdInit /\ Idle("UpdateDriver", updLeft, UpdBudgets)
    /\ IsaInit /\ Idle("IsaIo", isaLeft, IsaBudgets) /\ Idle("IsaIo", isaPcd, IsaFeatures)
    /\ SecInit /\ Idle("SectionExtraction", secLeft, SecBudgets)
    /\ ConInit /\ Idle("Consoles", conLeft, ConBudgets) /\ Idle("Consoles", conVar, ConDefaults)
    /\ BkInit /\ Idle("BiosKeyboard", bkLeft, BkBudgets) /\ Idle("BiosKeyboard", bkPcd, BkFast)
    /\ VidInit /\ Idle("BiosVideo", vidLeft, VidBudgets) /\ Idle("BiosVideo", vidMachine, VidMachines)
    /\ I13Init /\ Idle("BiosInt13", i13Left, I13Budgets) /\ Idle("BiosInt13", i13Machine, I13Machines)
    /\ BtInit /\ Idle("BootHotkeys", btLeft, BtBudgets)
    /\ Idle("BootHotkeys", btStore.next, {NoNumber})
    /\ FpInit /\ Idle("FloppyPeim", fpLeft, FpBudgets)
    /\ Idle("FloppyPeim", fpMachine, FpMachines)
    /\ Idle("FloppyPeim", fpDisk, {[p \in DevPositions |-> NoDiskette]})
    /\ Idle("IsaFloppy", fddDisk, {[d \in FddDrives |-> NoDisk]})
    /\ Idle("IsaFloppy", fddSelect, FddDrives)

\* The other parts do not move.
Only(u) ==
    /\ UNCHANGED unit
    /\ IF u = "Ps2" THEN TRUE ELSE UNCHANGED ps2Vars
    /\ IF u = "DriverBinding" THEN TRUE ELSE UNCHANGED bndVars
    /\ IF u = "Snp16" THEN TRUE ELSE UNCHANGED snpVars
    /\ IF u = "AcpiSupport" THEN TRUE ELSE UNCHANGED acpiVars
    /\ IF u = "IsaSerial" THEN TRUE ELSE UNCHANGED serVars
    /\ IF u = "IsaFloppy" THEN TRUE ELSE UNCHANGED fddVars
    /\ IF u = "BdsOptions" THEN TRUE ELSE UNCHANGED bdsVars
    /\ IF u = "Ide" THEN TRUE ELSE UNCHANGED ideVars
    /\ IF u = "LegacyBios" THEN TRUE ELSE UNCHANGED lbVars
    /\ IF u = "UpdateDriver" THEN TRUE ELSE UNCHANGED updVars
    /\ IF u = "IsaIo" THEN TRUE ELSE UNCHANGED isaVars
    /\ IF u = "SectionExtraction" THEN TRUE ELSE UNCHANGED secVars
    /\ IF u = "Consoles" THEN TRUE ELSE UNCHANGED conVars
    /\ IF u = "BiosKeyboard" THEN TRUE ELSE UNCHANGED bkVars
    /\ IF u = "BiosVideo" THEN TRUE ELSE UNCHANGED vidVars
    /\ IF u = "BiosInt13" THEN TRUE ELSE UNCHANGED i13Vars
    /\ IF u = "BootHotkeys" THEN TRUE ELSE UNCHANGED btVars
    /\ IF u = "FloppyPeim" THEN TRUE ELSE UNCHANGED fpVars

MCNext ==
    \/ unit = "Ps2" /\ Ps2Next /\ Only("Ps2")
    \/ unit = "DriverBinding" /\ BndNext /\ Only("DriverBinding")
    \/ unit = "Snp16" /\ SnpNext /\ Only("Snp16")
    \/ unit = "AcpiSupport" /\ AcpiNext /\ Only("AcpiSupport")
    \/ unit = "IsaSerial" /\ SerNext /\ Only("IsaSerial")
    \/ unit = "IsaFloppy" /\ FddNext /\ Only("IsaFloppy")
    \/ unit = "BdsOptions" /\ BdsNext /\ Only("BdsOptions")
    \/ unit = "Ide" /\ IdeNext /\ Only("Ide")
    \/ unit = "LegacyBios" /\ LbNext /\ Only("LegacyBios")
    \/ unit = "UpdateDriver" /\ UpdNext /\ Only("UpdateDriver")
    \/ unit = "IsaIo" /\ IsaNext /\ Only("IsaIo")
    \/ unit = "SectionExtraction" /\ SecNext /\ Only("SectionExtraction")
    \/ unit = "Consoles" /\ ConNext /\ Only("Consoles")
    \/ unit = "BiosKeyboard" /\ BkNext /\ Only("BiosKeyboard")
    \/ unit = "BiosVideo" /\ VidNext /\ Only("BiosVideo")
    \/ unit = "BiosInt13" /\ I13Next /\ Only("BiosInt13")
    \/ unit = "BootHotkeys" /\ BtNext /\ Only("BootHotkeys")
    \/ unit = "FloppyPeim" /\ FpNext /\ Only("FloppyPeim")

\* Every part keeps the types of its variables.
DevTypeOK ==
    /\ unit = "Ps2" => Ps2TypeOK
    /\ unit = "DriverBinding" => BndTypeOK
    /\ unit = "Snp16" => SnpTypeOK
    /\ unit = "AcpiSupport" => AcpiTypeOK
    /\ unit = "IsaSerial" => SerTypeOK
    /\ unit = "IsaFloppy" => FddTypeOK
    /\ unit = "BdsOptions" => BdsTypeOK
    /\ unit = "Ide" => IdeTypeOK
    /\ unit = "LegacyBios" => LbTypeOK
    /\ unit = "UpdateDriver" => UpdTypeOK
    /\ unit = "IsaIo" => IsaTypeOK
    /\ unit = "SectionExtraction" => SecTypeOK
    /\ unit = "Consoles" => ConTypeOK
    /\ unit = "BiosKeyboard" => BkTypeOK
    /\ unit = "BiosVideo" => VidTypeOK
    /\ unit = "BiosInt13" => I13TypeOK
    /\ unit = "BootHotkeys" => BtTypeOK
    /\ unit = "FloppyPeim" => FpTypeOK

(***************************************************************************)
(* The properties of the parts, each looked at only while its part moves.   *)
(***************************************************************************)
\* Whichever call fails, Start has got all that the driver needs or nothing,
\* and Stop gives back all of it.
Bnd_StartsWholeOrNotAtAll == unit = "DriverBinding" => StartsWholeOrNotAtAll

\* RSDT and XSDT of AcpiSupportDxe list exactly the tables that are set, none of
\* them freed, and pointers and checksums are those of their content.
Acpi_TablesConsistent == unit = "AcpiSupport" => TablesConsistent

\* After an enumeration by GenericBdsLib, BootOrder, the Boot#### variables and
\* LegacyDevOrder agree with each other and with the devices that are there.
Bds_BootListsSound == unit = "BdsOptions" => BootListsSound

\* No option ROM of LegacyBiosDxe is put over another, the BBS table agrees with
\* them, the region is locked when no call runs, and the memory map for the legacy
\* OS is sorted, does not overlap and covers what EFI's map and the hand-off
\* blocks tell.
Lb_LegacyBiosSound == unit = "LegacyBios" => LegacyRomsSound /\ E820Sound

\* Wherever the power fails in UpdateDriverDxe, an update that is reported as
\* done has written its image, and nothing outside its targets has changed.
Upd_UpdateSurvivesPowerLoss == unit = "UpdateDriver" => UpdateSurvivesPowerLoss

\* SectionExtractionDxe finds the section that a search of the streams as they
\* are open now would find, with its authentication status.
Sec_SectionsAsOpenedNow == unit = "SectionExtraction" => SectionsAsOpenedNow

\* The console variables list each console once, keep what they had and what
\* the user chose, and the system table refers to consoles that exist.
Con_ConsolesSound == unit = "Consoles" => ConsolesSound

\* Keys of the BIOS keyboard are delivered once and in order, and handlers are
\* called for the keys they were registered for.
Bk_BiosKeysSound == unit = "BiosKeyboard" => BiosKeysSound

\* What is on the screen of BiosVideoDxe is what the calls of Blt have drawn,
\* in a mode that the hardware is in.
Vid_VideoSound == unit = "BiosVideo" => VideoSound

\* Blocks that BiosBlkIo reads and writes are those of the request, on the
\* medium it was for; blocks that the floppy PEIM reads for a recovery are
\* those of the disk it found, and its failures do not outlast their cause.
Dsk_DisksSound ==
    /\ unit = "BiosInt13" => DisksSound
    /\ unit = "FloppyPeim" => PeimReadsRight

\* A hot key boots its option if and only if it was typed, and the loop over the
\* boot options leaves none out and takes BootNext once.
Bt_BootsAsAsked == unit = "BootHotkeys" => BootsAsAsked
=============================================================================
