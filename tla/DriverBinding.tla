--------------------------- MODULE DriverBinding ---------------------------
(***************************************************************************)
(* Start and Stop of the driver bindings of the bus and device drivers:    *)
(* what a driver holds of its controller (protocols it has opened, memory, *)
(* events, attributes it has enabled, protocols it has installed) when one *)
(* of the calls it makes fails.  A driver is a script of steps, each of    *)
(* them with the ways its failure takes.                                   *)
(***************************************************************************)
EXTENDS Integers, Sequences

CONSTANTS
    BndDrivers,  \* the drivers that are looked at
    BndBudgets   \* bounds: how many calls are made of a driver, how many fail in them

VARIABLES
    bndDriver,   \* the driver
    bndPc,       \* the call, and the step it is at
    bndHeld,     \* what the driver holds
    bndWas,      \* what it held when it was called
    bndSays,     \* what its last call returned
    bndLeft      \* what is left of the budget

bndVars == <<bndDriver, bndPc, bndHeld, bndWas, bndSays, bndLeft>>

(* A way a step may fail: what is taken and released then, what is returned. *)
Way(gets, frees, says) == [gets |-> gets, frees |-> frees, says |-> says]
Fails(frees) == {Way({}, frees, "error")}
Quits(frees) == {Way({}, frees, "success")}

(* Steps: one that gets something, one that only may fail, one that is over *)
(* at once when something is not there, one that releases.                  *)
Get(r, ways) == [gets |-> {r}, lets |-> {}, needs |-> {}, missing |-> "skip", ways |-> ways]
Try(ways) == [Get("none", ways) EXCEPT !.gets = {}]
Find(r, says) == [Try({}) EXCEPT !.needs = {r}, !.missing = says]
Release(rs) == [Try({}) EXCEPT !.lets = rs]
Uninstall(rs) == [Try(Fails({})) EXCEPT !.lets = rs]
(* Stop for a child, called only when the controller has one: the child is *)
(* closed, uninstalled, and opened again when that fails.                  *)
StopChild(rs) == [Uninstall(rs) EXCEPT !.needs = {"childOpen"}]

Ps2KeyboardExitLate == {"wait", "waitEx", "names", "dev", "path", "io"}
Ps2KeyboardExit == {"wait", "timer", "waitEx", "names", "dev", "path", "io"}
Ps2KeyboardStart ==
    LET Exit == Fails(Ps2KeyboardExit)
    IN  <<Get("path", Fails({})), Get("io", Fails({"path"})), Get("dev", Exit),
          Try(Exit),                          \* nothing answers at the status port
          Get("wait", Exit), Get("waitEx", Exit), Get("timer", Exit),
          Try(Exit), Try(Exit),               \* SetTimer, Reset
          Get("names", {}), Get("installed", Exit)>>
Ps2KeyboardStop ==
    <<Find("installed", "error"), Release({"timer"}), Uninstall({"installed"}),
      Release({"path", "io", "wait", "waitEx", "names", "dev"})>>

(* A mouse that does not answer to its reset is not there, which is no error. *)
Ps2MouseExit == {"aux", "wait", "timer", "names", "dev", "path", "io"}
Ps2MouseStart ==
    LET Exit == Fails(Ps2MouseExit)
    IN  <<Get("path", Fails({})), Get("io", Fails({"path"})), Get("dev", Exit),
          Try(Exit), Get("aux", {}),          \* KbcSelfTest, KbcEnableAux
          Try(Quits(Ps2MouseExit)),           \* Reset
          Get("wait", Exit), Get("timer", Exit), Try(Exit), Get("names", {}),
          Get("installed", Exit)>>
Ps2MouseStop ==
    <<Find("installed", "success"), Uninstall({"installed"}),
      Release({"timer", "wait", "names", "dev", "path", "io"})>>

Ps2PointerStart ==
    LET Exit == Fails(Ps2MouseExit)
    IN  <<Get("path", Fails({})), Get("io", Fails({"path"})), Get("dev", Exit),
          Try(Exit), Get("aux", {}), Try(Quits(Ps2MouseExit)), Get("wait", Exit),
          Get("timer", Exit), Try(Exit), Get("names", {}), Get("installed", Exit)>>
Ps2PointerStop ==
    <<Find("installed", "success"), Uninstall({"installed"}),
      Release({"timer", "wait", "names", "dev", "path", "io"})>>

(* Status is still that of the protocol that was opened when the allocations *)
(* fail: Start returns success and releases nothing.                         *)
IsaFloppyExit == {"event", "dev", "io", "path"}
IsaFloppyStart ==
    LET Done == Fails(IsaFloppyExit)
    IN  <<Get("path", Fails({})), Get("io", Done), Get("dev", Quits({})),
          Get("controller", Quits({})), Get("event", Done),
          Try(Done), Try(Done),               \* FddReset, DiscoverFddDevice
          Get("installed", Done)>>
IsaFloppyStop ==
    <<Find("installed", "error"), Uninstall({"installed"}), Release(IsaFloppyExit)>>

IsaCreateDevice == <<
    Get("dev", Quits({})), Get("devPath", Quits({"dev"})),
    Get("child", Quits({"dev", "devPath"})),
    Get("childOpen", Quits({"child", "dev", "devPath"}))>>
IsaBusStart ==
    <<Try(Fails({})), Get("path", Fails({})), Get("acpi", Fails({"path"})),
      Try(Quits({}))>>                        \* no device, or its resources are not told
    \o IsaCreateDevice
IsaBusStop ==
    <<StopChild({"childOpen", "child", "dev", "devPath"}), Release({"path", "acpi"})>>

IsaSerialExit == {"path", "io", "dev", "devPath"}
IsaSerialStart ==
    LET Error == Fails(IsaSerialExit)
    IN  <<Get("path", Fails({})), Get("io", Error),
          Try(Quits({})),                     \* the remaining device path ends: no child
          Get("dev", Error), Try(Error),      \* IsaSerialPortPresent
          Get("devPath", Error), Try(Error),  \* Reset
          Get("child", Error), Get("childOpen", Error)>>
IsaSerialStop ==
    <<Find("path", "error"), StopChild({"childOpen", "child", "dev", "devPath"}),
      Release({"path", "io"})>>

(* ErrorExit only returns. *)
VgaClassStart ==
    <<Try(Fails({})), Try(Fails({})), Get("mini", Fails({})), Get("private", {}),
      Try(Fails({})), Try(Fails({})), Try(Fails({})), Get("installed", Fails({}))>>
VgaClassStop ==
    <<Find("installed", "error"), Uninstall({"installed"}), Release({"mini", "private"})>>

VgaMiniPortStart ==
    LET Done == Fails({"pci", "private"})
    IN  <<Get("pci", Done), Get("private", {}), Get("installed", Done)>>
VgaMiniPortStop ==
    <<Find("installed", "error"), Uninstall({"installed"}), Release({"pci", "private"})>>

BiosKeyboardExit == {"wait", "waitEx", "timer", "dev", "io"}
BiosKeyboardStart ==
    LET Done == Fails(BiosKeyboardExit)
    IN  <<Try(Fails({})), Get("io", Fails({})), Get("dev", Done), Get("wait", Done),
          Get("waitEx", Done), Get("timer", Done), Try(Done), Try(Done),
          Get("installed", Done)>>
BiosKeyboardStop ==
    <<Find("installed", "error"), Uninstall({"installed"}), Release(BiosKeyboardExit)>>

Snp16Exit == {"path", "pci", "attributes", "dev", "undi", "undiStarted", "wait",
              "efiBoot", "legacyBoot", "xmit", "header", "data", "dest"}
Snp16Start ==
    LET Done == Fails(Snp16Exit)
    IN  <<Try(Fails({})), Get("path", Done), Get("pci", Done), Get("attributes", Done),
          Try(Done), Try(Done),               \* CheckPciRom, InstallPciRom
          Get("dev", Done), Get("undi", Done), Get("undiStarted", Done),
          Get("wait", Done), Get("efiBoot", Done), Get("legacyBoot", Done),
          Get("xmit", Done), Get("header", Done), Get("data", Done), Get("dest", Done),
          Try(Done), Try(Done),               \* Start and what is asked of UNDI, Stop
          Get("child", Done), Get("childOpen", Done)>>
Snp16Stop ==
    <<StopChild({"childOpen", "child"} \cup (Snp16Exit \ {"path", "pci", "attributes"})),
      Release({"path", "pci", "attributes"})>>

(* The devices on the channels are found one by one; one that cannot be     *)
(* made is left out.  One that cannot be installed is released, and what    *)
(* follows is done of it all the same.                                      *)
IdeBusExit == {"init", "id", "private", "path"}
IdeDeviceStart == <<
    Get("dev", Quits({})), Get("ioPort", Quits({})),
    Get("devPath", Quits({"dev", "ioPort"})),   \* DiscoverIdeDevice, the device path
    Try(Quits({"dev", "ioPort", "devPath"})),   \* SetDeviceTransferMode
    Get("child", {Way({"bootEvent"}, {"dev", "ioPort", "devPath"}, "success")}),
    Get("childOpen", {}), Get("bootEvent", {})>>
IdeBusStart ==
    LET Exit == Fails(IdeBusExit)
    IN  <<Get("path", Fails({})), Get("init", Exit), Try(Exit), Get("private", Exit),
          Get("id", Exit), Get("attributes", Exit),
          Try(Exit), Try(Exit)>>              \* the device path, GetIdeRegistersBaseAddr
        \o IdeDeviceStart
IdeBusStop ==
    <<StopChild({"childOpen", "child", "bootEvent", "dev", "ioPort", "devPath"}),
      Release({"attributes"} \cup IdeBusExit)>>

(* With VBE: without it, VgaMiniPort is installed on the controller itself. *)
BiosVideoRelease == {"mode", "info", "gopPath", "private"}
BiosVideoDone(frees) == Fails({"attributes", "pci"} \cup frees)
BiosVideoChildHandleInstall ==
    LET Done == BiosVideoDone({"bootEvent"} \cup BiosVideoRelease)
    IN  <<Get("private", Done), Try(Done), Get("bootEvent", Done), Get("mode", Done),
          Get("info", Done), Get("gopPath", {}), Get("pathProtocol", Done),
          Get("child", {}), Get("childOpen", Done)>>
BiosVideoStart ==
    LET Done == BiosVideoDone({})
    IN  <<Try(Fails({})), Try(Fails({})), Get("pci", Fails({})), Try(Done), Try(Done),
          Get("attributes", Done), Try(Done), Try(Done),
          Try(Quits({}))>>                    \* the remaining device path ends: no child
        \o BiosVideoChildHandleInstall
BiosVideoStop ==
    <<StopChild({"childOpen", "child", "pathProtocol", "bootEvent", "attributes"}
                \cup BiosVideoRelease),
      Release({"pci"})>>

(* The buffer under 1 MB is freed whatever becomes of the children, and a   *)
(* child that cannot be uninstalled is freed all the same.                  *)
BiosBlockIoExit == {"enabled", "pci", "path", "buffer"}
BiosBlockIoStart ==
    LET Error == Fails(BiosBlockIoExit)
    IN  <<Try(Error), Get("pci", Error), Get("path", Error), Get("enabled", Error),
          Try(Error), Try(Error),             \* CheckPciRom, InstallPciRom
          Get("buffer", Error), Get("private", Error),
          Try(Quits({"private"})),            \* BiosInitBlockIo
          Get("child", Fails({"private"} \cup BiosBlockIoExit)), Get("childOpen", Error)>>
BiosBlockIoStop ==
    <<Release({"buffer"}),
      [StopChild({"childOpen", "child", "private", "enabled"}) EXCEPT
           !.ways = Fails({"childOpen", "private", "enabled"})],
      Release({"path", "pci"})>>

Script(d, call) ==
    LET start == call = "Start"
    IN  CASE d = "Ps2Keyboard"  -> IF start THEN Ps2KeyboardStart ELSE Ps2KeyboardStop
          [] d = "Ps2Mouse"     -> IF start THEN Ps2MouseStart ELSE Ps2MouseStop
          [] d = "Ps2Pointer"   -> IF start THEN Ps2PointerStart ELSE Ps2PointerStop
          [] d = "IsaFloppy"    -> IF start THEN IsaFloppyStart ELSE IsaFloppyStop
          [] d = "IsaBus"       -> IF start THEN IsaBusStart ELSE IsaBusStop
          [] d = "IsaSerial"    -> IF start THEN IsaSerialStart ELSE IsaSerialStop
          [] d = "VgaClass"     -> IF start THEN VgaClassStart ELSE VgaClassStop
          [] d = "VgaMiniPort"  -> IF start THEN VgaMiniPortStart ELSE VgaMiniPortStop
          [] d = "BiosKeyboard" -> IF start THEN BiosKeyboardStart ELSE BiosKeyboardStop
          [] d = "Snp16"        -> IF start THEN Snp16Start ELSE Snp16Stop
          [] d = "IdeBus"       -> IF start THEN IdeBusStart ELSE IdeBusStop
          [] d = "BiosVideo"    -> IF start THEN BiosVideoStart ELSE BiosVideoStop
          [] d = "BiosBlockIo"  -> IF start THEN BiosBlockIoStart ELSE BiosBlockIoStop

(* The protocol a driver opens BY_DRIVER and its Supported looks at: while  *)
(* it is open the driver manages the controller.                            *)
OpenedBy(d) ==
    CASE d \in {"Ps2Keyboard", "Ps2Mouse", "Ps2Pointer", "IsaFloppy", "IsaSerial",
                "BiosKeyboard"} -> "io"
      [] d = "IsaBus" -> "acpi"
      [] d = "VgaClass" -> "mini"
      [] d = "IdeBus" -> "init"
      [] OTHER -> "pci"
Manages == OpenedBy(bndDriver) \in bndHeld

BndIdle == [call |-> "none", step |-> 0]
BndInit ==
    /\ bndDriver \in BndDrivers
    /\ bndPc = BndIdle
    /\ bndHeld = {}
    /\ bndWas = {}
    /\ bndSays = "nothing"
    /\ bndLeft \in BndBudgets

(* ConnectController and DisconnectController.                             *)
BndCalls(call) ==
    /\ bndPc = BndIdle
    /\ bndLeft.calls > 0
    /\ Manages <=> call = "Stop"
    /\ bndPc' = [call |-> call, step |-> 1]
    /\ bndWas' = bndHeld
    /\ bndLeft' = [bndLeft EXCEPT !.calls = @ - 1]
    /\ UNCHANGED <<bndDriver, bndHeld, bndSays>>

BndStep == Script(bndDriver, bndPc.call)[bndPc.step]
BndReturns(says) == bndPc' = BndIdle /\ bndSays' = says
BndGoesOn ==
    IF bndPc.step = Len(Script(bndDriver, bndPc.call))
    THEN BndReturns("success")
    ELSE bndPc' = [bndPc EXCEPT !.step = @ + 1] /\ UNCHANGED bndSays

BndDoes ==
    /\ bndPc # BndIdle
    /\ BndStep.needs \subseteq bndHeld
    /\ bndHeld' = (bndHeld \cup BndStep.gets) \ BndStep.lets
    /\ BndGoesOn
    /\ UNCHANGED <<bndDriver, bndWas, bndLeft>>

BndMisses ==
    /\ bndPc # BndIdle
    /\ ~(BndStep.needs \subseteq bndHeld)
    /\ IF BndStep.missing = "skip" THEN BndGoesOn ELSE BndReturns(BndStep.missing)
    /\ UNCHANGED <<bndDriver, bndHeld, bndWas, bndLeft>>

BndFails ==
    /\ bndPc # BndIdle
    /\ bndLeft.faults > 0
    /\ BndStep.needs \subseteq bndHeld
    /\ \E way \in BndStep.ways :
           /\ bndHeld' = (bndHeld \cup way.gets) \ way.frees
           /\ BndReturns(way.says)
    /\ bndLeft' = [bndLeft EXCEPT !.faults = @ - 1]
    /\ UNCHANGED <<bndDriver, bndWas>>

BndNext == BndCalls("Start") \/ BndCalls("Stop") \/ BndDoes \/ BndMisses \/ BndFails
BndSpec == BndInit /\ [][BndNext]_bndVars

----------------------------------------------------------------------------
(* What Start gets when nothing fails.                                     *)
Whole(d) == UNION {Script(d, "Start")[i].gets : i \in DOMAIN Script(d, "Start")}

(* What each driver is known to leave behind: the interface of the mouse,   *)
(* which Stop does not disable; the context of a floppy controller, kept    *)
(* for the next Start; the miniport and the memory of VgaClass; a child     *)
(* that could not be opened, which stays installed; what was enabled of a   *)
(* PCI device that is stopped without its child; an IDE device without its  *)
(* ports.                                                                   *)
LeftBehind(d) ==
    CASE d \in {"Ps2Mouse", "Ps2Pointer"} -> {"aux"}
      [] d = "IsaFloppy" -> {"controller"}
      [] d = "VgaClass" -> {"mini", "private"}
      [] d \in {"IsaSerial", "Snp16"} -> {"child"}
      [] d = "IdeBus" -> {"attributes", "dev", "bootEvent"}
      [] d = "BiosVideo" -> {"child", "pathProtocol", "attributes"}
      [] d = "BiosBlockIo" -> {"child", "private", "enabled"}
      [] OTHER -> {}

(* What a driver may hold between calls besides all or nothing: a bus or a  *)
(* port without its child, the floppy whose memory could not be allocated.  *)
WithoutChild(d) ==
    CASE d = "IsaFloppy" -> {{"path", "io"}, {"path", "io", "dev"}}
      [] d = "IsaBus" -> {{"path", "acpi"}}
      [] d = "IsaSerial" -> {{"path", "io"}}
      [] d = "IdeBus" -> {IdeBusExit}
      [] d = "BiosVideo" -> {{"pci"}}
      [] d = "BiosBlockIo" -> {{"path", "pci", "buffer"}, {"path", "pci"}}
      [] OTHER -> {}
(* What a Stop that fails has released by then: the timer of the keyboard,  *)
(* and what BiosBlockIo frees of a child that stays.                        *)
ReleasedEarly(d) ==
    CASE d = "Ps2Keyboard" -> {"timer"}
      [] d = "BiosBlockIo" -> {"childOpen", "private", "enabled", "buffer"}
      [] OTHER -> {}

BndTypeOK ==
    /\ bndDriver \in BndDrivers
    /\ bndPc = BndIdle \/ /\ bndPc.call \in {"Start", "Stop"}
                          /\ bndPc.step \in DOMAIN Script(bndDriver, bndPc.call)
    /\ bndHeld \subseteq Whole(bndDriver) /\ bndWas \subseteq Whole(bndDriver)
    /\ bndSays \in {"nothing", "success", "error"}
    /\ bndLeft.calls \in Nat /\ bndLeft.faults \in Nat

(* Whichever of the calls it makes fails, a driver has started or it has    *)
(* not: between the calls of Start and Stop it holds all it needs or none   *)
(* of it (a bus may be without its child), a Start that returned an error   *)
(* holds nothing, a Stop that returned one has released nothing, but for    *)
(* what LeftBehind, WithoutChild and ReleasedEarly name.                    *)
StartsWholeOrNotAtAll ==
    LET d == bndDriver  held == bndHeld \ LeftBehind(d)
        whole == Whole(d) \ LeftBehind(d)
    IN  bndPc = BndIdle =>
        /\ held \in {{}, whole, whole \ ReleasedEarly(d)} \cup WithoutChild(d)
        /\ bndSays = "error" =>
               IF bndWas \subseteq LeftBehind(d) THEN held = {}
               ELSE bndWas \subseteq bndHeld \cup ReleasedEarly(d)
=============================================================================
