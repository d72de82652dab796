------------------------------ MODULE Consoles ------------------------------
(***************************************************************************)
(* The console variables ConIn, ConOut and ErrOut: how a boot connects what *)
(* they list and takes out what is not there (GenericBdsLib), and how the   *)
(* setup menus read and write them (BootMaint).                             *)
(*                                                                         *)
(* A device path is a sequence of nodes.  A terminal is behind a serial     *)
(* port: its path is <<"Com", uid>>, <<"Uart", rate>>, perhaps              *)
(* <<"Flow", map>>, and <<"Vendor", type>>.  The rate stands for all the    *)
(* attributes of the UART node.  A variable that is not there is <<>>.      *)
(***************************************************************************)
EXTENDS Integers, Sequences, FiniteSets, SequencesExt, TLC

LOCAL INSTANCE FiniteSetsExt

CONSTANTS
    ConLocals,    \* consoles that are no terminals: [path, serves, short]
    ConPorts,     \* serial ports: there are COM 0 to COM ConPorts - 1
    ConDefaults,  \* what the variables may hold at first
    ConPluggings, \* sets of local consoles that may be plugged in together
    ConAttributes,\* what the user may choose for a terminal: [rate, flow, type]
    ConBudgets    \* bounds: [boots, calls, saves, faults]

ASSUME ConPortsAssumption == ConPorts \in Nat

VARIABLES
    conVar,      \* the variables
    conPhase,    \* "off", "boot" or "setup": what the firmware does
    conPlugged,  \* the local consoles of this boot
    conPaths,    \* device paths of the handles that have a console protocol
    conAll,      \* gConnectAllHappened
    conSys,      \* handles of the system table, by path; <<>> is none
    conMenu,     \* [active, terms]: the menus
    conJob,      \* the calls that are under way
    conKeep,     \* history: what belongs in a variable, and has been there in all boots since
    conOff,      \* history: what the user has taken out of a variable
    conLost,     \* history: a save was cut short, no console for output was there, or
                 \* BdsLibConnectAllConsoles has added a second terminal on a port
    conLeft      \* what is left of the budget

conVars == <<conVar, conPhase, conPlugged, conPaths, conAll, conSys, conMenu, conJob, conKeep,
             conOff, conLost, conLeft>>
conHistory == <<conKeep, conOff, conLost>>

ConNames == {"ConIn", "ConOut", "ErrOut"}
ConUids == 0..(ConPorts - 1)
LocalPaths == {l.path : l \in ConLocals}
NoMenu == [active |-> [n \in ConNames |-> {}], terms |-> <<>>]
ConCalls(names) == [i \in DOMAIN names |-> <<"Connect", names[i]>>]

----------------------------------------------------------------------------
(* Device paths.  BdsLibDelPartMatchInstance compares as many bytes as the  *)
(* shorter one has.                                                         *)
IsCom(path) == path # <<>> /\ path[1][1] = "Com"
HasFlow(path) == Len(path) > 2 /\ path[3][1] = "Flow"
PartMatch(a, b) == IsPrefix(a, b) \/ IsPrefix(b, a)
BdsLibDelPartMatchInstance(multi, single) ==
    SelectSeq(multi, LAMBDA instance : ~PartMatch(instance, single))
BdsLibMatchDevicePaths(multi, single) == single \in ToSet(multi)

IsTerminalDevicePath(path) == IsCom(path) /\ Last(path)[1] = "Vendor"
Serves(path) ==
    IF IsCom(path) THEN ConNames ELSE UNION {l.serves : l \in {k \in ConLocals : k.path = path}}
DefaultTerminal(uid) == <<<<"Com", uid>>, <<"Uart", 0>>, <<"Vendor", 0>>>>

----------------------------------------------------------------------------
(* BdsLibUpdateConsoleVariable: a path that is not listed is added, in the  *)
(* place of those it matches in part; the exclusive path is taken out.      *)
ConAddedWhole(var, path) ==   \* a mistake: what matches in part is not looked for
    Append(var, path)
ConAdded(var, path) ==
    IF BdsLibMatchDevicePaths(var, path) THEN var
    ELSE Append(BdsLibDelPartMatchInstance(var, path), path)
ConRemoved(var, path) == BdsLibDelPartMatchInstance(var, path)

(* UpdateSystemTableConsole: the console of the table is left alone while   *)
(* its handle has the protocol; else the first instance of the variable     *)
(* with a handle that has it.                                               *)
ConHandles(name) == {p \in conPaths : name \in Serves(p)}
UpdateSystemTableConsole(name) ==
    LET there == SelectSeq(conVar[name], LAMBDA i : \E p \in ConHandles(name) : IsPrefix(p, i))
    IN IF conSys[name] \in ConHandles(name) \/ there = <<>> THEN conSys[name]
       ELSE CHOOSE p \in ConHandles(name) : /\ IsPrefix(p, there[1])
                                         /\ \A q \in ConHandles(name) :
                                                IsPrefix(q, there[1]) => Len(q) <= Len(p)

----------------------------------------------------------------------------
(* BdsLibConnectDevicePath, as far as consoles: a port has one terminal,    *)
(* with the attributes it was connected with last.                          *)
SamePort(a, b) == IsCom(a) /\ IsCom(b) /\ a[1] = b[1]
ConConnects(path) ==   \* another terminal on the same port is in the way
    \/ path \in conPlugged
    \/ IsCom(path) /\ \A p \in conPaths : SamePort(p, path) /\ Front(p) = Front(path) => p = path
Connected(path) ==
    {p \in conPaths : ~SamePort(p, path)} \cup {path}
ShortFormThere(path) == \E l \in ConLocals : l.short = path /\ l.path \in conPlugged
IsShort(path) == \E l \in ConLocals : l.short = path
ShortConnected(path) == {l.path : l \in {k \in ConLocals : k.short = path}} \cap conPlugged

(* BdsLibConnectAllDriversToAllControllers: drivers and controllers, until  *)
(* nothing more is dispatched.                                              *)
AllConnected ==
    conPaths \cup conPlugged
        \cup {DefaultTerminal(u) : u \in {v \in ConUids : ~\E p \in conPaths : p[1] = <<"Com", v>>}}

----------------------------------------------------------------------------
(* The calls of one boot.  BdsLibConnectConsoleVariable goes from instance  *)
(* to instance; <<"Instances", name, those to come, one was there>>.        *)
Defaults == ConCalls(<<"ConOut", "ConIn", "ErrOut">>) \o <<<<"Table", ConNames>>>>
DefaultsWithOutConIn == ConCalls(<<"ConOut", "ErrOut">>) \o <<<<"Table", {"ConOut", "ErrOut"}>>>>
ConnectAll == Defaults \o <<<<"Drivers">>>> \o Defaults
GenericConnectAll == <<<<"Drivers">>, <<"AddAll">>>> \o Defaults

ConReady(call) == conJob # <<>> /\ conJob[1][1] = call
ConJob(job) == conJob' = job \o Tail(conJob)
(* No device of ConOut is there: the rest of the call up to the update of   *)
(* the system table is not done.                                            *)
AfterTable(job) ==
    LET at == CHOOSE i \in DOMAIN job :
                  job[i][1] = "Table" /\ \A k \in 1..(i - 1) : job[k][1] # "Table"
    IN SubSeq(job, at + 1, Len(job))
ConReturns(name, ok) ==
    IF name = "ConOut" /\ ~ok THEN conJob' = AfterTable(Tail(conJob)) /\ conLost' = TRUE
    ELSE conJob' = Tail(conJob) /\ UNCHANGED conLost

BdsLibConnectConsoleVariable ==
    /\ ConReady("Connect")
    /\ LET name == conJob[1][2] IN
         IF conVar[name] = <<>> THEN ConReturns(name, FALSE)
         ELSE ConJob(<<<<"Instances", name, conVar[name], FALSE>>>>) /\ UNCHANGED conLost
    /\ UNCHANGED <<conVar, conPhase, conPlugged, conPaths, conAll, conSys, conMenu, conKeep, conOff,
                   conLeft>>

ConnectInstance ==
    /\ ConReady("Instances")
    /\ LET name == conJob[1][2]
           path == conJob[1][3][1]
           rest == Tail(conJob[1][3])
           here == IF IsShort(path) THEN ShortFormThere(path) ELSE ConConnects(path)
           any == conJob[1][4] \/ here
       IN /\ conPaths' = IF ~here THEN conPaths
                         ELSE IF IsShort(path) THEN conPaths \cup ShortConnected(path)
                         ELSE Connected(path)
          /\ conVar' = IF here \/ IsShort(path) THEN conVar
                       ELSE [conVar EXCEPT ![name] = ConRemoved(@, path)]
          /\ IF rest = <<>> THEN ConReturns(name, any)
             ELSE ConJob(<<<<"Instances", name, rest, any>>>>) /\ UNCHANGED conLost
    /\ UNCHANGED <<conPhase, conPlugged, conAll, conSys, conMenu, conKeep, conOff, conLeft>>

UpdateSystemTable ==
    /\ ConReady("Table")
    /\ conSys' = [n \in ConNames |-> IF n \in conJob[1][2] THEN UpdateSystemTableConsole(n)
                                     ELSE conSys[n]]
    /\ ConJob(<<>>)
    /\ UNCHANGED <<conVar, conPhase, conPlugged, conPaths, conAll, conMenu, conLeft, conHistory>>

ConnectDrivers ==
    /\ ConReady("Drivers")
    /\ conPaths' = AllConnected
    /\ ConJob(<<>>)
    /\ UNCHANGED <<conVar, conPhase, conPlugged, conAll, conSys, conMenu, conLeft, conHistory>>

(* BdsLibConnectAllConsoles: every handle with the protocol is added.       *)
Keepable(paths) == {p \in paths \cap LocalPaths : \A q \in LocalPaths : PartMatch(p, q) => p = q}
TerminalsDiffer(vars) ==
    \E m, n \in ConNames : \E p \in ToSet(vars[m]), q \in ToSet(vars[n]) :
        p # <<>> /\ q # <<>> /\ SamePort(p, q) /\ p # q
AddAllConsoles ==   \* terminals too, as the drivers have connected them
    /\ ConReady("AddAll")
    /\ conVar' = [n \in ConNames |-> FoldLeft(ConAdded, conVar[n], SetToSeq(ConHandles(n)))]
    /\ conLost' = (conLost \/ TerminalsDiffer(conVar'))
    /\ conKeep' = [n \in ConNames |-> conKeep[n] \cup Keepable(ConHandles(n))]
    /\ conOff' = [n \in ConNames |-> {}]
    /\ ConJob(<<>>)
    /\ UNCHANGED <<conPhase, conPlugged, conPaths, conAll, conSys, conMenu, conLeft>>

----------------------------------------------------------------------------
(* LocateSerialIo: the ports in order of their UIDs, with the attributes    *)
(* they have now, then those of the variables.                              *)
PortPath(uid) ==
    LET p == CHOOSE q \in conPaths : q[1] = <<"Com", uid>> /\ IsCom(q)
    IN SelectSeq(p, LAMBDA node : node[1] # "Vendor")
FlowOf(path) == IF HasFlow(path) THEN path[3][2] ELSE 0
WithFlow(path, flow) ==
    IF HasFlow(path) THEN [path EXCEPT ![3] = <<"Flow", flow>>] ELSE Append(path, <<"Flow", flow>>)
Located ==
    [u \in ConUids |-> [path |-> PortPath(u), rate |-> PortPath(u)[2][2],
                        flow |-> FlowOf(PortPath(u)), type |-> 0, in |-> {}]]

(* UpdateComAttributeFromVariable, for one instance: HasFlowControlNode     *)
(* stays set for the instances after it.                                    *)
FromInstance(acc, path) ==
    IF ~IsCom(path) THEN acc
    ELSE LET uid == path[1][2]
             has == acc.has \/ HasFlow(path)
             old == [acc.terms[uid].path EXCEPT ![2] = path[2]]
             new == IF HasFlow(old) \/ has THEN WithFlow(old, FlowOf(path)) ELSE old
         IN [has |-> has,
             terms |-> [acc.terms EXCEPT ![uid] =
                            [@ EXCEPT !.path = new, !.rate = path[2][2], !.flow = FlowOf(path)]]]
UpdateComAttributeFromVariable(terms, var) ==
    FoldLeft(FromInstance, [has |-> FALSE, terms |-> terms], var).terms

WithVendor(path, type) == Append(path, <<"Vendor", type>>)
ConListed(term) ==   \* IsConIn, IsConOut, IsStdErr, and the last type that matches
    LET types == {t \in 0..3 : \E n \in ConNames :
                      BdsLibMatchDevicePaths(conVar[n], WithVendor(term.path, t))}
    IN [term EXCEPT
          !.in = {n \in ConNames : \E t \in types :
                      BdsLibMatchDevicePaths(conVar[n], WithVendor(term.path, t))},
          !.type = IF types = {} THEN 0 ELSE CHOOSE t \in types : \A s \in types : s <= t]
LocateSerialIo ==
    LET terms == FoldLeft(UpdateComAttributeFromVariable, Located,
                          <<conVar["ConOut"], conVar["ConIn"], conVar["ErrOut"]>>)
    IN [u \in ConUids |-> ConListed(terms[u])]

(* GetConsoleMenu: all devices but the terminals.  ConInDev and its like    *)
(* list the handles that have the protocol (ConPlatformDxe, external).      *)
MenuPaths(name) == {p \in ConHandles(name) : ~IsTerminalDevicePath(p)}
GetConsoleMenu(name) ==
    {p \in MenuPaths(name) : BdsLibMatchDevicePaths(conVar[name], p)}
InitAllMenu ==
    [active |-> [n \in ConNames |-> GetConsoleMenu(n)], terms |-> LocateSerialIo]

ConBootMaint ==
    /\ conPhase = "boot" /\ conJob = <<>> /\ conLeft.saves > 0
    /\ conPhase' = "setup"
    /\ conAll' = TRUE
    /\ conJob' = (IF conAll THEN <<>> ELSE <<<<"Drivers">>>>) \o <<<<"Menu">>>>
    /\ UNCHANGED <<conVar, conPlugged, conPaths, conSys, conMenu, conLeft, conHistory>>
InitializeBM ==
    /\ ConReady("Menu")
    /\ conMenu' = InitAllMenu
    /\ ConJob(<<>>)
    /\ UNCHANGED <<conVar, conPhase, conPlugged, conPaths, conAll, conSys, conLeft, conHistory>>

(* ChangeTerminalDevicePath: the node of the flow control is changed where  *)
(* it follows the UART node, else added at the end when it is not zero.     *)
ChangeTerminalDevicePath(path, term) ==
    LET new == [path EXCEPT ![2] = <<"Uart", term.rate>>]
    IN IF HasFlow(new) \/ term.flow # 0 THEN WithFlow(new, term.flow) ELSE new

(* BootMaintRouteConfig: changed terminals are entered, and all variables   *)
(* written with the devices active so far; then those whose devices are     *)
(* changed.                                                                 *)
ChangedTerm(term, attributes) ==
    LET new == [term EXCEPT !.rate = attributes.rate, !.flow = attributes.flow,
                            !.type = attributes.type]
    IN [new EXCEPT !.path = ChangeTerminalDevicePath(@, new)]
SavesOf(checks, changed) ==
    LET writes(name, active) == <<<<"Delete", name, active>>, <<"Write", name>>>>
        all == <<"ConIn", "ConOut", "ErrOut">>
    IN FlattenSeq([i \in 1..3 |-> IF changed THEN writes(all[i], conMenu.active[all[i]]) ELSE <<>>])
       \o FlattenSeq([i \in 1..3 |-> IF checks[all[i]] # conMenu.active[all[i]]
                                     THEN writes(all[i], checks[all[i]]) ELSE <<>>])
BootMaintRouteConfig(checks, choice) ==   \* choice: [uid |-> attributes], for those changed
    /\ conPhase = "setup" /\ conJob = <<>> /\ conLeft.saves > 0
    /\ conMenu' = [conMenu EXCEPT !.terms =
                       [u \in ConUids |-> IF u \in DOMAIN choice THEN ChangedTerm(@[u], choice[u])
                                          ELSE @[u]]]
    /\ conJob' = SavesOf(checks, choice # <<>>)
    /\ conLeft' = [conLeft EXCEPT !.saves = @ - 1]
    /\ UNCHANGED <<conVar, conPhase, conPlugged, conPaths, conAll, conSys, conHistory>>

(* Var_UpdateConsoleOption: the variable is deleted, then written from the  *)
(* menu and the terminals.                                                  *)
DeleteConsole ==
    /\ ConReady("Delete")
    /\ LET name == conJob[1][2] IN
         /\ conMenu' = [conMenu EXCEPT !.active[name] = conJob[1][3]]
         /\ conVar' = [conVar EXCEPT ![name] = <<>>]
         /\ conKeep' = [conKeep EXCEPT ![name] = Keepable(conJob[1][3])]
         /\ conOff' = [conOff EXCEPT ![name] = MenuPaths(name) \ conJob[1][3]]
    /\ ConJob(<<>>)
    /\ UNCHANGED <<conPhase, conPlugged, conPaths, conAll, conSys, conLost, conLeft>>
TerminalPath(term) ==
    LET path == WithVendor(term.path, term.type)
    IN IF HasFlow(path) \/ term.flow = 0 THEN ChangeTerminalDevicePath(path, term)
       ELSE Append([path EXCEPT ![2] = <<"Uart", term.rate>>], <<"Flow", term.flow>>)
ConsoleOption(name) ==
    SetToSeq(conMenu.active[name])
        \o [i \in 1..Cardinality({u \in ConUids : name \in conMenu.terms[u].in}) |->
              LET us == {u \in ConUids : name \in conMenu.terms[u].in}
                  u == CHOOSE v \in us : Cardinality({w \in us : w < v}) = i - 1
              IN TerminalPath(conMenu.terms[u])]
Var_UpdateConsoleOption ==
    /\ ConReady("Write")
    /\ conVar' = [conVar EXCEPT ![conJob[1][2]] = ConsoleOption(conJob[1][2])]
    /\ ConJob(<<>>)
    /\ UNCHANGED <<conPhase, conPlugged, conPaths, conAll, conSys, conMenu, conLeft, conHistory>>

LeaveBootMaint ==   \* FreeAllMenu
    /\ conPhase = "setup" /\ conJob = <<>>
    /\ conPhase' = "boot" /\ conMenu' = NoMenu
    /\ UNCHANGED <<conVar, conPlugged, conPaths, conAll, conSys, conJob, conLeft, conHistory>>

----------------------------------------------------------------------------
(* BdsEntry: a variable that is no device path is deleted.  Then the        *)
(* platform's policy calls the library (external), in any order.            *)
BdsFormalizeConsoleVariable(var) == IF <<>> \in ToSet(var) THEN <<>> ELSE var
Boot(plugged) ==
    /\ conPhase = "off" /\ conLeft.boots > 0
    /\ conPhase' = "boot" /\ conPlugged' = plugged /\ conPaths' = {} /\ conAll' = FALSE
    /\ conSys' = [n \in ConNames |-> <<>>]
    /\ conVar' = [n \in ConNames |-> BdsFormalizeConsoleVariable(conVar[n])]
    /\ conKeep' = [n \in ConNames |-> conKeep[n] \cap plugged]
    /\ conLeft' = [conLeft EXCEPT !.boots = @ - 1]
    /\ UNCHANGED <<conMenu, conJob, conOff, conLost>>
ConLibraryCall(job) ==
    /\ conPhase = "boot" /\ conJob = <<>> /\ conLeft.calls > 0
    /\ conJob' = job
    /\ conLeft' = [conLeft EXCEPT !.calls = @ - 1]
    /\ UNCHANGED <<conVar, conPhase, conPlugged, conAll, conSys, conMenu, conHistory>>
BdsLibConnectAll ==
    \/ /\ \/ ConLibraryCall(Defaults) \/ ConLibraryCall(DefaultsWithOutConIn)
          \/ ConLibraryCall(ConnectAll)
          \/ ConLibraryCall(GenericConnectAll)
       /\ UNCHANGED conPaths
    \/ ConLibraryCall(ConnectAll) /\ conPaths' = {}   \* BdsLibLoadDrivers: BdsLibDisconnectAllEfi

(* A reset, or a loss of power: between a deletion and the write after it   *)
(* the variable is lost.  An operating system may write anything.           *)
ConPending == \E i \in DOMAIN conJob : conJob[i][1] \in {"Delete", "Write"}
ConReset ==
    /\ conPhase # "off"
    /\ conJob # <<>> => conLeft.faults > 0
    /\ conPhase' = "off" /\ conMenu' = NoMenu /\ conJob' = <<>>
    /\ conLost' = (conLost \/ ConPending)
    /\ conKeep' = [n \in ConNames |-> IF ConReady("Write") /\ conJob[1][2] = n THEN {}
                                      ELSE conKeep[n]]
    /\ conLeft' = [conLeft EXCEPT !.faults = IF conJob = <<>> THEN @ ELSE @ - 1]
    /\ UNCHANGED <<conVar, conPlugged, conPaths, conAll, conSys, conOff>>
Garbled(name) ==
    /\ conPhase = "off" /\ conLeft.faults > 0
    /\ conVar' = [conVar EXCEPT ![name] = <<<<>>>>]
    /\ conKeep' = [conKeep EXCEPT ![name] = {}]
    /\ conLeft' = [conLeft EXCEPT !.faults = @ - 1]
    /\ UNCHANGED <<conPhase, conPlugged, conPaths, conAll, conSys, conMenu, conJob, conOff,
                   conLost>>

ConInit ==
    /\ conVar \in ConDefaults
    /\ conPhase = "off" /\ conPlugged = {} /\ conPaths = {} /\ conAll = FALSE
    /\ conSys = [n \in ConNames |-> <<>>]
    /\ conMenu = NoMenu /\ conJob = <<>>
    /\ conKeep = [n \in ConNames |-> Keepable(ToSet(conVar[n]))]
    /\ conOff = [n \in ConNames |-> {}]
    /\ conLost = FALSE
    /\ conLeft \in ConBudgets

(* The user changes at most one device of one menu and one terminal.        *)
ConChoices == {<<>>} \cup {(u :> a) : u \in ConUids, a \in ConAttributes}
ConChecks == {conMenu.active} \cup
    UNION {{[conMenu.active EXCEPT ![n] = SymDiff(@, {p})] : p \in MenuPaths(n)} : n \in ConNames}
ConNext ==
    \/ \E plugged \in ConPluggings : Boot(plugged)
    \/ BdsLibConnectAll
    \/ BdsLibConnectConsoleVariable \/ ConnectInstance \/ UpdateSystemTable
    \/ ConnectDrivers \/ AddAllConsoles
    \/ ConBootMaint \/ InitializeBM
    \/ \E choice \in ConChoices : \E checks \in ConChecks : BootMaintRouteConfig(checks, choice)
    \/ DeleteConsole \/ Var_UpdateConsoleOption \/ LeaveBootMaint
    \/ ConReset
    \/ \E n \in ConNames : Garbled(n)

----------------------------------------------------------------------------
ConTypeOK ==
    /\ conPhase \in {"off", "boot", "setup"} /\ conAll \in BOOLEAN /\ conLost \in BOOLEAN
    /\ conPlugged \subseteq LocalPaths
    /\ \A p \in conPaths : p \in LocalPaths \/ IsTerminalDevicePath(p)
    /\ DOMAIN conVar = ConNames /\ DOMAIN conSys = ConNames
    /\ \A n \in ConNames : conKeep[n] \subseteq LocalPaths /\ conOff[n] \subseteq LocalPaths

(* Unless a save is between its deletion and its write, a console variable  *)
(* lists no device twice; it lists every console it had before, or that the *)
(* user or BdsLibConnectAllConsoles has put there, as long as that is       *)
(* plugged in, and none that the user has taken out.  Terminals have the    *)
(* same attributes in all three, and the system table refers to consoles    *)
(* for output that exist, unless a save was cut short or no such console    *)
(* was there to end BdsLibConnectAllDefaultConsoles.                        *)
ConsolesSound ==
    /\ \A n \in ConNames :
           ~(ConReady("Write") /\ conJob[1][2] = n) =>
               /\ IsInjective(conVar[n])
               /\ conKeep[n] \subseteq ToSet(conVar[n])
               /\ conOff[n] \cap ToSet(conVar[n]) = {}
    /\ (~conLost /\ conJob = <<>>) =>
           /\ ~TerminalsDiffer(conVar)
           /\ \A n \in ConNames \ {"ConIn"} : conSys[n] = <<>> \/ conSys[n] \in conPaths
=============================================================================
