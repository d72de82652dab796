-------------------------------- MODULE Tpl --------------------------------
(***************************************************************************)
(* Task priority levels, the scheduling under which the drivers run.  The  *)
(* dispatcher is the boot services' and is not in this package: this is    *)
(* what the drivers rely on when they call RaiseTPL, RestoreTPL,           *)
(* EfiAcquireLock and SignalEvent.  One processor runs the code of the     *)
(* highest level that was entered; an interrupt enters a level above the   *)
(* current one between any two of its steps; the notify function of a      *)
(* signaled event runs as soon as the level is below that of the event,    *)
(* and before the code below takes its next step.                          *)
(***************************************************************************)
EXTENDS Naturals

CONSTANTS
    Events,     \* events with notify functions
    EventTpl    \* the level of each

VARIABLES
    code,       \* per level: where its code is, where that returns to, its current TPL
    pending     \* events that were signaled and not notified yet

Application == 1
Callback == 2
Notify == 3
High == 4
Tpls == Application .. High

ASSUME EventTplAssumption == EventTpl \in [Events -> {Callback, Notify}]

(* A level at which nothing was entered. *)
Idle(l) == [pc |-> "idle", ret |-> "idle", tpl |-> l]

Active(l) == code[l].pc # "idle"

(* The code of level l is the one that runs, and no notify function has to *)
(* run before it goes on.                                                  *)
Runs(l) ==
    /\ Active(l)
    /\ \A k \in Tpls : k > l => ~Active(k)
    /\ \A e \in pending : EventTpl[e] <= code[l].tpl

(* It is the turn of the code at level l, which is at pc. *)
At(l, pc) == code[l].pc = pc /\ Runs(l)

(* The processor is below level l: it may enter it. *)
Below(l) ==
    /\ \A k \in Tpls : k >= l => ~Active(k)
    /\ \A k \in Tpls : k < l => code[k].tpl < l
    /\ \A e \in pending : EventTpl[e] <= l

(* Code that nothing of the model started: an application, or the handler  *)
(* of a timer or of a device.  Applications wait for what is pending.      *)
CanStart(l) == Below(l) /\ (l = Application => pending = {})

(* SignalEvent: an event that is pending already stays pending, once. *)
Signal(e) == pending' = pending \cup {e}

(* Code at level l starts at pc; goes on at pc; or calls pc to come back   *)
(* to ret.                                                                 *)
Start(l, pc) == code' = [code EXCEPT ![l] = [Idle(l) EXCEPT !.pc = pc]]
Goto(l, pc) == code' = [code EXCEPT ![l].pc = pc]
Call(l, pc, ret) == code' = [code EXCEPT ![l].pc = pc, ![l].ret = ret]
(* A function of level l ends: to its caller, or to nothing. *)
Back(l) == code' = [code EXCEPT ![l] = [Idle(l) EXCEPT !.pc = code[l].ret]]

(* A lock of level Notify is acquired or released, and the code goes on. *)
Lock(l, pc) == code' = [code EXCEPT ![l].pc = pc, ![l].tpl = Notify]
Unlock(l, pc) == code' = [code EXCEPT ![l].pc = pc, ![l].tpl = l]

TplInit == code = [l \in Tpls |-> Idle(l)] /\ pending = {}

(* Nothing runs and nothing is to be notified. *)
AtRest == pending = {} /\ \A l \in Tpls : ~Active(l)
=============================================================================
