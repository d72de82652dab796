----------------------------- MODULE BiosKeyboard -----------------------------
(***************************************************************************)
(* The keyboard by INT 16h (BiosKeyboard.c): keys that the BIOS has buffered*)
(* are converted with the flags of the BIOS data area as they are by then,  *)
(* shown to the functions registered for them and queued; a reset of the    *)
(* keyboard and of its controller, where every step may fail.               *)
(*                                                                         *)
(* All of it runs at TPL_NOTIFY, but a registered function may read a key   *)
(* itself: handlers nest, and bkStack holds them, the innermost one last.   *)
(* There is one letter; ^A is the code that the BIOS makes of it with Ctrl. *)
(***************************************************************************)
EXTENDS Integers, Sequences, FiniteSets, SequencesExt

CONSTANTS
    BkQueueMax,   \* QUEUE_MAX_COUNT
    BkPatterns,   \* what a function may be registered for: [char, ctrl]
    BkFunctions,  \* "quiet", "forgets" (its own registration) or "reads" (a key)
    BkFast,       \* values of PcdFastPS2Detection
    BkBudgets     \* bounds: [keys, flags, calls, resets, faults]

ASSUME BkQueueAssumption == BkQueueMax \in Nat \ {0, 1}

VARIABLES
    bkBios,     \* keys in the buffer of the BIOS: [id, code]
    bkFlags,    \* flags of the BIOS data area: "caps", "shift", "ctrl"
    bkQueue,    \* Queue: EFI_KEY_DATA
    bkNodes,    \* all nodes of NotifyList there have been: [pattern, fn, next]
    bkFirst,    \* ForwardLink of the head; 0 is the head
    bkStack,    \* handlers that run: [by, key, link, inside, old, called]
    bkTodo,     \* steps of a reset or of SetState that are to come
    bkKbc,      \* [kbd, aux, tested]: interfaces enabled, system flag
    bkMouse,    \* MouseEnable; before the reset: the mouse, and whether the reset reads it
    bkPcd,      \* PcdFastPS2Detection
    bkStatus,   \* of the last reset: "none" while there is none to speak of
    bkRead,     \* history: keys taken from the queue: [id, code, char]
    bkLost,     \* history: keys that found the queue full
    bkNested,   \* history: a function has read a key
    bkDead,     \* history: a function was called that is not registered any more
    bkLeft      \* what is left of the budget

bkVars == <<bkBios, bkFlags, bkQueue, bkNodes, bkFirst, bkStack, bkTodo, bkKbc, bkMouse, bkPcd,
            bkStatus, bkRead, bkLost, bkNested, bkDead, bkLeft>>
bkInput == <<bkBios, bkFlags, bkQueue, bkRead, bkLost>>
bkList == <<bkNodes, bkFirst, bkDead>>
bkHardware == <<bkTodo, bkKbc, bkMouse, bkPcd, bkStatus>>

----------------------------------------------------------------------------
(* The BIOS (external): what it buffers for a key with the flags it has.    *)
BiosCode(key, flags) ==
    IF key # "letter" THEN key
    ELSE IF "ctrl" \in flags THEN "^A"
    ELSE IF ("shift" \in flags) # ("caps" \in flags) THEN "A" ELSE "a"

(* EFI_KEY_DATA of a buffered key; a letter does not report its shift.      *)
Letters == {"a", "A"}
KeyDataOf(k, flags) ==
    LET ctrl == "ctrl" \in flags
        char == IF k.code = "^A" /\ ctrl
                THEN IF ("shift" \in flags) = ("caps" \in flags) THEN "a" ELSE "A"
                ELSE k.code
    IN [id |-> k.id, code |-> k.code, char |-> char, ctrl |-> ctrl,
        shift |-> "shift" \in flags /\ char \notin Letters]
(* BiosKeyboardReadKeyStroke *)
Stroke(data) == IF data.ctrl /\ data.char \in Letters THEN "^A" ELSE data.char

Enqueued(data) ==
    IF Len(bkQueue) = BkQueueMax - 1
    THEN UNCHANGED bkQueue /\ bkLost' = bkLost \cup {data.id}
    ELSE bkQueue' = Append(bkQueue, data) /\ UNCHANGED bkLost

----------------------------------------------------------------------------
(* NotifyList.  A node that is removed keeps its own link.                  *)
RECURSIVE NodesFrom(_)
NodesFrom(n) == IF n = 0 THEN <<>> ELSE <<n>> \o NodesFrom(bkNodes[n].next)
BkRegistered == NodesFrom(bkFirst)
IsKeyRegistered(pattern, char, ctrl) ==   \* a state of 0 stands for any
    pattern.char = char /\ (pattern.ctrl => ctrl)
UnlinkedCleared(n) ==   \* a mistake: the removed node is made a list of its own
    [m \in DOMAIN bkNodes |-> IF m = n THEN [bkNodes[m] EXCEPT !.next = 0]
                              ELSE IF bkNodes[m].next = n /\ m \in ToSet(BkRegistered)
                              THEN [bkNodes[m] EXCEPT !.next = bkNodes[n].next]
                              ELSE bkNodes[m]]
Unlinked(n) ==
    [m \in DOMAIN bkNodes |-> IF bkNodes[m].next = n /\ m \in ToSet(BkRegistered)
                              THEN [bkNodes[m] EXCEPT !.next = bkNodes[n].next]
                              ELSE bkNodes[m]]
RemoveEntryList(n) ==
    /\ bkNodes' = Unlinked(n)
    /\ bkFirst' = IF bkFirst = n THEN bkNodes[n].next ELSE bkFirst

BkIdle == bkStack = <<>> /\ bkTodo = <<>>
BiosKeyboardRegisterKeyNotify ==
    /\ BkIdle /\ bkLeft.calls > 0
    /\ bkLeft' = [bkLeft EXCEPT !.calls = @ - 1]
    /\ \E pattern \in BkPatterns, fn \in BkFunctions :
          IF \E n \in ToSet(BkRegistered) :
                 /\ IsKeyRegistered(bkNodes[n].pattern, pattern.char, pattern.ctrl)
                 /\ bkNodes[n].fn = fn
          THEN UNCHANGED bkList
          ELSE LET new == Len(bkNodes) + 1
                   tail == [n \in DOMAIN bkNodes |->
                              IF n \in ToSet(BkRegistered) /\ bkNodes[n].next = 0
                              THEN [bkNodes[n] EXCEPT !.next = new] ELSE bkNodes[n]]
               IN /\ bkNodes' = Append(tail, [pattern |-> pattern, fn |-> fn, next |-> 0])
                  /\ bkFirst' = IF bkFirst = 0 THEN new ELSE bkFirst
                  /\ UNCHANGED bkDead
    /\ UNCHANGED <<bkInput, bkStack, bkHardware, bkNested>>
BiosKeyboardUnregisterKeyNotify ==
    /\ BkIdle /\ bkLeft.calls > 0
    /\ bkLeft' = [bkLeft EXCEPT !.calls = @ - 1]
    /\ \E n \in ToSet(BkRegistered) : RemoveEntryList(n)
    /\ UNCHANGED <<bkInput, bkStack, bkHardware, bkNested, bkDead>>

----------------------------------------------------------------------------
(* BiosKeyboardTimerHandler: at a tick, for WaitForKey, or by somebody who  *)
(* takes a key from the queue when it returns.                              *)
BkTop == Last(bkStack)
BkTaken(queue) ==
    IF queue = <<>> THEN bkQueue' = queue /\ UNCHANGED bkRead
    ELSE /\ bkQueue' = Tail(queue)
         /\ bkRead' = Append(bkRead, [id |-> queue[1].id, code |-> queue[1].code,
                                      char |-> Stroke(queue[1])])
Handler(by, below) ==
    /\ bkBios # <<>>
    /\ bkStack' = Append(below, [by |-> by, key |-> KeyDataOf(bkBios[1], bkFlags), link |-> bkFirst,
                                 inside |-> FALSE, old |-> ToSet(BkRegistered), called |-> <<>>])
    /\ bkBios' = Tail(bkBios)
    /\ bkFlags' = bkFlags \ {"ctrl"}
    /\ UNCHANGED <<bkQueue, bkRead, bkLost>>
BiosKeyboardTimerHandler ==
    /\ BkIdle
    /\ Handler("timer", <<>>)
    /\ UNCHANGED <<bkList, bkHardware, bkNested, bkLeft>>
KeyboardReadKeyStrokeWorker ==
    /\ BkIdle
    /\ \/ Handler("reader", <<>>)
       \/ /\ bkBios = <<>> /\ bkQueue # <<>> /\ BkTaken(bkQueue)
          /\ UNCHANGED <<bkBios, bkFlags, bkLost, bkStack>>
    /\ UNCHANGED <<bkList, bkHardware, bkNested, bkLeft>>

(* The functions, one after another; which one is next is read from the     *)
(* node after its function has returned.                                    *)
WithTop(frame) == [bkStack EXCEPT ![Len(bkStack)] = frame]
BkNotify ==
    /\ bkStack # <<>> /\ BkTop.link # 0 /\ ~BkTop.inside
    /\ LET n == BkTop.link
           node == bkNodes[n]
           next == [BkTop EXCEPT !.link = node.next]
           called == [next EXCEPT !.called = Append(@, n)]
       IN IF ~IsKeyRegistered(node.pattern, BkTop.key.char, BkTop.key.ctrl)
          THEN bkStack' = WithTop(next) /\ UNCHANGED <<bkList, bkInput, bkNested>>
          ELSE /\ bkDead' = (bkDead \/ n \notin ToSet(BkRegistered))
               /\ \/ /\ node.fn = "quiet"
                     /\ bkStack' = WithTop(called)
                     /\ UNCHANGED <<bkNodes, bkFirst, bkInput, bkNested>>
                  \/ /\ node.fn = "forgets"
                     /\ IF n \in ToSet(BkRegistered) THEN RemoveEntryList(n)
                        ELSE UNCHANGED <<bkNodes, bkFirst>>
                     /\ bkStack' = WithTop([called EXCEPT !.link = bkNodes'[n].next])
                     /\ UNCHANGED <<bkInput, bkNested>>
                  \/ /\ node.fn = "reads"
                     /\ bkNested' = TRUE
                     /\ LET waits == [called EXCEPT !.link = n, !.inside = TRUE]
                        IN \/ Handler("function", WithTop(waits))
                           \/ /\ bkBios = <<>> /\ BkTaken(bkQueue)
                              /\ bkStack' = WithTop(waits)
                              /\ UNCHANGED <<bkBios, bkFlags, bkLost>>
                     /\ UNCHANGED <<bkNodes, bkFirst>>
    /\ UNCHANGED <<bkHardware, bkLeft>>
FunctionReturns ==
    /\ bkStack # <<>> /\ BkTop.inside
    /\ bkStack' = WithTop([BkTop EXCEPT !.link = bkNodes[@].next, !.inside = FALSE])
    /\ UNCHANGED <<bkInput, bkList, bkHardware, bkNested, bkLeft>>
HandlerEnds ==
    /\ bkStack # <<>> /\ BkTop.link = 0
    /\ bkStack' = Front(bkStack)
    /\ IF BkTop.by = "timer" THEN Enqueued(BkTop.key) /\ UNCHANGED bkRead
       ELSE LET full == Len(bkQueue) = BkQueueMax - 1
            IN /\ BkTaken(IF full THEN bkQueue ELSE Append(bkQueue, BkTop.key))
               /\ bkLost' = IF full THEN bkLost \cup {BkTop.key.id} ELSE bkLost
    /\ UNCHANGED <<bkBios, bkFlags, bkList, bkHardware, bkNested, bkLeft>>

----------------------------------------------------------------------------
(* BiosKeyboardReset: the queue is emptied, then the steps that depend on   *)
(* the feature, on whether the controller was tested before and on the      *)
(* verification that is asked for.                                          *)
Prepare == IF bkPcd THEN <<>>
           ELSE IF bkKbc.tested THEN <<"ask byte", "read byte", "aux off", "kbd off">>
           ELSE <<"test", "tested">>
Verify == <<"connected", "kbd reset", "ack", "bat", "code set", "ack", "set 2", "ack", "kbd enable",
            "ack", "parity", "check", "checked">>
Finish == IF bkPcd THEN <<>> ELSE <<"kbd on">>
ResetSteps(extended) ==
    <<"empty">> \o Prepare \o <<"write byte", "byte">> \o (IF extended THEN Verify ELSE <<>>)
        \o Finish \o <<"mouse">>
BiosKeyboardReset ==
    /\ BkIdle /\ bkLeft.resets > 0
    /\ \E extended \in BOOLEAN : bkTodo' = ResetSteps(extended)
    /\ bkLeft' = [bkLeft EXCEPT !.resets = @ - 1]
    /\ bkStatus' = "none"
    /\ bkMouse' = [now |-> FALSE, was |-> bkKbc.aux, read |-> bkKbc.tested /\ ~bkPcd]
    /\ UNCHANGED <<bkInput, bkList, bkStack, bkKbc, bkPcd, bkNested>>

BkStep(step) == bkTodo # <<>> /\ bkTodo[1] = step /\ bkStack = <<>>
EmptyQueue ==   \* every key that can be read, until there is none
    /\ BkStep("empty")
    /\ IF bkBios # <<>> THEN Handler("reader", <<>>) /\ UNCHANGED bkTodo
       ELSE /\ BkTaken(bkQueue)
            /\ bkTodo' = IF bkQueue = <<>> THEN Tail(bkTodo) ELSE bkTodo
            /\ UNCHANGED <<bkBios, bkFlags, bkLost, bkStack>>
    /\ UNCHANGED <<bkList, bkKbc, bkMouse, bkPcd, bkStatus, bkNested, bkLeft>>
AfterStep(step) ==   \* KB_CMMBYTE: the byte enables the keyboard and disables the mouse
    CASE step = "aux off" -> [bkKbc EXCEPT !.aux = FALSE]
      [] step = "kbd off" -> [bkKbc EXCEPT !.kbd = FALSE]
      [] step = "test" -> [bkKbc EXCEPT !.aux = FALSE, !.kbd = FALSE]
      [] step = "tested" -> [bkKbc EXCEPT !.tested = TRUE]
      [] step = "byte" -> [bkKbc EXCEPT !.aux = FALSE, !.kbd = TRUE]
      [] step = "kbd on" -> [bkKbc EXCEPT !.kbd = TRUE]
      [] step = "mouse" /\ bkMouse.now -> [bkKbc EXCEPT !.aux = TRUE]
      [] OTHER -> bkKbc
ResetStep ==
    /\ bkTodo # <<>> /\ bkTodo[1] \notin {"empty", "leds"} /\ bkStack = <<>>
    /\ bkKbc' = AfterStep(bkTodo[1])
    /\ bkMouse' = IF bkTodo[1] = "read byte" THEN [bkMouse EXCEPT !.now = bkKbc.aux] ELSE bkMouse
    /\ bkTodo' = Tail(bkTodo)
    /\ bkStatus' = IF Tail(bkTodo) = <<>> THEN "success" ELSE "none"
    /\ UNCHANGED <<bkInput, bkList, bkStack, bkPcd, bkNested, bkLeft>>
(* A register stays full, or the expected answer does not come.  A keyboard *)
(* that is not connected is not verified.                                   *)
CheckKeyboardConnect == bkTodo # <<>> /\ bkTodo[1] = "connected"
ResetFails ==
    /\ bkTodo # <<>> /\ bkTodo[1] \notin {"empty", "leds", "byte"} /\ bkStack = <<>>
    /\ bkTodo[1] = "mouse" => bkMouse.now
    /\ CheckKeyboardConnect => ~bkPcd
    /\ bkLeft.faults > 0
    /\ bkLeft' = [bkLeft EXCEPT !.faults = @ - 1]
    /\ IF CheckKeyboardConnect
       THEN bkTodo' = Finish \o <<"mouse">> /\ UNCHANGED bkStatus
       ELSE bkTodo' = <<>> /\ bkStatus' = "error"
    /\ UNCHANGED <<bkInput, bkList, bkStack, bkKbc, bkMouse, bkPcd, bkNested>>
(* The command byte itself is not written: the status of that (EFI_TIMEOUT) *)
(* is overwritten by the next command of the reset, if there is one.        *)
ByteNotWritten ==
    /\ BkStep("byte") /\ bkLeft.faults > 0
    /\ bkLeft' = [bkLeft EXCEPT !.faults = @ - 1]
    /\ bkTodo' = IF Tail(bkTodo) = <<"mouse">> THEN <<>> ELSE Tail(bkTodo)
    /\ bkStatus' = IF Tail(bkTodo) = <<"mouse">> THEN "error" ELSE "none"
    /\ UNCHANGED <<bkInput, bkList, bkStack, bkKbc, bkMouse, bkPcd, bkNested>>

(* BiosKeyboardSetState: the lights, and the flags of the BIOS with them.   *)
BiosKeyboardSetState ==
    /\ BkIdle /\ bkLeft.flags > 0
    /\ bkLeft' = [bkLeft EXCEPT !.flags = @ - 1]
    /\ bkTodo' = <<"leds">>
    /\ UNCHANGED <<bkInput, bkList, bkStack, bkKbc, bkMouse, bkPcd, bkStatus, bkNested>>
UpdateLeds ==
    /\ BkStep("leds")
    /\ bkTodo' = <<>>
    /\ \/ \E caps \in BOOLEAN : bkFlags' = (bkFlags \ {"caps"}) \cup (IF caps THEN {"caps"} ELSE {})
       \/ UNCHANGED bkFlags   \* a step has failed
    /\ UNCHANGED <<bkBios, bkQueue, bkRead, bkLost, bkList, bkStack, bkKbc, bkMouse, bkPcd,
                   bkStatus, bkNested, bkLeft>>

----------------------------------------------------------------------------
(* Somebody types, holds and releases Ctrl or shift; the driver of the      *)
(* mouse enables it (external).                                             *)
Typed ==
    /\ bkLeft.keys > 0
    /\ \E key \in {"letter", "F1"} :
          bkBios' = Append(bkBios, [id |-> bkLeft.keys, code |-> BiosCode(key, bkFlags)])
    /\ bkLeft' = [bkLeft EXCEPT !.keys = @ - 1]
    /\ UNCHANGED <<bkFlags, bkQueue, bkRead, bkLost, bkList, bkStack, bkHardware, bkNested>>
Held ==
    /\ bkLeft.flags > 0
    /\ \E flag \in {"shift", "ctrl"} :
          bkFlags' = (bkFlags \cup {flag}) \ (bkFlags \cap {flag})
    /\ bkLeft' = [bkLeft EXCEPT !.flags = @ - 1]
    /\ UNCHANGED <<bkBios, bkQueue, bkRead, bkLost, bkList, bkStack, bkHardware, bkNested>>
MouseEnabled ==
    /\ BkIdle /\ ~bkKbc.aux /\ bkLeft.resets > 0
    /\ bkKbc' = [bkKbc EXCEPT !.aux = TRUE, !.tested = TRUE]
    /\ bkStatus' = "none"
    /\ UNCHANGED <<bkInput, bkList, bkStack, bkTodo, bkMouse, bkPcd, bkNested, bkLeft>>

BkInit ==
    /\ bkBios = <<>> /\ bkFlags = {} /\ bkQueue = <<>>
    /\ bkNodes = <<>> /\ bkFirst = 0 /\ bkStack = <<>> /\ bkTodo = <<>>
    /\ bkKbc = [kbd |-> TRUE, aux |-> FALSE, tested |-> FALSE]
    /\ bkMouse = [now |-> FALSE, was |-> FALSE, read |-> FALSE]
    /\ bkPcd \in BkFast
    /\ bkStatus = "none" /\ bkRead = <<>> /\ bkLost = {}
    /\ bkNested = FALSE /\ bkDead = FALSE
    /\ bkLeft \in BkBudgets

BkNext ==
    \/ Typed \/ Held \/ MouseEnabled
    \/ BiosKeyboardRegisterKeyNotify \/ BiosKeyboardUnregisterKeyNotify
    \/ BiosKeyboardTimerHandler \/ KeyboardReadKeyStrokeWorker
    \/ BkNotify \/ FunctionReturns \/ HandlerEnds
    \/ BiosKeyboardReset \/ EmptyQueue \/ ResetStep \/ ResetFails \/ ByteNotWritten
    \/ BiosKeyboardSetState \/ UpdateLeds

----------------------------------------------------------------------------
BkTypeOK ==
    /\ bkFlags \subseteq {"caps", "shift", "ctrl"} /\ Len(bkQueue) < BkQueueMax
    /\ bkFirst \in 0..Len(bkNodes)
    /\ \A n \in DOMAIN bkNodes : bkNodes[n].next \in 0..Len(bkNodes)
    /\ \A k \in DOMAIN bkKbc : bkKbc[k] \in BOOLEAN
    /\ bkStatus \in {"none", "success", "error"}
    /\ bkLost \subseteq Nat /\ bkNested \in BOOLEAN /\ bkDead \in BOOLEAN

(* Keys are read in the order they were typed, each at most once and none   *)
(* is missing but those that found the queue full, unless a registered      *)
(* function reads keys itself.  A letter typed with Ctrl is read as its     *)
(* control code, whatever has become of the flags.  A key is shown once to  *)
(* each function that is registered for it all the while, and to none that  *)
(* is not registered.  A reset that succeeds leaves the keyboard enabled,   *)
(* the mouse enabled only if it was, and as it was if the reset read that:  *)
(* with PcdFastPS2Detection or a controller that was not tested before, it  *)
(* does not, and the mouse may be disabled by the command byte.             *)
StrokeIds == [i \in DOMAIN bkRead |-> bkRead[i].id]
WaitingIds == [i \in DOMAIN bkQueue |-> bkQueue[i].id]
    \o [i \in DOMAIN bkStack |-> bkStack[Len(bkStack) + 1 - i].key.id]
    \o [i \in DOMAIN bkBios |-> bkBios[i].id]
BiosKeysSound ==
    /\ IsInjective(StrokeIds \o WaitingIds)
    /\ bkLost \cap ToSet(StrokeIds \o WaitingIds) = {}
    /\ ~bkNested =>
           LET ids == StrokeIds \o WaitingIds
           IN /\ \A i, j \in DOMAIN ids : i < j => ids[i] > ids[j]
              /\ \A i \in 1..(Len(ids) - 1) : (ids[i + 1] + 1)..(ids[i] - 1) \subseteq bkLost
              /\ ~bkDead
    /\ \A i \in DOMAIN bkRead : bkRead[i].code = "^A" => bkRead[i].char = "^A"
    /\ \A f \in ToSet(bkStack) :
           /\ ~bkNested => IsInjective(f.called)
           /\ f.link = 0 => \A n \in f.old \cap ToSet(BkRegistered) :
                  IsKeyRegistered(bkNodes[n].pattern, f.key.char, f.key.ctrl)
                      => n \in ToSet(f.called)
    /\ bkStatus = "success" =>
           /\ bkKbc.kbd
           /\ bkKbc.aux => bkMouse.was
           /\ bkMouse.read /\ bkMouse.was => bkKbc.aux
=============================================================================
