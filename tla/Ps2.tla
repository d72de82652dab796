-------------------------------- MODULE Ps2 --------------------------------
(***************************************************************************)
(* The drivers of the PS/2 keyboard (Ps2KeyboardDxe) and of the PS/2 mouse *)
(* (Ps2MouseDxe) on the one 8042 controller both talk to.  The timer       *)
(* handlers and the functions of the protocols run at TPL_NOTIFY: none of  *)
(* them interrupts another, and what happens between two accesses of one   *)
(* of them to the controller is that a byte of a device reaches the output *)
(* buffer.  The parts that run below TPL_NOTIFY are steps of their own.    *)
(***************************************************************************)
EXTENDS Integers, SequencesExt

CONSTANTS
    KbdStrokes,     \* sequences of scan codes that the keyboard may send
    AuxPackets,     \* packets that the mouse may send
    KbdScanMax,     \* KEYBOARD_SCAN_CODE_MAX_COUNT
    KbdKeyMax,      \* KEYBOARD_EFI_KEY_MAX_COUNT
    Ps2Budgets      \* bounds: codes, packets, resets and faults (late answers)

VARIABLES
    ps2Out,     \* the output buffer: nothing, or a byte and the device it is of
    ps2On,      \* the interfaces that are enabled, of "kbd" and "aux"
    ps2Asked,   \* the answer of a command is on its way
    ps2Left,    \* what the environment may still do: bounds
    kbdLine,    \* codes the keyboard has not sent yet
    auxLine,    \* bytes the mouse has not sent yet
    kbdScan,    \* ScancodeQueue
    kbdKeys,    \* EfiKeyQueue
    kbdMods,    \* LeftCtrl, RightCtrl, ... that are TRUE
    kbdLocks,   \* CapsLock, NumLock, ScrollLock that are TRUE
    kbdPartial, \* IsSupportPartialKey
    kbdErr,     \* KeyboardErr
    kbdLeds,    \* the lights that are on
    auxX,       \* RelativeMovementX
    auxChanged, \* StateChanged
    auxPacket,  \* the bytes PS2MouseGetPacket has read of its packet
    auxKbdWas,  \* KeyboardEnable of PS2MouseGetPacket
    ps2Pc,      \* what runs at TPL_NOTIFY, and what it goes on with
    auxCaller,  \* where a caller of GetState is
    kbdMeant,   \* history: what the codes mean that KeyGetchar took
    kbdMade,    \* history: the keys it made of them
    auxMoved,   \* history: the movement of the packets that were processed
    auxGiven,   \* history: the movement the callers of GetState were told
    auxLost     \* history: a byte of the mouse was late or dropped, and no
                \* packet was taken from its first byte since

ps2Hw == <<ps2Out, ps2On, ps2Asked, kbdLine, auxLine>>
kbdState == <<kbdScan, kbdKeys, kbdMods, kbdLocks, kbdPartial, kbdErr, kbdLeds,
              kbdMeant, kbdMade>>
auxMouse == <<auxX, auxChanged, auxPacket, auxKbdWas, auxMoved, auxGiven>>
auxState == <<auxMouse, auxLost>>
ps2Vars == <<ps2Hw, ps2Left, kbdState, auxState, ps2Pc, auxCaller>>

Nothing == [of |-> "nobody"]
Locks == {"CapsLock", "NumLock", "ScrollLock"}
CtrlKeys == {"LeftCtrl", "RightCtrl"}
ShiftKeys == {"LeftShift", "RightShift"}
AltKeys == {"LeftAlt", "RightAlt"}
ModKeys == CtrlKeys \cup ShiftKeys \cup AltKeys \cup {"LeftLogo", "RightLogo", "Menu", "SysReq"}

(* Scan codes: the prefixes, and the codes of keys that go down or up.     *)
(* Some keys make no character of their own (Silent).  An answer of the    *)
(* controller that is taken for a code reads as a key that goes up and is  *)
(* not known.                                                              *)
Down(k) == [key |-> k, down |-> TRUE]
Up(k) == [key |-> k, down |-> FALSE]
Silent == {"Ctrl", "Alt", "LeftShift", "RightShift", "LeftLogo", "RightLogo", "Menu",
           "SysReqAlt", "CapsLock", "NumLock", "ScrollLock"}
KeyNames == {"E0", "E1", "none", "A", "Slash", "Pad7", "Delete", "SysReq"} \cup Silent
Codes == [key : KeyNames, down : BOOLEAN]
Extended == Down("E0")
Pausing == Down("E1")
Answer == Up("none")

(* The queues hold something; the keyboard sends codes, the mouse packets. *)
ASSUME Ps2Assumption ==
    /\ KbdScanMax \in Nat \ {0, 1} /\ KbdKeyMax \in Nat \ {0, 1}
    /\ KbdStrokes \subseteq Seq(Codes)
    /\ AuxPackets \subseteq [sync : SUBSET (1 .. 3), dx : Int]
    /\ Ps2Budgets \subseteq [codes : Nat, packets : Nat, resets : Nat, faults : Nat]

(* The flag of a modifier key, FALSE for other keys; e0: after the prefix. *)
ModOf(k, e0) ==
    CASE k = "Ctrl" -> IF e0 THEN "RightCtrl" ELSE "LeftCtrl"
      [] k = "Alt" -> IF e0 THEN "RightAlt" ELSE "LeftAlt"
      [] k = "LeftShift" /\ ~e0 -> "LeftShift"
      [] k \in {"RightShift", "LeftLogo", "RightLogo", "Menu"} -> k
      [] k = "SysReq" /\ e0 -> "SysReq"
      [] k = "SysReqAlt" -> "SysReq"
      [] OTHER -> "none"
LockOf(k, e0) ==
    CASE k \in {"CapsLock", "NumLock"} -> k
      [] k = "ScrollLock" /\ ~e0 -> k
      [] OTHER -> "none"

(* The code at the head of a queue with its prefix: how many codes it is.  *)
CodeLen(q) == IF q[1] = Extended THEN 2 ELSE IF q[1] = Pausing THEN 3 ELSE 1
Complete(q) == q # <<>> /\ Len(q) >= CodeLen(q)

(* What a code does to the modifiers: nothing after E1, whatever it is.    *)
Modified(mods, q) ==
    LET n == CodeLen(q)  m == ModOf(q[n].key, n = 2)
    IN  IF n = 3 THEN mods
        ELSE IF q[n].down THEN mods \cup ({m} \ {"none"}) ELSE mods \ {m}
Lock(q) == LET n == CodeLen(q)
           IN  IF n = 3 \/ ~q[n].down THEN "none" ELSE LockOf(q[n].key, n = 2)
Toggled(locks, q) ==
    LET l == Lock(q)
    IN  IF l = "none" THEN locks ELSE (locks \cup {l}) \ (locks \cap {l})

(* The loop of KeyGetchar ends with this code: a key goes down, and it is  *)
(* not the shift that the keyboard itself adds to an extended key.         *)
EndsLoop(q) == LET n == CodeLen(q)
               IN  q[n].down /\ ~(n = 2 /\ q[n].key = "LeftShift")

(* EFI_KEY_DATA of the key: its character, by ConvertKeyboardScanCodeToEfiKey, *)
(* and what of the modifiers is reported with it.                              *)
CharOf(q, mods, locks) ==
    LET n == CodeLen(q)  k == q[n].key  shifted == mods \cap ShiftKeys # {}
    IN  CASE n = 3 /\ k = "NumLock" -> "Pause"
          [] n = 2 /\ k = "ScrollLock" -> "Pause"
          [] n = 2 /\ k = "Slash" -> "/"
          [] k = "SysReq" -> IF n = 2 THEN "null" ELSE "*"
          [] k \in Silent -> "null"
          [] k = "Pad7" -> IF "NumLock" \in locks /\ ~shifted /\ n # 2 THEN "7" ELSE "Home"
          [] k = "Delete" -> IF "NumLock" \in locks /\ ~shifted /\ n # 2 THEN "." ELSE "Delete"
          [] k = "A" -> IF shifted # ("CapsLock" \in locks) THEN "A" ELSE "a"
          [] k = "Slash" -> IF shifted THEN "?" ELSE "/"
          [] OTHER -> "null"
(* The shift is not reported when it made another character of the key.    *)
Shifts(q) == \/ q[CodeLen(q)].key = "A"
             \/ q[CodeLen(q)].key = "Slash" /\ CodeLen(q) # 2
KeyData(q, mods, locks) ==
    [char |-> CharOf(q, mods, locks), locks |-> locks,
     mods |-> IF Shifts(q) THEN mods \ ShiftKeys ELSE mods]

(* What codes mean, one by one: the prefix seen so far, the modifiers and  *)
(* locks that are on, and the keys made.                                   *)
NoMeaning == [seen |-> <<>>, mods |-> {}, locks |-> {}, partial |-> FALSE, keys |-> <<>>]
Meaning(r, c) ==
    IF c \in {Extended, Pausing} /\ r.seen = <<>> THEN [r EXCEPT !.seen = <<c>>]
    ELSE IF r.seen = <<Pausing>> THEN [r EXCEPT !.seen = <<Pausing, c>>]
    ELSE LET q == Append(r.seen, c)
             mods == Modified(r.mods, q)
             locks == Toggled(r.locks, q)
             key == KeyData(q, mods, locks)
         IN  [seen |-> <<>>, mods |-> mods, locks |-> locks, partial |-> r.partial,
              keys |-> IF EndsLoop(q) /\ (key.char # "null" \/ r.partial)
                       THEN Append(r.keys, key) ELSE r.keys]
(* After the one to three codes of q. *)
Means(r, q) ==
    LET one == Meaning(r, q[1])
        two == Meaning(one, q[2])
    IN  CASE Len(q) = 1 -> one [] Len(q) = 2 -> two [] Len(q) = 3 -> Meaning(two, q[3])

(* PushScancodeBufTail and PushEfikeyBufTail: a full queue drops its oldest. *)
Push(q, e, max) == Append(IF Len(q) = max - 1 THEN Tail(q) ELSE q, e)

----------------------------------------------------------------------------
(* The controller and the devices, as the drivers rely on them.  A byte    *)
(* reaches the output buffer when that is empty, the answer of a command   *)
(* or a byte of a device whose interface is enabled, whichever comes first. *)
Latch(d, line) ==
    /\ ps2Out = Nothing /\ d \in ps2On /\ line # <<>>
    /\ ps2Out' = [of |-> d, byte |-> line[1]]
KbdSends == /\ Latch("kbd", kbdLine) /\ kbdLine' = Tail(kbdLine)
            /\ UNCHANGED <<ps2On, ps2Asked, auxLine, ps2Left, kbdState, auxState, ps2Pc, auxCaller>>
AuxSends == /\ Latch("aux", auxLine) /\ auxLine' = Tail(auxLine)
            /\ UNCHANGED <<ps2On, ps2Asked, kbdLine, ps2Left, kbdState, auxState, ps2Pc, auxCaller>>
Answers == /\ ps2Out = Nothing /\ ps2Asked
           /\ ps2Asked' = FALSE
           /\ ps2Out' = [of |-> "kbc", byte |-> Answer, on |-> ps2On]
           /\ UNCHANGED <<ps2On, kbdLine, auxLine, ps2Left, kbdState, auxState, ps2Pc, auxCaller>>

(* What reads the output buffer reads a byte of the mouse, too. *)
AuxLoses == auxLost' = (auxLost \/ ps2Out.of = "aux")

(* Somebody uses the devices. *)
Types == /\ \E s \in KbdStrokes :
             /\ Len(s) <= ps2Left.codes
             /\ kbdLine' = kbdLine \o s
             /\ ps2Left' = [ps2Left EXCEPT !.codes = @ - Len(s)]
         /\ UNCHANGED <<ps2Out, ps2On, ps2Asked, auxLine, kbdState, auxState, ps2Pc, auxCaller>>
Moves == /\ ps2Left.packets > 0
         /\ \E p \in AuxPackets :
                auxLine' = auxLine \o [i \in 1 .. 3 |-> [sync |-> i \in p.sync, dx |-> p.dx,
                                                         packet |-> ps2Left.packets, byte |-> i]]
         /\ ps2Left' = [ps2Left EXCEPT !.packets = @ - 1]
         /\ UNCHANGED <<ps2Out, ps2On, ps2Asked, kbdLine, kbdState, auxState, ps2Pc, auxCaller>>

----------------------------------------------------------------------------
(* The keyboard driver.  What runs at TPL_NOTIFY: its pc, what it returns  *)
(* to, what UpdateStatusLights returns to, and the code KeyGetchar is at.  *)
Ps2Idle == [pc |-> "idle", ret |-> "idle", led |-> "idle", code |-> <<>>]
Ps2At(pc) == ps2Pc.pc = pc
Ps2Goto(pc) == ps2Pc' = [ps2Pc EXCEPT !.pc = pc]
Ps2Return == IF ps2Pc.ret = "idle" THEN ps2Pc' = Ps2Idle ELSE Ps2Goto(ps2Pc.ret)

(* The periodic event, KeyboardReadKeyStrokeWorker and KeyboardWaitForKey: *)
(* all call KeyboardTimerHandler, which does nothing after a KeyboardErr.  *)
KeyboardTimerHandler(ret) ==
    /\ Ps2At("idle") /\ ~kbdErr
    /\ ps2Pc' = [Ps2Idle EXCEPT !.pc = "poll", !.ret = ret]
    /\ UNCHANGED <<ps2Hw, ps2Left, kbdState, auxState, auxCaller>>
KbdTick == KeyboardTimerHandler("idle")
ReadKeyStroke == KeyboardTimerHandler("pop")
WaitForKey == KeyboardTimerHandler("drop")

(* Every byte that is not the mouse's goes to the queue of codes. *)
PollScan ==
    /\ Ps2At("poll") /\ ps2Out.of \in {"kbd", "kbc"}
    /\ kbdScan' = Push(kbdScan, ps2Out.byte, KbdScanMax)
    /\ ps2Out' = Nothing
    /\ UNCHANGED <<ps2On, ps2Asked, kbdLine, auxLine, ps2Left, kbdKeys, kbdMods, kbdLocks, kbdPartial,
                   kbdErr, kbdLeds, kbdMeant, kbdMade, auxState, ps2Pc, auxCaller>>
PollEnds ==
    /\ Ps2At("poll") /\ ps2Out.of \notin {"kbd", "kbc"}
    /\ Ps2Goto("getchar")
    /\ UNCHANGED <<ps2Hw, ps2Left, kbdState, auxState, auxCaller>>

(* KeyGetchar, for a key that ends its loop: the null key counts when      *)
(* partial keys do; a warm reset of the system instead for Ctrl-Alt-Del.   *)
MakeKey(q, mods, locks) ==
    IF mods \cap CtrlKeys # {} /\ mods \cap AltKeys # {} /\ q[CodeLen(q)].key = "Delete"
    THEN /\ ps2Pc' = [Ps2Idle EXCEPT !.pc = "restart"]
         /\ UNCHANGED <<kbdKeys, kbdMade>>
    ELSE LET k == KeyData(q, mods, locks)
         IN  /\ IF k.char = "null" /\ ~kbdPartial
                THEN UNCHANGED <<kbdKeys, kbdMade>>
                ELSE /\ kbdKeys' = Push(kbdKeys, k, KbdKeyMax)
                     /\ kbdMade' = Append(kbdMade, k)
             /\ Ps2Return
GetcharReturns ==
    /\ Ps2At("getchar") /\ ~Complete(kbdScan)
    /\ Ps2Return
    /\ UNCHANGED <<ps2Hw, ps2Left, kbdState, auxState, auxCaller>>
GetcharTakes ==
    /\ Ps2At("getchar") /\ Complete(kbdScan)
    /\ LET q == SubSeq(kbdScan, 1, CodeLen(kbdScan))
       IN  /\ kbdScan' = SubSeq(kbdScan, Len(q) + 1, Len(kbdScan))
           /\ kbdMeant' = Means(kbdMeant, q)
           /\ kbdMods' = Modified(kbdMods, q)
           /\ kbdLocks' = Toggled(kbdLocks, q)
           /\ IF Lock(q) # "none"
              THEN /\ ps2Pc' = [ps2Pc EXCEPT !.pc = "led", !.led = "made", !.code = q]
                   /\ UNCHANGED <<kbdKeys, kbdMade>>
              ELSE IF EndsLoop(q) THEN MakeKey(q, kbdMods', kbdLocks')
              ELSE UNCHANGED <<ps2Pc, kbdKeys, kbdMade>>
    /\ UNCHANGED <<ps2Hw, ps2Left, kbdPartial, kbdErr, kbdLeds, auxState, auxCaller>>
GetcharMakes ==
    /\ Ps2At("made")
    /\ MakeKey(ps2Pc.code, kbdMods, kbdLocks)
    /\ UNCHANGED <<ps2Hw, ps2Left, kbdScan, kbdMods, kbdLocks, kbdPartial, kbdErr, kbdLeds,
                   kbdMeant, auxState, auxCaller>>

(* UpdateStatusLights: 0xED, its acknowledge, the lights, their acknowledge. *)
(* KeyboardWaitForValue takes whatever comes before the acknowledge, also    *)
(* bytes of the mouse; when it comes too late it is taken for a code later.  *)
LedDiscards ==
    /\ ps2Pc.pc \in {"led", "lights"} /\ ps2Out # Nothing
    /\ ps2Out' = Nothing /\ AuxLoses
    /\ UNCHANGED <<ps2On, ps2Asked, kbdLine, auxLine, ps2Left, kbdState, auxMouse, ps2Pc, auxCaller>>
LedGoesOn ==
    /\ ps2Pc.pc \in {"led", "lights"} /\ ps2Out = Nothing
    /\ \/ UNCHANGED <<ps2Asked, ps2Left>>
       \/ /\ ps2Left.faults > 0 /\ ~ps2Asked
          /\ ps2Asked' = TRUE
          /\ ps2Left' = [ps2Left EXCEPT !.faults = @ - 1]
    /\ IF ps2Pc.pc = "led"
       THEN Ps2Goto("lights") /\ kbdLeds' = kbdLocks
       ELSE (IF ps2Pc.led = "idle" THEN ps2Pc' = Ps2Idle ELSE Ps2Goto(ps2Pc.led)) /\ UNCHANGED kbdLeds
    /\ UNCHANGED <<ps2Out, ps2On, kbdLine, auxLine, kbdScan, kbdKeys, kbdMods, kbdLocks, kbdPartial,
                   kbdErr, kbdMeant, kbdMade, auxState, auxCaller>>

(* The callers: one key is popped; or null keys at the head are dropped.   *)
PopKeyNewest ==
    /\ Ps2At("pop")
    /\ kbdKeys' = IF kbdKeys = <<>> THEN <<>> ELSE Front(kbdKeys)
    /\ ps2Pc' = Ps2Idle
    /\ UNCHANGED <<ps2Hw, ps2Left, kbdScan, kbdMods, kbdLocks, kbdPartial, kbdErr, kbdLeds,
                   kbdMeant, kbdMade, auxState, auxCaller>>
PopKey ==
    /\ Ps2At("pop")
    /\ kbdKeys' = IF kbdKeys = <<>> THEN <<>> ELSE Tail(kbdKeys)
    /\ ps2Pc' = Ps2Idle
    /\ UNCHANGED <<ps2Hw, ps2Left, kbdScan, kbdMods, kbdLocks, kbdPartial, kbdErr, kbdLeds,
                   kbdMeant, kbdMade, auxState, auxCaller>>
DropKeys ==
    /\ Ps2At("drop")
    /\ \E n \in 1 .. Len(kbdKeys) + 1 :
           /\ \A i \in 1 .. n - 1 : kbdKeys[i].char = "null"
           /\ n <= Len(kbdKeys) => kbdKeys[n].char # "null"
           /\ kbdKeys' = SubSeq(kbdKeys, n, Len(kbdKeys))
    /\ ps2Pc' = Ps2Idle
    /\ UNCHANGED <<ps2Hw, ps2Left, kbdScan, kbdMods, kbdLocks, kbdPartial, kbdErr, kbdLeds,
                   kbdMeant, kbdMade, auxState, auxCaller>>

(* KeyboardSetState; partial keys are made from now on, or not. *)
SetState ==
    /\ Ps2At("idle") /\ ~kbdErr /\ ps2Left.resets > 0
    /\ \E locks \in {{}, {"CapsLock"}}, partial \in BOOLEAN :
           /\ kbdLocks' = locks /\ kbdPartial' = partial
           /\ kbdMeant' = [kbdMeant EXCEPT !.locks = locks, !.partial = partial]
    /\ ps2Left' = [ps2Left EXCEPT !.resets = @ - 1]
    /\ ps2Pc' = [Ps2Idle EXCEPT !.pc = "led"]
    /\ UNCHANGED <<ps2Hw, kbdScan, kbdKeys, kbdMods, kbdErr, kbdLeds, kbdMade, auxState,
                   auxCaller>>
(* InitKeyboard by KeyboardEfiReset.  Everything on its way is read and    *)
(* dropped; the answer of the controller tells whether the interface of    *)
(* the mouse is enabled, unless a key comes first and is taken for it.     *)
KeyboardEfiReset ==
    /\ Ps2At("idle") /\ ~kbdErr /\ ps2Left.resets > 0
    /\ ps2Left' = [ps2Left EXCEPT !.resets = @ - 1]
    /\ IF ps2Out = Nothing
       THEN UNCHANGED <<ps2Out, kbdLine, auxLine>>
       ELSE /\ ps2Out' = Nothing
            /\ kbdLine' = IF "kbd" \in ps2On THEN <<>> ELSE kbdLine
            /\ auxLine' = IF "aux" \in ps2On THEN <<>> ELSE auxLine
    /\ ps2Asked' = TRUE /\ AuxLoses
    /\ Ps2Goto("byte")
    /\ UNCHANGED <<ps2On, kbdState, auxMouse, auxCaller>>
(* A key stands for many: taken for a command byte it may say either.      *)
Says(d) == IF ps2Out.of = "kbc" THEN {d \in ps2Out.on} ELSE BOOLEAN
InitKeyboard ==
    /\ Ps2At("byte") /\ ps2Out # Nothing
    /\ ps2Out' = Nothing /\ AuxLoses
    /\ \E mouse \in Says("aux") : ps2On' = {"kbd"} \cup (IF mouse THEN {"aux"} ELSE {})
    /\ kbdScan' = <<>> /\ kbdKeys' = <<>> /\ kbdMeant' = NoMeaning /\ kbdMade' = <<>>
    /\ kbdMods' = {} /\ kbdLocks' = {} /\ kbdPartial' = FALSE
    /\ \E extended \in BOOLEAN :
           ps2Pc' = [Ps2Idle EXCEPT !.pc = IF extended THEN "led" ELSE "idle"]
    /\ UNCHANGED <<ps2Asked, kbdLine, auxLine, ps2Left, kbdErr, kbdLeds, auxMouse, auxCaller>>
(* No answer: from now on every function returns EFI_DEVICE_ERROR. *)
InitKeyboardFails ==
    /\ Ps2At("byte") /\ ps2Out = Nothing /\ ps2Left.faults > 0
    /\ ps2Left' = [ps2Left EXCEPT !.faults = @ - 1]
    /\ kbdErr' = TRUE
    /\ ps2On' = ps2On \cup {"aux"}      \* mEnableMouseInterface is still TRUE
    /\ ps2Pc' = Ps2Idle
    /\ UNCHANGED <<ps2Out, ps2Asked, kbdLine, auxLine, kbdScan, kbdKeys, kbdMods, kbdLocks, kbdPartial,
                   kbdLeds, kbdMeant, kbdMade, auxState, auxCaller>>

----------------------------------------------------------------------------
(* The mouse driver.  PS2MouseGetPacket: the first byte is looked for with *)
(* the interface of the mouse disabled; unless it is a byte of the mouse   *)
(* there is no packet, and bytes that cannot begin one are dropped.        *)
PollMouse ==
    /\ Ps2At("idle")
    /\ ps2Pc' = [Ps2Idle EXCEPT !.pc = "first"]
    /\ auxKbdWas' = FALSE /\ auxPacket' = <<>>
    /\ UNCHANGED <<ps2Hw, ps2Left, kbdState, auxX, auxChanged, auxMoved, auxGiven, auxLost,
                   auxCaller>>
NoPacket ==
    /\ Ps2At("first") /\ ps2Out.of # "aux"
    /\ ps2On' = ps2On \cup {"aux"}
    /\ ps2Pc' = Ps2Idle
    /\ UNCHANGED <<ps2Out, ps2Asked, kbdLine, auxLine, ps2Left, kbdState, auxState, auxCaller>>
FirstByte ==
    /\ Ps2At("first") /\ ps2Out.of = "aux"
    /\ ps2Out' = Nothing
    /\ ps2On' = ps2On \ {"aux"}
    /\ IF ps2Out.byte.sync
       THEN /\ auxPacket' = <<ps2Out.byte>> /\ ps2Asked' = TRUE /\ Ps2Goto("status")
            /\ auxLost' = (auxLost /\ ps2Out.byte.byte # 1)
       ELSE AuxLoses /\ UNCHANGED <<auxPacket, ps2Asked, ps2Pc>>
    /\ UNCHANGED <<kbdLine, auxLine, ps2Left, kbdState, auxX, auxChanged, auxKbdWas, auxMoved,
                   auxGiven, auxCaller>>
(* CheckKbStatus: the first byte that comes is taken for the command byte; *)
(* when none comes, KeyboardEnable stays as it was.  Then the keyboard is  *)
(* disabled and the mouse enabled.                                         *)
CheckKbStatus ==
    /\ Ps2At("status")
    /\ \/ /\ ps2Out # Nothing
          /\ ps2Out' = Nothing
          /\ auxKbdWas' \in Says("kbd")
          /\ AuxLoses
          /\ UNCHANGED ps2Left
       \/ /\ ps2Out = Nothing /\ ps2Left.faults > 0
          /\ ps2Left' = [ps2Left EXCEPT !.faults = @ - 1]
          /\ UNCHANGED <<ps2Out, auxKbdWas, auxLost>>
    /\ ps2On' = (ps2On \ {"kbd"}) \cup {"aux"}
    /\ Ps2Goto("data")
    /\ UNCHANGED <<ps2Asked, kbdLine, auxLine, kbdState, auxX, auxChanged, auxPacket, auxMoved, auxGiven,
                   auxCaller>>
EnableKb == ps2On' = IF auxKbdWas THEN ps2On \cup {"kbd"} ELSE ps2On
DataByte ==
    /\ Ps2At("data") /\ Len(auxPacket) < 3 /\ ps2Out.of = "aux"
    /\ auxPacket' = Append(auxPacket, ps2Out.byte)
    /\ ps2Out' = Nothing
    /\ UNCHANGED <<ps2On, ps2Asked, kbdLine, auxLine, ps2Left, kbdState, auxX, auxChanged, auxKbdWas,
                   auxMoved, auxGiven, auxLost, ps2Pc, auxCaller>>
(* WaitOutputFull gives up: the mouse sent no more, a byte that is not its *)
(* own is in its way, or it is late.                                       *)
DataLate ==
    /\ Ps2At("data") /\ Len(auxPacket) < 3 /\ ps2Out.of # "aux"
    /\ \/ (ps2Out # Nothing \/ auxLine = <<>>) /\ UNCHANGED ps2Left
       \/ ps2Left.faults > 0 /\ ps2Left' = [ps2Left EXCEPT !.faults = @ - 1]
    /\ EnableKb
    /\ ps2Pc' = Ps2Idle
    /\ auxLost' = TRUE
    /\ UNCHANGED <<ps2Out, ps2Asked, kbdLine, auxLine, kbdState, auxMouse, auxCaller>>
ProcessPacket ==
    /\ Ps2At("data") /\ Len(auxPacket) = 3
    /\ EnableKb
    /\ auxX' = auxX + auxPacket[2].dx
    /\ auxMoved' = auxMoved + auxPacket[2].dx
    /\ auxChanged' = TRUE
    /\ ps2Pc' = Ps2Idle
    /\ UNCHANGED <<ps2Out, ps2Asked, kbdLine, auxLine, ps2Left, kbdState, auxPacket, auxKbdWas, auxGiven,
                   auxLost, auxCaller>>

(* MouseGetState looks whether the state changed before it raises the TPL. *)
MouseGetState ==
    /\ Ps2At("idle") /\ auxCaller = "idle" /\ auxChanged
    /\ auxCaller' = "changed"
    /\ UNCHANGED <<ps2Hw, ps2Left, kbdState, auxState, ps2Pc>>
GiveState ==
    /\ Ps2At("idle") /\ auxCaller = "changed"
    /\ auxGiven' = auxGiven + auxX
    /\ auxX' = 0 /\ auxChanged' = FALSE
    /\ auxCaller' = "idle"
    /\ UNCHANGED <<ps2Hw, ps2Left, kbdState, auxPacket, auxKbdWas, auxMoved, auxLost, ps2Pc>>

(* MouseReset: what was on its way is dropped, also of the keyboard, which *)
(* is enabled again after the TPL was restored.                            *)
MouseReset ==
    /\ Ps2At("idle") /\ auxCaller = "idle" /\ ps2Left.resets > 0
    /\ ps2Left' = [ps2Left EXCEPT !.resets = @ - 1]
    /\ auxX' = 0 /\ auxChanged' = FALSE
    /\ auxMoved' = auxGiven
    /\ ps2Out' = Nothing /\ AuxLoses
    /\ kbdLine' = IF "kbd" \in ps2On THEN <<>> ELSE kbdLine
    /\ auxLine' = IF "aux" \in ps2On THEN <<>> ELSE auxLine
    /\ ps2Asked' = TRUE
    /\ ps2Pc' = [Ps2Idle EXCEPT !.pc = "reset"]
    /\ UNCHANGED <<ps2On, kbdState, auxPacket, auxKbdWas, auxGiven, auxCaller>>
(* The mouse is reset and set up again, or does not answer; in both cases  *)
(* the function ends here.                                                 *)
MouseIsReset ==
    /\ Ps2At("reset")
    /\ \/ ps2Out # Nothing /\ auxCaller' \in {IF k THEN "enable" ELSE "idle" : k \in Says("kbd")}
                           /\ UNCHANGED ps2Left
       \/ /\ ps2Out = Nothing /\ ps2Left.faults > 0
          /\ ps2Left' = [ps2Left EXCEPT !.faults = @ - 1]
          /\ UNCHANGED auxCaller
    /\ ps2Out' = Nothing /\ AuxLoses
    /\ ps2On' = ps2On \ {"kbd"}
    /\ ps2Pc' = Ps2Idle
    /\ UNCHANGED <<ps2Asked, kbdLine, auxLine, kbdState, auxMouse>>
EnableAfterReset ==
    /\ Ps2At("idle") /\ auxCaller = "enable"
    /\ ps2On' = ps2On \cup {"kbd"}
    /\ auxCaller' = "idle"
    /\ UNCHANGED <<ps2Out, ps2Asked, kbdLine, auxLine, ps2Left, kbdState, auxState, ps2Pc>>

----------------------------------------------------------------------------
(* Both drivers were started. *)
Ps2Init ==
    /\ ps2Out = Nothing /\ ps2On = {"kbd", "aux"} /\ ps2Asked = FALSE
    /\ ps2Left \in Ps2Budgets
    /\ kbdLine = <<>> /\ auxLine = <<>>
    /\ kbdScan = <<>> /\ kbdKeys = <<>> /\ kbdMods = {} /\ kbdLocks = {}
    /\ kbdPartial = FALSE /\ kbdErr = FALSE /\ kbdLeds = {}
    /\ auxX = 0 /\ auxChanged = FALSE /\ auxPacket = <<>> /\ auxKbdWas = FALSE
    /\ ps2Pc = Ps2Idle /\ auxCaller = "idle"
    /\ kbdMeant = NoMeaning /\ kbdMade = <<>> /\ auxMoved = 0 /\ auxGiven = 0
    /\ auxLost = FALSE

Ps2Next ==
    \/ KbdSends \/ AuxSends \/ Answers \/ Types \/ Moves
    \/ KbdTick \/ ReadKeyStroke \/ WaitForKey \/ PollScan \/ PollEnds
    \/ GetcharReturns \/ GetcharTakes \/ GetcharMakes \/ LedDiscards \/ LedGoesOn
    \/ PopKey \/ DropKeys \/ SetState
    \/ KeyboardEfiReset \/ InitKeyboard \/ InitKeyboardFails
    \/ PollMouse \/ NoPacket \/ FirstByte \/ CheckKbStatus \/ DataByte \/ DataLate \/ ProcessPacket
    \/ MouseGetState \/ GiveState \/ MouseReset \/ MouseIsReset \/ EnableAfterReset

Ps2Spec == Ps2Init /\ [][Ps2Next]_ps2Vars

----------------------------------------------------------------------------
Ps2TypeOK ==
    /\ ps2Out = Nothing \/ ps2Out.of \in {"kbd", "aux", "kbc"}
    /\ ps2On \subseteq {"kbd", "aux"}
    /\ ps2Asked \in BOOLEAN
    /\ Len(kbdScan) < KbdScanMax /\ Len(kbdKeys) < KbdKeyMax
    /\ kbdMods \subseteq ModKeys /\ kbdLocks \subseteq Locks /\ kbdLeds \subseteq Locks
    /\ kbdPartial \in BOOLEAN /\ kbdErr \in BOOLEAN
    /\ auxX \in Int /\ auxChanged \in BOOLEAN /\ auxKbdWas \in BOOLEAN /\ auxLost \in BOOLEAN
    /\ Len(auxPacket) <= 3
    /\ auxCaller \in {"idle", "changed", "enable"}

(* The keys are those that the codes mean which KeyGetchar took: however   *)
(* the codes are cut by ticks of the timer, bytes of the mouse, changes of *)
(* the lights and calls of the protocol, a modifier or a lock holds for    *)
(* the keys after it, and a key is made once and waits in its order.  It   *)
(* says nothing of codes that never came to KeyGetchar, because the queue  *)
(* was full or a wait for an acknowledge read them.                        *)
KeysAsTyped ==
    ps2Pc.pc \notin {"led", "lights", "made", "restart"} =>
        /\ kbdMade = kbdMeant.keys
        /\ Len(kbdKeys) <= Len(kbdMade)
        /\ kbdKeys = SubSeq(kbdMade, Len(kbdMade) - Len(kbdKeys) + 1, Len(kbdMade))

(* What PS2MouseGetPacket takes for a packet are bytes that were sent one   *)
(* after the other, though the keyboard driver reads the same buffer; and  *)
(* they are the bytes of one packet, in their places, unless a byte of the *)
(* mouse was late or read by somebody else: after that the driver may take *)
(* another byte with the sync bit for a first one (CommPs2.c:393), and     *)
(* makes a packet of the bytes of two until a first byte comes first.  The *)
(* callers are told each movement once.                                    *)
NumberOf(b) == 3 * b.packet - b.byte        \* later packets have lower numbers
MotionWhole ==
    /\ \A i \in 1 .. Len(auxPacket) - 1 : NumberOf(auxPacket[i + 1]) = NumberOf(auxPacket[i]) - 1
    /\ auxLost \/ \A i \in 1 .. Len(auxPacket) :
           auxPacket[i].packet = auxPacket[1].packet /\ auxPacket[i].byte = i
    /\ auxMoved = auxGiven + auxX
    /\ auxX # 0 => auxChanged

(* Keyboard and mouse: the codes and the bytes the drivers take come to    *)
(* their callers as keys and movements, each once and in order; and a      *)
(* movement is of one packet, unless the driver lost bytes of the mouse.   *)
InputAsMade == KeysAsTyped /\ MotionWhole
=============================================================================
