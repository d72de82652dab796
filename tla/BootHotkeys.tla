---------------------------- MODULE BootHotkeys ----------------------------
(***************************************************************************)
(* Which option boots: the hot keys (Hotkey.c), the front page with its     *)
(* countdown (FrontPage.c) and the loop over the boot options (BdsEntry.c). *)
(* Key strokes come at any time: the function that is registered for them   *)
(* runs at TPL_NOTIFY, above all of the rest, and leaves the option of a    *)
(* complete sequence in mHotkeyBootOption until the front page looks.       *)
(*                                                                         *)
(* A key is [code, shift]: the modifiers of a hot key are one here, held on *)
(* the left or on the right.  A CRC is the content it is of.  An option     *)
(* that runs may fail, return, or never come back (the power goes).         *)
(***************************************************************************)
EXTENDS Integers, SequencesExt

CONSTANTS
    BtOptions,    \* the Boot#### variables at first: number -> content
    BtOrder,      \* BootOrder at first
    BtTexts,      \* contents that a menu may store
    BtInactive,   \* contents without LOAD_OPTION_ACTIVE
    BtKeyOptions, \* Key#### variables: sequence of [boot, crc, codes, shift]
    BtKeyboards,  \* handles with EFI_SIMPLE_TEXT_INPUT_EX_PROTOCOL
    BtStrokes,    \* keys that are typed
    BtEnter,      \* the one that is CHAR_CARRIAGE_RETURN
    BtTimeouts,   \* seconds, or NoTimeout
    BtBudgets     \* bounds: [boots, keys, runs, edits, faults]

NoTimeout == -1   \* 0xffff: wait in the front page
NoNumber == -1
NoOption == [number |-> NoNumber, content |-> NoNumber]
QueueMax == 1     \* bound: strokes that ConIn keeps; later ones are only shown

VARIABLES
    btStore,     \* the stored variables: boot, order, next, ui (OsIndications)
    btHotkeys,  \* mHotkeyList: [number, crc, keys, waiting]
    btNotify,   \* keyboard -> keys that HotkeyCallback is registered for
    btHotkey,   \* mHotkeyBootOption
    btKeys,     \* strokes that nobody has read from ConIn
    btList,     \* BootLists, the index of Link in it, and mBootNext
    btPc,       \* [at, by, wait, ends]: the place; why the front page was entered;
                \*   TimeoutRemain; ShowProgress has ended in an error
    btLeft,     \* what is left of the budget
    btShown,    \* history: the last three strokes that HotkeyCallback processed
    btCaught,   \* history: the place where the hot key was caught, and whether its
                \*   keys were the last ones
    btMissed,   \* history: a sequence was typed and not caught
    btEdited,   \* history: options that were changed since the power came
    btTried     \* history: numbers of the options run since the list was made
btHistory == <<btShown, btCaught, btMissed, btEdited, btTried>>
btVars ==
    <<btStore, btHotkeys, btNotify, btHotkey, btKeys, btList, btPc, btLeft, btHistory>>

PoweredOff == [at |-> "off", by |-> "none", wait |-> NoTimeout, ends |-> FALSE]
NoList == [options |-> <<>>, at |-> 1, next |-> NoNumber]
NotCaught == [at |-> "none", crc |-> NoNumber, earned |-> FALSE]

BtInit ==
    /\ \E next \in {NoNumber} \cup DOMAIN BtOptions :
           btStore = [boot |-> BtOptions, order |-> BtOrder, next |-> next, ui |-> FALSE]
    /\ btHotkeys = <<>> /\ btNotify = <<>> /\ btHotkey = NoOption /\ btKeys = <<>>
    /\ btList = NoList /\ btPc = PoweredOff /\ btLeft \in BtBudgets
    /\ btShown = <<>> /\ btCaught = NotCaught /\ btMissed = FALSE /\ btEdited = {}
    /\ btTried = <<>>

BtSpend(field) == btLeft[field] > 0 /\ btLeft' = [btLeft EXCEPT ![field] = @ - 1]
BtRuns == btPc.at # "off"
BtAt(places) == btPc.at \in places

(***************************************************************************)
(* The list of hot keys.                                                    *)
(***************************************************************************)
IsKeyOptionValid(o) ==
    o.boot \in DOMAIN btStore.boot /\ btStore.boot[o.boot] = o.crc

\* A hot key with modifiers is held on the left in one entry, on the right in another.
HotkeyInsertList(o) ==
    LET hotkey(side) ==
            [number |-> o.boot, crc |-> o.crc, waiting |-> 0,
             keys |-> [i \in DOMAIN o.codes |-> [code |-> o.codes[i], shift |-> side]]]
    IN  IF o.shift THEN <<hotkey("left"), hotkey("right")>> ELSE <<hotkey("none")>>

InitializeHotkeyService ==
    LET valid == SelectSeq(BtKeyOptions, IsKeyOptionValid)
    IN  FlattenSeq([i \in DOMAIN valid |-> HotkeyInsertList(valid[i])])

\* A keyboard is asked for the keys of the hot keys, one by one; when it refuses
\* one, the rest is not registered.
HotkeyRegisterNotify(keyboard) ==
    LET asked == FlattenSeq([i \in DOMAIN btHotkeys |-> btHotkeys[i].keys])
    IN  \E n \in 0..Len(asked) :
            /\ btNotify' = (keyboard :> ToSet(SubSeq(asked, 1, n))) @@ btNotify
            /\ IF n < Len(asked) THEN BtSpend("faults") ELSE UNCHANGED btLeft
HotkeyEvent ==
    /\ BtRuns
    /\ \E keyboard \in BtKeyboards \ DOMAIN btNotify : HotkeyRegisterNotify(keyboard)
    /\ UNCHANGED <<btStore, btHotkeys, btHotkey, btKeys, btList, btPc, btHistory>>

(***************************************************************************)
(* A stroke.  HotkeyCallback sees it if it is registered for it; who reads  *)
(* ConIn sees it too.                                                       *)
(***************************************************************************)
OptionStored(n) ==
    IF n \in DOMAIN btStore.boot THEN [number |-> n, content |-> btStore.boot[n]] ELSE NoOption

Awaits(h, key) == h.keys[h.waiting + 1] = key
Completes(h, key) == Awaits(h, key) /\ h.waiting + 1 = Len(h.keys)
\* A mistake: a stroke that is not awaited leaves the sequence where it is.
WaitingKeyKept(h, key) ==
    [h EXCEPT !.waiting = IF Completes(h, key) THEN 0
                          ELSE IF Awaits(h, key) THEN @ + 1 ELSE @]
WaitingKeyAfter(h, key) ==
    [h EXCEPT !.waiting = IF Awaits(h, key) /\ ~Completes(h, key) THEN @ + 1 ELSE 0]

\* History: the keys of h are the last strokes, and the stroke before is not
\* the first of them ("F F G" is not taken for "F G").
EndsIn(h, shown) == IsSuffix(h.keys, shown)
TypedOnce(h, shown) ==
    LET before == Len(shown) - Len(h.keys)
    IN  EndsIn(h, shown) /\ (before > 0 => shown[before] \notin ToSet(h.keys))

HotkeyCallback(key) ==
    LET caught == {i \in DOMAIN btHotkeys : Completes(btHotkeys[i], key)}
        shown == Append(IF Len(btShown) < 3 THEN btShown ELSE Tail(btShown), key)
        last == btHotkeys[Max(caught)]
    IN  /\ btHotkeys' = [i \in DOMAIN btHotkeys |-> WaitingKeyAfter(btHotkeys[i], key)]
        /\ btHotkey' = IF caught = {} THEN NoOption ELSE OptionStored(last.number)
        /\ btShown' = shown
        /\ btCaught' = IF btHotkey' = NoOption THEN NotCaught
                       ELSE [at |-> btPc.at, crc |-> last.crc, earned |-> EndsIn(last, shown)]
        /\ btMissed' = (btMissed \/ \E i \in DOMAIN btHotkeys :
                                        TypedOnce(btHotkeys[i], shown) /\ i \notin caught)

TypeKey ==
    /\ BtRuns /\ BtSpend("keys")
    /\ \E key \in BtStrokes :
           /\ btKeys' = IF Len(btKeys) < QueueMax THEN Append(btKeys, key) ELSE btKeys
           /\ IF btHotkey = NoOption /\ key \in UNION Range(btNotify)
              THEN HotkeyCallback(key)
              ELSE UNCHANGED <<btHotkeys, btHotkey, btShown, btCaught, btMissed>>
    /\ UNCHANGED <<btStore, btNotify, btList, btPc, btEdited, btTried>>

(***************************************************************************)
(* Power.  BootNext is read before the platform's policy, which enters the  *)
(* front page with a timeout.  What runs may ask for the next start.        *)
(***************************************************************************)
BdsEntered ==
    /\ ~BtRuns /\ BtSpend("boots")
    /\ btHotkeys' = InitializeHotkeyService
    /\ btList' = [NoList EXCEPT !.next = btStore.next]
    /\ \E t \in BtTimeouts :
           btPc' = [at |-> "front", by |-> "policy", wait |-> t, ends |-> FALSE]
    /\ UNCHANGED <<btStore, btNotify, btHotkey, btKeys, btHistory>>

PowerGoes ==
    /\ BtRuns
    /\ btPc' = PoweredOff /\ btHotkeys' = <<>> /\ btNotify' = <<>> /\ btHotkey' = NoOption
    /\ btKeys' = <<>> /\ btList' = NoList /\ btShown' = <<>> /\ btCaught' = NotCaught
    /\ btEdited' = {} /\ btTried' = <<>>
    /\ UNCHANGED <<btStore, btLeft, btMissed>>

OptionRuns == BtAt({"run"}) \/ (BtAt({"hotkey1", "hotkey2"}) /\ btHotkey # NoOption)

\* What runs stores an option, or asks for the next start.
OsStores ==
    /\ OptionRuns /\ BtSpend("edits")
    /\ \/ /\ \E n \in DOMAIN btStore.boot, text \in BtTexts :
                 /\ btStore' = [btStore EXCEPT !.boot[n] = text]
                 /\ btEdited' = btEdited \cup {n}
       \/ /\ \/ btStore' = [btStore EXCEPT !.ui = TRUE]
             \/ \E n \in DOMAIN btStore.boot : btStore' = [btStore EXCEPT !.next = n]
          /\ UNCHANGED btEdited
    /\ UNCHANGED <<btHotkeys, btNotify, btHotkey, btKeys, btList, btPc,
                   btShown, btCaught, btMissed, btTried>>

(***************************************************************************)
(* The front page.                                                          *)
(***************************************************************************)
FrontPage(by) == [at |-> "front", by |-> by, wait |-> NoTimeout, ends |-> FALSE]

\* EFI_OS_INDICATIONS_BOOT_TO_FW_UI is answered by the menu, at once.
PlatformBdsEnterFrontPage ==
    /\ BtAt({"front"})
    /\ btPc' = [btPc EXCEPT !.at = IF btStore.ui THEN "menu" ELSE "hotkey1"]
    /\ btStore' = [btStore EXCEPT !.ui = FALSE]
    /\ btCaught' = IF btStore.ui /\ btHotkey # NoOption THEN [btCaught EXCEPT !.at = "menu"]
                   ELSE btCaught
    /\ UNCHANGED <<btHotkeys, btNotify, btHotkey, btKeys, btList, btLeft,
                   btShown, btMissed, btEdited, btTried>>

\* The option of a hot key has run, whether it is active or not, and is back; or
\* there is none.
HotkeyBoot ==
    /\ BtAt({"hotkey1", "hotkey2"})
    /\ btHotkey' = NoOption /\ btCaught' = NotCaught
    /\ btPc' = [btPc EXCEPT !.at = CASE BtAt({"hotkey2"}) /\ btPc.ends -> "leave"
                                     [] BtAt({"hotkey1"}) /\ btPc.wait # NoTimeout -> "count"
                                     [] OTHER -> "menu"]
    /\ UNCHANGED <<btStore, btHotkeys, btNotify, btKeys, btList, btLeft,
                   btShown, btMissed, btEdited, btTried>>

\* Only a timeout of zero gets to the key without waiting for one.
ShowProgress ==
    /\ BtAt({"count"})
    /\ \/ /\ btPc.wait > 0 /\ btKeys = <<>>
          /\ btPc' = IF btPc.wait > 1 THEN [btPc EXCEPT !.wait = @ - 1]
                     ELSE [btPc EXCEPT !.at = "hotkey2", !.ends = TRUE]
          /\ UNCHANGED btKeys
       \/ /\ btPc.wait = 0 /\ btKeys = <<>>
          /\ btPc' = [btPc EXCEPT !.at = "hotkey2", !.ends = TRUE]
          /\ UNCHANGED btKeys
       \/ /\ btKeys # <<>>
          /\ btPc' = [btPc EXCEPT !.at = "hotkey2", !.ends = (Head(btKeys) = BtEnter)]
          /\ btKeys' = Tail(btKeys)
    /\ UNCHANGED <<btStore, btHotkeys, btNotify, btHotkey, btList, btLeft, btHistory>>

\* The boot maintenance manager deletes an option, with a BootNext for it.
MenuDeletes ==
    /\ BtAt({"menu"}) /\ BtSpend("edits")
    /\ \E n \in DOMAIN btStore.boot :
           /\ btStore' = [btStore EXCEPT !.boot = RestrictDomain(@, LAMBDA m : m # n),
                                         !.order = Remove(@, n),
                                         !.next = IF @ = n THEN NoNumber ELSE @]
           /\ btEdited' = btEdited \cup {n}
    /\ UNCHANGED <<btHotkeys, btNotify, btHotkey, btKeys, btList, btPc,
                   btShown, btCaught, btMissed, btTried>>

\* CONTINUE in the menu; a hot key that was caught there stays.
FrontPageContinue ==
    /\ BtAt({"menu"})
    /\ btPc' = [btPc EXCEPT !.at = "leave"]
    /\ UNCHANGED <<btStore, btHotkeys, btNotify, btHotkey, btKeys, btList, btLeft, btHistory>>

(***************************************************************************)
(* The loop over the boot options.                                          *)
(***************************************************************************)
BdsLibBuildOptions ==
    SelectSeq([i \in DOMAIN btStore.order |-> OptionStored(btStore.order[i])],
              LAMBDA o : o # NoOption)

LoopOver(options) ==
    /\ btList' = [btList EXCEPT !.options = options, !.at = 1]
    /\ btPc' = [btPc EXCEPT !.at = "list"]
    /\ btTried' = <<>>

\* Back from the platform's policy: the variable of BootNext goes first, so that
\* a start that ends in its option is not the first of many.  (When there is no
\* option at all BdsOptions tells what is enumerated.)
BootDeviceSelect ==
    LET next == OptionStored(btList.next)
    IN  /\ BtAt({"leave"}) /\ btPc.by = "policy"
        /\ IF btList.next = NoNumber
           THEN LoopOver(BdsLibBuildOptions) /\ UNCHANGED btStore
           ELSE /\ btStore' = [btStore EXCEPT !.next = NoNumber]
                /\ IF next = NoOption
                   THEN /\ btPc' = [btPc EXCEPT !.at = "returned"]
                        /\ UNCHANGED <<btList, btTried>>
                   ELSE LoopOver(<<next>> \o BdsLibBuildOptions)
        /\ UNCHANGED <<btHotkeys, btNotify, btHotkey, btKeys, btLeft,
                       btShown, btCaught, btMissed, btEdited>>

\* Back from the menu: the list is made again.  After an option that came back
\* its head is kept for BootNext's, as it was read at first.
BootListsAgain ==
    LET first == IF btPc.by = "booted" /\ btList.next # NoNumber
                 THEN <<Head(btList.options)>> ELSE <<>>
    IN  /\ BtAt({"leave"}) /\ btPc.by \in {"failed", "booted"}
        /\ LoopOver(first \o BdsLibBuildOptions)
        /\ UNCHANGED <<btStore, btHotkeys, btNotify, btHotkey, btKeys, btLeft,
                       btShown, btCaught, btMissed, btEdited>>

IsActive(o) == o.content \notin BtInactive
TryNextOption ==
    /\ BtAt({"list"})
    /\ IF btList.at > Len(btList.options)
       THEN btPc' = FrontPage("failed") /\ UNCHANGED <<btList, btTried>>
       ELSE LET o == btList.options[btList.at]
            IN  IF IsActive(o)
                THEN /\ btPc' = [btPc EXCEPT !.at = "run"] /\ btTried' = Append(btTried, o.number)
                     /\ UNCHANGED btList
                ELSE btList' = [btList EXCEPT !.at = @ + 1] /\ UNCHANGED <<btPc, btTried>>
    /\ UNCHANGED <<btStore, btHotkeys, btNotify, btHotkey, btKeys, btLeft,
                   btShown, btCaught, btMissed, btEdited>>

OptionReturns ==
    /\ BtAt({"run"}) /\ BtSpend("runs")
    /\ \/ /\ btList' = [btList EXCEPT !.at = @ + 1] /\ btPc' = [btPc EXCEPT !.at = "list"]
       \/ btPc' = FrontPage("booted") /\ UNCHANGED btList
    /\ UNCHANGED <<btStore, btHotkeys, btNotify, btHotkey, btKeys, btHistory>>

BtNext ==
    \/ BdsEntered \/ PowerGoes \/ HotkeyEvent \/ TypeKey
    \/ PlatformBdsEnterFrontPage \/ HotkeyBoot \/ ShowProgress
    \/ MenuDeletes \/ FrontPageContinue \/ OsStores
    \/ BootDeviceSelect \/ BootListsAgain \/ TryNextOption \/ OptionReturns

(***************************************************************************)
(* Properties.                                                              *)
(***************************************************************************)
BtOption == {NoOption} \cup
            [number : DOMAIN BtOptions, content : Range(BtOptions) \cup BtTexts]
BtTypeOK ==
    /\ DOMAIN btStore.boot \subseteq DOMAIN BtOptions
    /\ Range(btStore.order) \subseteq DOMAIN BtOptions
    /\ btStore.next \in {NoNumber} \cup DOMAIN BtOptions /\ btStore.ui \in BOOLEAN
    /\ \A i \in DOMAIN btHotkeys :
           btHotkeys[i].waiting < Len(btHotkeys[i].keys)
    /\ DOMAIN btNotify \subseteq BtKeyboards /\ btHotkey \in BtOption
    /\ btKeys \in BoundedSeq(BtStrokes, QueueMax)
    /\ Range(btList.options) \subseteq BtOption \ {NoOption}
    /\ btPc.at \in {"off", "front", "hotkey1", "count", "hotkey2", "menu", "leave", "list",
                    "run", "returned"}

\* A hot key is caught if and only if its keys are the last strokes, in order;
\* what it boots is what its CRC vouched for at the start, unless it was
\* stored again since; and when it was caught before the countdown ended it
\* boots before the loop does.
HotkeysAsTyped ==
    /\ ~btMissed
    /\ btHotkey # NoOption =>
           /\ btCaught.earned
           /\ btHotkey.content = btCaught.crc \/ btHotkey.number \in btEdited
           /\ BtAt({"leave", "list", "run"}) =>
                  btCaught.at \notin {"front", "hotkey1", "count", "hotkey2"}

\* A start that took BootNext runs its option first when that is active, and the
\* variable is gone before, so that the next start does not; the loop gives up
\* when every active option of BootOrder had its turn, but those stored since.
LoopInOrder ==
    /\ BtAt({"list", "run"}) /\ btPc.by = "policy" /\ btList.next # NoNumber =>
           /\ IsActive(btList.options[1]) /\ btTried # <<>> => Head(btTried) = btList.next
           /\ btStore.next = NoNumber \/ btTried # <<>>
    /\ BtAt({"front"}) /\ btPc.by = "failed" =>
           \A n \in Range(btStore.order) \ btEdited :
               IsActive(OptionStored(n)) => n \in Range(btTried)

\* Both.
BootsAsAsked == HotkeysAsTyped /\ LoopInOrder
=============================================================================
