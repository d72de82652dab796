----------------------------- MODULE BdsOptions -----------------------------
(***************************************************************************)
(* Boot options: the variables Boot####, BootOrder, BootNext and            *)
(* LegacyDevOrder, that GenericBdsLib brings in line with the devices a     *)
(* boot finds and that the boot maintenance menu of BdsDxe lets a user      *)
(* change.  The power can go between any two calls of SetVariable.          *)
(*                                                                         *)
(* A boot option is an EFI one, with the device path it names, or a legacy  *)
(* one, which names an entry of the BIOS boot specification (BBS) table by  *)
(* type, description and index.  Variables are stored without failure and   *)
(* options are well formed; a legacy BIOS is present.                       *)
(***************************************************************************)
EXTENDS Integers, SequencesExt

CONSTANTS
    BbsTypes,      \* device types of the BBS table, in the order of LegacyDevOrder
    BdsPlatforms,  \* what a boot may find: [bbs, found]
    BdsFiles,      \* paths of loaders that the user adds an option for
    BdsNumbers,    \* numbers of options, from 0
    BdsBudgets     \* bounds: boots, saves of an order page, of a legacy page, of
                   \* deletions, of additions and of BootNext

VARIABLES
    nv,        \* the stored variables: boot, order, next, dev
    bdsBbs,    \* the BBS table of this boot, indexed from 0
    bdsFound,  \* the handles of this boot an EFI option can be made for
    bdsPc,     \* where the boot is: [at, order, todo]; order is a copy in memory
    bdsNext,   \* mBootNext: BootNext as this boot found it
    bdsMenu,   \* BootOptionMenu
    bdsPages,  \* the legacy pages of the menu and DisableMap: [order, off]
    bdsWas,    \* history: the options in BootOrder when the last save began
    bdsLeft
bdsVars == <<nv, bdsBbs, bdsFound, bdsPc, bdsNext, bdsMenu, bdsPages, bdsWas,
             bdsLeft>>

BBS_DO_NOT_BOOT_FROM == 65532  \* priorities that are none
BBS_LOWEST_PRIORITY == 65533
BBS_UNPRIORITIZED_ENTRY == 65534
BBS_IGNORE_ENTRY == 65535
NoPriority == {BBS_DO_NOT_BOOT_FROM, BBS_LOWEST_PRIORITY, BBS_UNPRIORITIZED_ENTRY,
               BBS_IGNORE_ENTRY}

Set(f, x, v) == [y \in DOMAIN f \cup {x} |-> IF y = x THEN v ELSE f[y]]
Unset(f, x) == [y \in DOMAIN f \ {x} |-> f[y]]
FirstFree(used) == CHOOSE n \in BdsNumbers : /\ n \notin used
                                             /\ \A m \in BdsNumbers : m < n => m \in used

EfiOption(path, name) ==
    [type |-> "efi", path |-> path, name |-> name, index |-> 0, active |-> TRUE]
LegacyOption(e, i) ==
    [type |-> e.type, path |-> "bbs", name |-> e.name, index |-> i, active |-> TRUE]
IsLegacy(o) == o.path = "bbs"
Exists(n) == n \in DOMAIN nv.boot

At(at) == [at |-> at, order |-> <<>>, todo |-> <<>>]
MovesTo(at, order, todo) == bdsPc' = [at |-> at, order |-> order, todo |-> todo]
Spends(what) == bdsLeft[what] > 0 /\ bdsLeft' = [bdsLeft EXCEPT ![what] = @ - 1]
NoPages == [order |-> <<>>, off |-> {}]
Devices == <<bdsBbs, bdsFound>>
Menus == <<bdsNext, bdsMenu, bdsPages, bdsWas>>

(***************************************************************************)
(* Power                                                                   *)
(***************************************************************************)
PowerOn(platform) ==
    /\ bdsPc.at = "off" /\ Spends("boots")
    /\ bdsBbs' = platform.bbs /\ bdsFound' = platform.found
    /\ bdsPc' = At("ready") /\ bdsNext' = nv.next
    /\ UNCHANGED <<nv, bdsMenu, bdsPages, bdsWas>>

\* The power goes, or the machine is reset, whatever was going on.
PowerOff ==
    /\ bdsPc.at # "off"
    /\ bdsBbs' = <<>> /\ bdsFound' = <<>>
    /\ bdsPc' = At("off") /\ bdsNext' = {}
    /\ bdsMenu' = <<>> /\ bdsPages' = NoPages /\ bdsWas' = {}
    /\ UNCHANGED <<nv, bdsLeft>>

(***************************************************************************)
(* Enumeration, once in a boot                                             *)
(***************************************************************************)
Bootable(i) == bdsBbs[i].prio \notin {BBS_IGNORE_ENTRY, BBS_DO_NOT_BOOT_FROM}

\* Without a BootOrder there is nothing to delete.
BdsLibEnumerateAllBootOption ==
    /\ bdsPc.at = "ready"
    /\ MovesTo(IF nv.order = <<>> THEN "legacyAdd" ELSE "legacyDelete", nv.order, <<>>)
    /\ UNCHANGED <<nv, Devices, Menus, bdsLeft>>

\* An entry of BootOrder is dropped if its variable is missing or if it names
\* a legacy device that is no longer where it was.
SameDevice(o, i) == i \in DOMAIN bdsBbs /\ bdsBbs[i].type = o.type /\ bdsBbs[i].name = o.name
Stale(n) ==
    IF ~Exists(n) THEN TRUE
    ELSE IsLegacy(nv.boot[n]) /\ LET o == nv.boot[n]
                                 IN  ~(SameDevice(o, o.index) /\ Bootable(o.index))
FirstIn(order, Drop(_)) == CHOOSE k \in DOMAIN order :
                              Drop(order[k]) /\ \A j \in 1..k-1 : ~Drop(order[j])

DeleteInvalidLegacy ==
    /\ bdsPc.at = "legacyDelete"
    /\ \E k \in DOMAIN bdsPc.order : Stale(bdsPc.order[k])
    /\ LET k == FirstIn(bdsPc.order, Stale)
       IN  /\ nv' = [nv EXCEPT !.boot = Unset(@, bdsPc.order[k])]
           /\ MovesTo("legacyDelete", RemoveAt(bdsPc.order, k), <<>>)
    /\ UNCHANGED <<Devices, Menus, bdsLeft>>

DeleteInvalidLegacyEnds ==
    /\ bdsPc.at = "legacyDelete"
    /\ \A k \in DOMAIN bdsPc.order : ~Stale(bdsPc.order[k])
    /\ nv' = [nv EXCEPT !.order = bdsPc.order]
    /\ MovesTo("legacyAdd", bdsPc.order, <<>>)
    /\ UNCHANGED <<Devices, Menus, bdsLeft>>

\* A device that can be booted gets an option unless one has its type and name.
FindLegacy(order, e) ==
    \E k \in DOMAIN order : /\ Exists(order[k])
                            /\ IsLegacy(nv.boot[order[k]])
                            /\ nv.boot[order[k]].type = e.type
                            /\ nv.boot[order[k]].name = e.name
NewLegacy == {i \in DOMAIN bdsBbs : Bootable(i) /\ ~FindLegacy(bdsPc.order, bdsBbs[i])}

\* The number is one that BootOrder does not use: the variable may exist.
CreateLegacyOption ==
    /\ bdsPc.at = "legacyAdd" /\ NewLegacy # {}
    /\ LET i == CHOOSE i \in NewLegacy : \A j \in NewLegacy : i <= j
           n == FirstFree(ToSet(bdsPc.order))
       IN  /\ nv' = [nv EXCEPT !.boot = Set(@, n, LegacyOption(bdsBbs[i], i))]
           /\ bdsBbs' = [bdsBbs EXCEPT ![i].prio = 0]
           /\ MovesTo("legacyAdd", Append(bdsPc.order, n), <<>>)
    /\ UNCHANGED <<bdsFound, Menus, bdsLeft>>

AddLegacyEnds ==
    /\ bdsPc.at = "legacyAdd" /\ NewLegacy = {}
    /\ nv' = [nv EXCEPT !.order = bdsPc.order]
    /\ bdsPc' = At("devOrder")
    /\ UNCHANGED <<Devices, Menus, bdsLeft>>

(***************************************************************************)
(* LegacyDevOrder lists the devices of each type; off marks a disabled one. *)
(* An old order is kept for the devices that are still there, the others    *)
(* come before the first disabled one.                                      *)
(***************************************************************************)
Slot(i) == [index |-> i, off |-> FALSE]
OfType(t) == {i \in DOMAIN bdsBbs : bdsBbs[i].type = t}
InOrderOf(S) == SetToSortSeq(S, LAMBDA i, j : i < j)

CreatedDevOrder(t) ==
    LET listed == InOrderOf({i \in OfType(t) : bdsBbs[i].prio # BBS_IGNORE_ENTRY})
    IN  [k \in DOMAIN listed |-> Slot(listed[k])]

StaysListedAnyType(t, slot) ==
    /\ slot.index \in DOMAIN bdsBbs /\ Bootable(slot.index)
    /\ t = "floppy" \/ bdsBbs[slot.index].prio # BBS_LOWEST_PRIORITY
StaysListed(t, slot) ==
    /\ slot.index \in OfType(t) /\ Bootable(slot.index)
    /\ t = "floppy" \/ bdsBbs[slot.index].prio # BBS_LOWEST_PRIORITY
AddSlot(slots, i) ==
    LET enabled == {k \in DOMAIN slots : \A j \in 1..k : ~slots[j].off}
    IN  InsertAt(slots, Cardinality(enabled) + 1, Slot(i))
UpdatedDevOrder(t) ==
    LET kept == SelectSeq(nv.dev[t], LAMBDA slot : StaysListed(t, slot))
        listed == {kept[k].index : k \in DOMAIN kept}
        new == InOrderOf({i \in OfType(t) : Bootable(i) /\ i \notin listed})
    IN  FoldLeft(AddSlot, kept, new)

BdsUpdateLegacyDevOrder ==
    /\ bdsPc.at = "devOrder"
    /\ nv' = [nv EXCEPT !.dev = [t \in BbsTypes |-> IF DOMAIN nv.dev = {} THEN CreatedDevOrder(t)
                                                    ELSE UpdatedDevOrder(t)]]
    /\ MovesTo("efiDelete", nv.order, <<>>)
    /\ UNCHANGED <<Devices, Menus, bdsLeft>>

(***************************************************************************)
(* EFI options.  One that names a file is always taken as valid.  The scan  *)
(* gives up, and BootOrder is not written, when a variable is missing.      *)
(***************************************************************************)
Paths == {bdsFound[k].path : k \in DOMAIN bdsFound}
Invalid(n) == Exists(n) /\ ~IsLegacy(nv.boot[n]) /\ nv.boot[n].path \notin Paths \cup BdsFiles
Gone(n) == ~Exists(n) /\ n \notin ToSet(bdsPc.todo)
Scanned(n) == Invalid(n) \/ Gone(n)
Meets(P(_)) == \E k \in DOMAIN bdsPc.order : P(bdsPc.order[k])

\* todo holds the numbers that were deleted, which become 0xFFFF in the copy.
DeleteInvalidEfi ==
    /\ bdsPc.at = "efiDelete" /\ Meets(Scanned)
    /\ LET n == bdsPc.order[FirstIn(bdsPc.order, Scanned)]
       IN  IF Exists(n)
           THEN /\ nv' = [nv EXCEPT !.boot = Unset(@, n)]
                /\ MovesTo("efiDelete", bdsPc.order, Append(bdsPc.todo, n))
           ELSE /\ MovesTo("register", <<>>, bdsFound)
                /\ UNCHANGED nv
    /\ UNCHANGED <<Devices, Menus, bdsLeft>>

DeleteInvalidEfiEnds ==
    /\ bdsPc.at = "efiDelete" /\ ~Meets(Scanned)
    /\ nv' = [nv EXCEPT !.order = SelectSeq(bdsPc.order, LAMBDA n : n \notin ToSet(bdsPc.todo))]
    /\ MovesTo("register", <<>>, bdsFound)
    /\ UNCHANGED <<Devices, Menus, bdsLeft>>

(***************************************************************************)
(* BdsLibRegisterNewOption for the next handle: an option with its path     *)
(* gets its description, or a new variable is written and, in a further     *)
(* step, listed.  An empty BootOrder becomes the single number 0.           *)
(***************************************************************************)
ItsTurn(h) == bdsPc.at = "register" /\ bdsPc.todo # <<>> /\ h = Head(bdsPc.todo)
HasPath(path, n) == Exists(n) /\ nv.boot[n].path = path
Registered(path) == \E k \in DOMAIN nv.order : HasPath(path, nv.order[k])
OptionOf(path) == nv.order[FirstIn(nv.order, LAMBDA n : HasPath(path, n))]

DescribeOption ==
    \E h \in ToSet(bdsFound) :
        /\ ItsTurn(h) /\ h.boots /\ Registered(h.path)
        /\ LET n == OptionOf(h.path)
           IN  nv' = IF nv.boot[n].name = h.name THEN nv
                     ELSE [nv EXCEPT !.boot[n] = EfiOption(h.path, h.name)]
        /\ MovesTo("register", <<>>, Tail(bdsPc.todo))
        /\ UNCHANGED <<Devices, Menus, bdsLeft>>

RegisterNewOption ==
    \E h \in ToSet(bdsFound) :
        /\ ItsTurn(h) /\ h.boots /\ ~Registered(h.path)
        /\ LET n == FirstFree(DOMAIN nv.boot)
           IN  /\ nv' = [nv EXCEPT !.boot = Set(@, n, EfiOption(h.path, h.name))]
               /\ MovesTo("list", IF nv.order = <<>> THEN <<0>> ELSE Append(nv.order, n),
                       Tail(bdsPc.todo))
        /\ UNCHANGED <<Devices, Menus, bdsLeft>>

ListNewOption ==
    /\ bdsPc.at = "list"
    /\ nv' = [nv EXCEPT !.order = bdsPc.order]
    /\ MovesTo("register", <<>>, bdsPc.todo)
    /\ UNCHANGED <<Devices, Menus, bdsLeft>>

\* A file system without a loader: its option is deleted, then delisted.  A
\* variable that is missing before it ends the search.
DeleteOptionFromHandle ==
    \E h \in ToSet(bdsFound) :
        /\ ItsTurn(h) /\ ~h.boots
        /\ LET Seen(n) == ~Exists(n) \/ HasPath(h.path, n)
               n == nv.order[FirstIn(nv.order, Seen)]
           IN  IF \E k \in DOMAIN nv.order : Seen(nv.order[k]) /\ Exists(n)
               THEN /\ nv' = [nv EXCEPT !.boot = Unset(@, n)]
                    /\ MovesTo("list", RemoveFirst(nv.order, n), Tail(bdsPc.todo))
               ELSE /\ MovesTo("register", <<>>, Tail(bdsPc.todo))
                    /\ UNCHANGED nv
        /\ UNCHANGED <<Devices, Menus, bdsLeft>>

EnumerationEnds ==
    /\ bdsPc.at = "register" /\ bdsPc.todo = <<>>
    /\ bdsPc' = At("listed")
    /\ UNCHANGED <<nv, Devices, Menus, bdsLeft>>

(***************************************************************************)
(* The boot maintenance menu.  It lists the active options, one page orders *)
(* each type of legacy device; what it writes is worked out from its lists  *)
(* and stored one variable at a time.                                       *)
(***************************************************************************)
LegacyNumber(n) == Exists(n) /\ IsLegacy(nv.boot[n])
SameType(n, m) == LegacyNumber(n) /\ LegacyNumber(m) /\ nv.boot[n].type = nv.boot[m].type

\* Every legacy option is moved behind those of its type that come before it.
AddToGroup(done, n) ==
    LET before == {k \in DOMAIN done : SameType(done[k], n)}
    IN  IF before = {} THEN Append(done, n) ELSE InsertAt(done, Max(before) + 1, n)
Grouped(order) == FoldLeft(AddToGroup, <<>>, order)

MenuOf(stored) ==
    LET listed == SelectSeq(stored.order, LAMBDA n : n \in DOMAIN stored.boot
                                                     /\ stored.boot[n].active)
    IN  [k \in DOMAIN listed |-> [n |-> listed[k], next |-> listed[k] \in stored.next]]

MenuNumber(t) == Cardinality({i \in OfType(t) : Bootable(i)})
OnPage(t) == SubSeq(nv.dev[t], 1, MenuNumber(t))
Indices(slots) == [k \in DOMAIN slots |-> slots[k].index]
IsOff(slot) == slot.off
IsOn(slot) == ~slot.off
PagesOf ==
    [order |-> [t \in BbsTypes |-> Indices(SelectSeq(OnPage(t), IsOn))],
     off |-> UNION {ToSet(Indices(SelectSeq(OnPage(t), IsOff))) : t \in BbsTypes}]

BdsStartBootMaint ==
    /\ bdsPc.at \in {"listed", "booted"}
    /\ nv' = [nv EXCEPT !.order = Grouped(@)]
    /\ bdsMenu' = MenuOf(nv') /\ bdsPages' = PagesOf /\ bdsWas' = ToSet(nv.order)
    /\ bdsPc' = At("menu")
    /\ UNCHANGED <<Devices, bdsNext, bdsLeft>>

\* A save: its writes, each given by what is stored after it.
Saves(what, writes, menu) ==
    /\ Spends(what)
    /\ MovesTo("saving", <<>>, writes)
    /\ bdsMenu' = menu /\ bdsWas' = ToSet(nv.order)
    /\ UNCHANGED <<nv, Devices, bdsNext>>

StoreNext ==
    /\ bdsPc.at = "saving"
    /\ IF bdsPc.todo = <<>> THEN bdsPc' = At("menu") /\ UNCHANGED nv
       ELSE nv' = Head(bdsPc.todo) /\ MovesTo("saving", <<>>, Tail(bdsPc.todo))
    /\ UNCHANGED <<Devices, Menus, bdsLeft>>

\* The options of the page's devices take, in the page's order, the places of
\* BootOrder from the first of them on.  An option is found by its index; what
\* a device without one puts there was never written.
PlaceOf(slot) == CHOOSE k \in DOMAIN nv.order :
                    /\ LegacyNumber(nv.order[k]) /\ nv.boot[nv.order[k]].index = slot.index
                    /\ \A j \in 1..k-1 : ~(/\ LegacyNumber(nv.order[j])
                                          /\ nv.boot[nv.order[j]].index = slot.index)
HasPlace(slot) == \E k \in DOMAIN nv.order : /\ LegacyNumber(nv.order[k])
                                             /\ nv.boot[nv.order[k]].index = slot.index
OrderLegacyBootOption4SameType(slots, unwritten) ==
    LET places == {PlaceOf(slots[j]) : j \in {j \in DOMAIN slots : HasPlace(slots[j])}}
        first == Min(places)
        new == [j \in DOMAIN slots |-> IF HasPlace(slots[j]) THEN nv.order[PlaceOf(slots[j])]
                                       ELSE unwritten]
    IN  [k \in DOMAIN nv.order |->
            IF places # {} /\ k \in first..(first + Cardinality(places) - 1)
            THEN new[k - first + 1] ELSE nv.order[k]]

\* The group of a type: the enabled devices of the page, then the disabled
\* ones, then zeroes.
NewGroup(t, enabled, off) ==
    LET disabled == SelectSeq(OnPage(t), LAMBDA slot : slot.index \in off)
        listed == [k \in DOMAIN enabled |-> Slot(enabled[k])]
                  \o [k \in DOMAIN disabled |-> [index |-> disabled[k].index, off |-> TRUE]]
    IN  [k \in DOMAIN nv.dev[t] |-> IF k \in DOMAIN listed THEN listed[k] ELSE Slot(0)]

\* Every device has its option: nothing unwritten is used.
AllPlaced(slots) == \A k \in DOMAIN slots : HasPlace(slots[k])
OptionsOf(slots) ==
    LET placed == SelectSeq(Reverse(slots), HasPlace)
    IN  [k \in DOMAIN placed |-> nv.order[PlaceOf(placed[k])]]
Activated(stored, n, active) ==
    IF n \in DOMAIN stored.boot THEN [stored EXCEPT !.boot[n].active = active] ELSE stored
After(stored, numbers, active) ==  \* what is stored after each of the writes
    [k \in DOMAIN numbers |->
        FoldLeft(LAMBDA s, n : Activated(s, n, active), stored, SubSeq(numbers, 1, k))]

Var_UpdateBBSOption ==
    /\ bdsPc.at = "menu"
    /\ \E t \in BbsTypes, S \in SUBSET DOMAIN bdsBbs :
           LET listed == {i \in OfType(t) : Bootable(i)}
               off == (bdsPages.off \ S) \cup (listed \ S)
           IN  S \subseteq listed /\ \E enabled \in SetToSeqs(S) : \E unwritten \in BdsNumbers :
                   LET group == NewGroup(t, enabled, off)
                       byGroup == [nv EXCEPT !.dev[t] = group]
                       byOrder == [byGroup EXCEPT !.order =
                                       OrderLegacyBootOption4SameType(group, unwritten)]
                       byOff == After(byOrder, OptionsOf(SelectSeq(group, IsOff)), FALSE)
                       byOn == After(Last(<<byOrder>> \o byOff),
                                     OptionsOf(SelectSeq(group, IsOn)), TRUE)
                       writes == <<byGroup, byOrder>> \o byOff \o byOn
                   IN  /\ enabled # bdsPages.order[t]
                       /\ AllPlaced(group) => unwritten = 0
                       /\ Saves("pages", writes, MenuOf(Last(writes)))
                       /\ bdsPages' = [order |-> [bdsPages.order EXCEPT ![t] = enabled],
                                       off |-> off]

\* The order page shows one option, the first, of each run of legacy options
\* of a type.
Shown == SelectSeq([k \in DOMAIN bdsMenu |-> k],
                   LAMBDA k : k = 1 \/ ~SameType(bdsMenu[k].n, bdsMenu[k - 1].n))
ShownNumbers == {bdsMenu[k].n : k \in ToSet(Shown)}
Var_UpdateBootOrder ==
    /\ bdsPc.at = "menu"
    /\ \E place \in Permutations(ShownNumbers) :
           LET shown == [k \in DOMAIN Shown |-> bdsMenu[Shown[k]].n]
               chosen == [k \in DOMAIN Shown |-> place[shown[k]]]
               order == chosen \o SelectSeq(nv.order, LAMBDA n : n \notin ShownNumbers)
               byOrder == [nv EXCEPT !.order = order]
               writes == <<byOrder, [nv EXCEPT !.order = Grouped(order)]>>
           IN  /\ chosen # shown
               /\ Saves("orders", writes, MenuOf(Last(writes)))
               /\ UNCHANGED bdsPages

\* Options of EFI only can be marked.  BootOrder is deleted, then written
\* from what is left in the menu.
Deleted(stored, entry) ==
    LET gone == [stored EXCEPT !.boot = Unset(@, entry.n)]
    IN  IF entry.next THEN <<gone, [gone EXCEPT !.next = {}]>> ELSE <<gone>>
Var_DelBootOption ==
    /\ bdsPc.at = "menu"
    /\ \E marked \in SUBSET {k \in DOMAIN bdsMenu : ~LegacyNumber(bdsMenu[k].n)} :
           LET Kept(k) == k \notin marked
               left == SelectSeq([k \in DOMAIN bdsMenu |-> k], Kept)
               menu == [k \in DOMAIN left |-> bdsMenu[left[k]]]
               deleted == FoldLeft(LAMBDA done, k : done \o Deleted(Last(<<nv>> \o done), bdsMenu[k]),
                                   <<>>, InOrderOf(marked))
               unordered == [Last(deleted) EXCEPT !.order = <<>>]
               ordered == [unordered EXCEPT !.order = [k \in DOMAIN menu |-> menu[k].n]]
           IN  /\ marked # {}
               /\ Saves("deletes", deleted \o <<unordered, ordered>>, menu)
               /\ UNCHANGED bdsPages

Var_UpdateBootOption ==
    /\ bdsPc.at = "menu"
    /\ \E path \in BdsFiles :
           LET n == FirstFree(ToSet(nv.order) \cup DOMAIN nv.boot)
               byOption == [nv EXCEPT !.boot = Set(@, n, EfiOption(path, path))]
           IN  /\ Saves("adds", <<byOption, [byOption EXCEPT !.order = Append(@, n)]>>,
                        Append(bdsMenu, [n |-> n, next |-> FALSE]))
               /\ UNCHANGED bdsPages

Var_UpdateBootNext ==
    /\ bdsPc.at = "menu"
    /\ \E n \in {bdsMenu[k].n : k \in DOMAIN bdsMenu} :
           /\ Saves("nexts", <<[nv EXCEPT !.next = {n}]>>,
                    [k \in DOMAIN bdsMenu |-> [bdsMenu[k] EXCEPT !.next = bdsMenu[k].n = n]])
           /\ UNCHANGED bdsPages

(***************************************************************************)
(* Boot: the options that are active, in BootOrder.  A legacy one gives the *)
(* devices of its type, itself first, and then those of the other types,    *)
(* their priorities in the table that the legacy BIOS boots by.             *)
(***************************************************************************)
Ranked(bbs, i) == [table |-> [bbs.table EXCEPT ![i].prio = bbs.rank], rank |-> bbs.rank + 1]
BdsSetBootPriority4SameTypeDev(bbs, t, chosen) ==
    LET others == SelectSeq(nv.dev[t], LAMBDA slot : ~slot.off /\ slot.index \notin chosen)
    IN  FoldLeft(Ranked, FoldLeft(Ranked, bbs, InOrderOf(chosen)), Indices(others))
Unranked == [i \in DOMAIN bdsBbs |->
                IF bdsBbs[i].prio \in NoPriority THEN bdsBbs[i]
                ELSE [bdsBbs[i] EXCEPT !.prio = BBS_UNPRIORITIZED_ENTRY]]

BdsRefreshBbsTableForBoot(o) ==
    LET listed == SelectSeq(nv.order, LegacyNumber)
        types == [k \in DOMAIN listed |-> nv.boot[listed[k]].type]
        NewType(k) == types[k] # o.type /\ \A j \in 1..k-1 : types[j] # types[k]
        first == BdsSetBootPriority4SameTypeDev([table |-> Unranked, rank |-> 0],
                                                o.type, {o.index})
    IN  FoldLeft(LAMBDA bbs, k : BdsSetBootPriority4SameTypeDev(bbs, types[k], {}),
                 first, SelectSeq([k \in DOMAIN types |-> k], NewType)).table

BdsLibBootViaBootOption(n) ==
    /\ bdsBbs' = IF LegacyNumber(n) THEN BdsRefreshBbsTableForBoot(nv.boot[n]) ELSE bdsBbs
    /\ bdsPc' = [At("booted") EXCEPT !.order = <<n>>]

\* BootNext, as it was when the power came on, is deleted before its option is
\* looked for.  Any option may be the first that boots.
BdsBootDeviceSelect ==
    /\ bdsPc.at \in {"listed", "menu", "booted"}
    /\ nv' = IF bdsNext = {} THEN nv ELSE [nv EXCEPT !.next = {}]
    /\ IF bdsNext \subseteq DOMAIN nv.boot
       THEN \E n \in (ToSet(nv.order) \cup bdsNext) \cap DOMAIN nv.boot :
               nv.boot[n].active /\ BdsLibBootViaBootOption(n)
       ELSE bdsPc' = At("returned") /\ UNCHANGED bdsBbs
    /\ bdsMenu' = <<>> /\ bdsPages' = NoPages /\ bdsWas' = {}
    /\ UNCHANGED <<bdsFound, bdsNext, bdsLeft>>

BdsInit ==
    /\ nv = [boot |-> <<>>, order |-> <<>>, next |-> {}, dev |-> <<>>]
    /\ bdsBbs = <<>> /\ bdsFound = <<>>
    /\ bdsPc = At("off") /\ bdsNext = {}
    /\ bdsMenu = <<>> /\ bdsPages = NoPages /\ bdsWas = {}
    /\ bdsLeft \in BdsBudgets

BdsNext ==
    \/ \E platform \in BdsPlatforms : PowerOn(platform)
    \/ PowerOff
    \/ BdsLibEnumerateAllBootOption
    \/ DeleteInvalidLegacy \/ DeleteInvalidLegacyEnds
    \/ CreateLegacyOption \/ AddLegacyEnds
    \/ BdsUpdateLegacyDevOrder
    \/ DeleteInvalidEfi \/ DeleteInvalidEfiEnds
    \/ DescribeOption \/ RegisterNewOption \/ ListNewOption \/ DeleteOptionFromHandle
    \/ EnumerationEnds
    \/ BdsStartBootMaint
    \/ Var_UpdateBBSOption \/ Var_UpdateBootOrder \/ Var_DelBootOption
    \/ Var_UpdateBootOption \/ Var_UpdateBootNext
    \/ StoreNext
    \/ BdsBootDeviceSelect

BdsSpec == BdsInit /\ [][BdsNext]_bdsVars

BdsTypeOK ==
    /\ DOMAIN nv = {"boot", "order", "next", "dev"}
    /\ DOMAIN nv.boot \subseteq BdsNumbers /\ ToSet(nv.order) \subseteq BdsNumbers
    /\ nv.next \subseteq BdsNumbers /\ Cardinality(nv.next) <= 1
    /\ DOMAIN nv.dev \in {{}, BbsTypes}
    /\ bdsPc.at \in {"off", "ready", "legacyDelete", "legacyAdd", "devOrder", "efiDelete",
                     "register", "list", "listed", "menu", "saving", "booted", "returned"}

(***************************************************************************)
(* When a legacy option of BootOrder boots, it is first, no two devices *)
(* share a priority, no priority is skipped, and a device that the user     *)
(* disabled gets none.  (BdsRefreshBbsTableForBoot)                         *)
(***************************************************************************)
Numbered == {i \in DOMAIN bdsBbs : bdsBbs[i].prio \notin NoPriority}
PriorityOrder ==
    bdsPc.at = "booted" /\ bdsPc.order[1] \in ToSet(nv.order) /\ LegacyNumber(bdsPc.order[1]) =>
        LET o == nv.boot[bdsPc.order[1]]
        IN  /\ bdsBbs[o.index].prio = 0
            /\ {bdsBbs[i].prio : i \in Numbered} = 0..(Cardinality(Numbered) - 1)
            /\ \A t \in BbsTypes, i \in Numbered :
                  [index |-> i, off |-> TRUE] \in ToSet(nv.dev[t]) => i = o.index

(***************************************************************************)
(* Whatever was stored, whatever devices came and went since and wherever   *)
(* the power failed, an enumeration ends with lists that agree with each    *)
(* other and with the devices: every number in BootOrder is in it once and  *)
(* has its variable, every device that can be booted has its option in it,  *)
(* every loader of a handle too, no option names a device that is gone, and *)
(* LegacyDevOrder lists every device of its type once; and what boots then  *)
(* is what they say.                                                        *)
(* (BdsLibEnumerateAllBootOption)                                           *)
(***************************************************************************)
ListedOptions == {nv.boot[n] : n \in ToSet(nv.order) \cap DOMAIN nv.boot}
BootListsSound ==
    /\ bdsPc.at = "listed" =>
        /\ IsInjective(nv.order) /\ ToSet(nv.order) \subseteq DOMAIN nv.boot
        /\ \A i \in DOMAIN bdsBbs : Bootable(i) =>
              \E o \in ListedOptions : IsLegacy(o) /\ SameDevice(o, i)
        /\ \A h \in ToSet(bdsFound) : h.boots <=> \E o \in ListedOptions : o.path = h.path
        /\ \A o \in ListedOptions :
              IF IsLegacy(o) THEN SameDevice(o, o.index) /\ Bootable(o.index)
              ELSE o.path \in Paths \cup BdsFiles
        /\ \A t \in BbsTypes :
              /\ IsInjective(Indices(nv.dev[t]))
              /\ {i \in OfType(t) : Bootable(i)} \subseteq ToSet(Indices(nv.dev[t]))
              /\ ToSet(Indices(nv.dev[t])) \subseteq OfType(t)
    /\ PriorityOrder

(***************************************************************************)
(* Whatever a save of the menu writes, an option that was in BootOrder and  *)
(* still exists is in it afterwards.  It fails: the menu leaves inactive    *)
(* options out, and after a deletion BootOrder is written from the menu.    *)
(* (Var_ChangeBootOrder)                                                    *)
(***************************************************************************)
NothingLeftOut ==
    bdsPc.at = "menu" => bdsWas \cap DOMAIN nv.boot \subseteq ToSet(nv.order)
=============================================================================
