---------------------------- MODULE AcpiSupport ----------------------------
(***************************************************************************)
(* AcpiSupportDxe: the ACPI tables.  Every table is an element of a list   *)
(* and, unless it is the FADT, the FACS or the DSDT, an entry of the root  *)
(* tables: RSDT1 for the tables of ACPI 1.0B, RSDT3 and XSDT for those of  *)
(* 2.0 and 3.0.  The first entry of a root table is the FADT, which points *)
(* to the FACS and to the DSDT.  A table is known by the page it is in; a  *)
(* page that was freed is used again.                                      *)
(***************************************************************************)
EXTENDS Integers, SequencesExt

CONSTANTS
    AcpiTables,        \* tables that are set: [kind, version, checksum]
    AcpiRemovals,      \* the versions of calls that remove a table or publish
    AcpiPages,         \* pages below 4 GB
    AcpiMaxNumTables,  \* EFI_ACPI_MAX_NUM_TABLES
    AcpiBudgets        \* bounds: calls and faults

VARIABLES
    acpi,       \* EFI_ACPI_SUPPORT_INSTANCE
    acpiTold,   \* TablesInstalled1, TablesInstalled3
    acpiTidy,   \* history: no table was removed for other versions than its own or
                \*   replaced by one of another kind, and publication came right
                \*   after the removal of a FADT
    acpiLeft    \* what is left of the budget

acpiVars == <<acpi, acpiTold, acpiTidy, acpiLeft>>

Generations == {"1", "3"}
VersionsOf == [g \in Generations |-> IF g = "1" THEN {"1.0B"} ELSE {"2.0", "3.0"}]
AllVersions == {"1.0B", "2.0", "3.0"}
Covers(version, g) == version \cap VersionsOf[g] # {}
RootsOf == [g \in Generations |-> IF g = "1" THEN {"Rsdt1"} ELSE {"Rsdt3", "Xsdt"}]
Roots == {"Rsdt1", "Rsdt3", "Xsdt"}
Fixed == {"FADT", "FACS", "DSDT"}
Null == 0
NoLinks == [k \in {"FACS", "DSDT"} |-> Null]

(* AcpiSupportAcpiSupportConstructor                                       *)
AcpiInit ==
    /\ acpi = [list |-> <<>>, handle |-> 1, max |-> AcpiMaxNumTables,
               fixed |-> [g \in Generations |-> [k \in Fixed |-> Null]],
               root |-> [r \in Roots |-> <<Null>>],
               sum |-> [r \in Roots |-> <<Null>>]]
    /\ acpiTold = {}
    /\ acpiTidy = TRUE
    /\ acpiLeft \in AcpiBudgets

Live(a) == {a.list[i].page : i \in DOMAIN a.list}

(* The checksum of a table is right when it is that of the present content.*)
ChecksumCommonTables(a) == [a EXCEPT !.sum = a.root]

(* The FADT of a generation is written and its checksum with it.           *)
SetLink(a, g, kind, page) ==
    LET Linked(e) == [e EXCEPT !.link[kind] = page,
                               !.sum = [e.link EXCEPT ![kind] = page]]
    IN  [a EXCEPT !.list = [i \in DOMAIN a.list |->
            IF a.fixed[g]["FADT"] = a.list[i].page THEN Linked(a.list[i]) ELSE a.list[i]]]
SetLinks(a, version, kind, page) ==
    LET one == IF Covers(version, "1") THEN SetLink(a, "1", kind, page) ELSE a
    IN  IF Covers(version, "3") THEN SetLink(one, "3", kind, page) ELSE one

SetFixed(a, version, kind, page) ==
    [a EXCEPT !.fixed = [g \in Generations |->
        IF Covers(version, g) THEN [@[g] EXCEPT ![kind] = page] ELSE @[g]]]

(* The links of a new FADT: those of generation 3 are written last.        *)
LinksFor(a, version) ==
    [k \in {"FACS", "DSDT"} |-> IF Covers(version, "3") THEN a.fixed["3"][k]
                                ELSE IF Covers(version, "1") THEN a.fixed["1"][k] ELSE Null]

ReallocateAcpiTableBuffer(a) ==
    [a EXCEPT !.max = a.max + AcpiMaxNumTables,
              !.root = [r \in Roots |-> SubSeq(@[r], 1, Min({Len(@[r]), a.max}))]]
AddToRoot(a, g, page) ==
    LET b == IF \E r \in RootsOf[g] : Len(a.root[r]) >= a.max
             THEN ReallocateAcpiTableBuffer(a) ELSE a
    IN  [b EXCEPT !.root = [r \in Roots |-> IF r \in RootsOf[g] THEN Append(@[r], page)
                                            ELSE @[r]]]
AddToRoots(a, version, page) ==
    LET one == IF Covers(version, "1") THEN AddToRoot(a, "1", page) ELSE a
    IN  IF Covers(version, "3") THEN AddToRoot(one, "3", page) ELSE one

(* AddTableToList, once it has a page: a second FADT, FACS or DSDT of a    *)
(* generation is refused, its handle is used up all the same.              *)
Denied(a, t) == t.kind \in Fixed /\ \E g \in Generations :
                    Covers(t.version, g) /\ a.fixed[g][t.kind] # Null
FreePage(a) == CHOOSE p \in AcpiPages \ Live(a) : \A q \in AcpiPages \ Live(a) : p <= q
AddTableToList(a, t) ==
    LET page == FreePage(a)
        links == IF t.kind = "FADT" THEN LinksFor(a, t.version) ELSE NoLinks
        entry == [kind |-> t.kind, version |-> t.version, handle |-> a.handle, page |-> page,
                  link |-> links, checksum |-> t.checksum,
                  sum |-> IF t.checksum THEN links ELSE NoLinks]
        b == [a EXCEPT !.handle = @ + 1]
        c == IF t.kind \in Fixed THEN SetFixed(b, t.version, t.kind, page) ELSE b
        d == IF t.kind \in {"FACS", "DSDT"} THEN SetLinks(c, t.version, t.kind, page) ELSE c
        e == [d EXCEPT !.list = Append(@, entry)]
        f == IF t.kind \in Fixed THEN e ELSE AddToRoots(e, t.version, page)
    IN  IF Denied(a, t) THEN b ELSE ChecksumCommonTables(f)

(* RemoveTableFromRsdt: the first entry that is the table's address.       *)
RemoveTableFromRsdtUnsummed(a, g, page) ==
    LET at == {i \in 1..Len(a.root[CHOOSE r \in RootsOf[g] : TRUE]) :
                  \A r \in RootsOf[g] : a.root[r][i] = page}
        new == [r \in Roots |->
                   IF r \in RootsOf[g]
                   THEN RemoveAt(a.root[r], CHOOSE i \in at : \A j \in at : i <= j)
                   ELSE a.root[r]]
    IN  IF at = {} THEN a
        ELSE [a EXCEPT !.root = new]
RemoveTableFromRsdt(a, g, page) ==
    LET at == {i \in 1..Len(a.root[CHOOSE r \in RootsOf[g] : TRUE]) :
                  \A r \in RootsOf[g] : a.root[r][i] = page}
        new == [r \in Roots |->
                   IF r \in RootsOf[g]
                   THEN RemoveAt(a.root[r], CHOOSE i \in at : \A j \in at : i <= j)
                   ELSE a.root[r]]
    IN  IF at = {} THEN a
        ELSE [a EXCEPT !.root = new,
                       !.sum = [r \in Roots |-> IF r \in RootsOf[g] THEN new[r] ELSE @[r]]]

(* DeleteTable: what it clears of the FADT, the FACS and the DSDT are the  *)
(* versions of the call, not those of the table.                           *)
DeleteTable(a, version, i) ==
    LET e == a.list[i]
        left == e.version \ version
        Out(b, g) == IF e.kind \notin Fixed /\ Covers(version \cap e.version, g)
                     THEN RemoveTableFromRsdt(b, g, e.page) ELSE b
        b1 == Out(Out([a EXCEPT !.list[i].version = left], "1"), "3")
        b2 == IF e.kind \in {"FACS", "DSDT"} THEN SetLinks(b1, version, e.kind, Null) ELSE b1
        b3 == IF e.kind \in Fixed THEN SetFixed(b2, version, e.kind, Null) ELSE b2
    IN  IF left = {} THEN [b3 EXCEPT !.list = RemoveAt(@, i)] ELSE b3

(* FindTableByHandle: the first of the list.                               *)
HasHandle(a, handle) == \E i \in DOMAIN a.list : a.list[i].handle = handle
FindTableByHandle(a, handle) ==
    CHOOSE i \in DOMAIN a.list : /\ a.list[i].handle = handle
                                 /\ \A j \in 1..i - 1 : a.list[j].handle # handle
RemoveTableFromList(a, version, handle) ==
    DeleteTable(a, version, FindTableByHandle(a, handle))

(* PublishTables: the FADT becomes the first entry.                        *)
Publish(a, version) ==
    ChecksumCommonTables([a EXCEPT !.root = [r \in Roots |->
        LET g == IF r = "Rsdt1" THEN "1" ELSE "3"
        IN  IF Covers(version, g) THEN [@[r] EXCEPT ![1] = a.fixed[g]["FADT"]] ELSE @[r]]])

----------------------------------------------------------------------------
Handles == 1..acpi.handle - 1
Calls == acpiLeft.calls > 0 /\ acpiLeft' = [acpiLeft EXCEPT !.calls = @ - 1]
FailingCall == /\ acpiLeft.calls > 0 /\ acpiLeft.faults > 0
               /\ acpiLeft' = [acpiLeft EXCEPT !.calls = @ - 1, !.faults = @ - 1]
HasPage(a) == AcpiPages \ Live(a) # {}

(* A root table still holds a FADT that was freed.                         *)
StaleFadt == \E r \in Roots : acpi.root[r][1] # Null /\ acpi.root[r][1] \notin Live(acpi)
Exact(version, handle) ==
    version = acpi.list[FindTableByHandle(acpi, handle)].version
Tidy(exact) == acpiTidy' = (acpiTidy /\ exact /\ ~StaleFadt)

(* SetAcpiTable without a handle adds, with one it replaces; without a     *)
(* table it removes.  Memory may run out.                                  *)
AddTable(t) ==
    /\ \/ Calls /\ HasPage(acpi) /\ acpi' = AddTableToList(acpi, t)
       \/ FailingCall /\ UNCHANGED acpi
    /\ Tidy(TRUE)
    /\ UNCHANGED acpiTold

ReplaceTable(handle, t) ==
    LET removed == RemoveTableFromList(acpi, t.version, handle)
        added == AddTableToList([removed EXCEPT !.handle = handle], t)
    IN  /\ HasHandle(acpi, handle)
        /\ \/ Calls /\ HasPage(removed) /\ acpi' = [added EXCEPT !.handle = acpi.handle]
           \/ FailingCall /\ acpi' = removed
        /\ Tidy(/\ Exact(t.version, handle)
                /\ acpi.list[FindTableByHandle(acpi, handle)].kind = t.kind)
        /\ UNCHANGED acpiTold

RemoveTable(handle, version) ==
    /\ HasHandle(acpi, handle)
    /\ Calls
    /\ acpi' = RemoveTableFromList(acpi, version, handle)
    /\ Tidy(Exact(version, handle))
    /\ UNCHANGED acpiTold

(* The configuration tables are installed once, each of them may fail.     *)
Tells(version) ==
    LET told == {g \in Generations : Covers(version, g)}
    IN  \/ acpiTold' = acpiTold \cup told /\ Calls
        \/ /\ told \ acpiTold # {} /\ FailingCall
           /\ acpiTold' \in {acpiTold, acpiTold \cup (told \cap {"1"})}

PublishTables(version) ==
    /\ Tells(version)
    /\ acpi' = Publish(acpi, version)
    /\ UNCHANGED acpiTidy

InstallAcpiTable(kind) ==
    LET t == [kind |-> kind, version |-> AllVersions, checksum |-> TRUE]
        added == AddTableToList(acpi, t)
    IN  /\ \/ /\ HasPage(acpi) /\ ~Denied(acpi, t)
              /\ Tells(AllVersions)
              /\ acpi' = Publish(added, AllVersions)
           \/ /\ HasPage(acpi) /\ Denied(acpi, t)
              /\ Calls
              /\ acpi' = added
              /\ UNCHANGED acpiTold
           \/ FailingCall /\ UNCHANGED <<acpi, acpiTold>>
        /\ Tidy(TRUE)

UninstallAcpiTable(handle) ==
    /\ HasHandle(acpi, handle)
    /\ Tells(AllVersions)
    /\ acpi' = Publish(RemoveTableFromList(acpi, AllVersions, handle), AllVersions)
    /\ Tidy(Exact(AllVersions, handle))

AcpiNext ==
    \/ \E t \in AcpiTables : AddTable(t)
    \/ \E handle \in Handles, t \in AcpiTables : ReplaceTable(handle, t)
    \/ \E handle \in Handles, version \in AcpiRemovals : RemoveTable(handle, version)
    \/ \E version \in AcpiRemovals : PublishTables(version)
    \/ \E kind \in Fixed \cup {"other"} : InstallAcpiTable(kind)
    \/ \E handle \in Handles : UninstallAcpiTable(handle)

AcpiSpec == AcpiInit /\ [][AcpiNext]_acpiVars

----------------------------------------------------------------------------
AcpiTypeOK ==
    /\ \A i \in DOMAIN acpi.list :
           /\ acpi.list[i].kind \in Fixed \cup {"other"}
           /\ acpi.list[i].version \in SUBSET AllVersions \ {{}}
           /\ acpi.list[i].handle \in Handles
           /\ acpi.list[i].page \in AcpiPages
    /\ acpi.handle \in Nat \ {0}
    /\ \A r \in Roots : Len(acpi.root[r]) \in 1..acpi.max
    /\ acpiTold \subseteq Generations
    /\ acpiTidy \in BOOLEAN

(* The tables of a generation in the order of the list.                    *)
Listed(g) ==
    LET of == SelectSeq(acpi.list, LAMBDA e : e.kind \notin Fixed /\ Covers(e.version, g))
    IN  [i \in DOMAIN of |-> of[i].page]
Entry(page) == acpi.list[CHOOSE i \in DOMAIN acpi.list : acpi.list[i].page = page]

(* Whatever calls set, replace, remove and publish tables: every root      *)
(* table lists, after the FADT, exactly the tables of its versions, none   *)
(* that was freed and none twice, and its checksum is that of its content; *)
(* the FADT points to the FACS and the DSDT of its generation and never to *)
(* a freed one, and has the checksum of what it holds; handles are unique. *)
(* It needs callers that remove a table for the versions it was set for,   *)
(* replace it by one of its kind and publish when they removed the FADT.   *)
TablesConsistent ==
    acpiTidy =>
        /\ \A g \in Generations : \A r \in RootsOf[g] :
               /\ Tail(acpi.root[r]) = Listed(g)
               /\ acpi.sum[r] = acpi.root[r]
        /\ \A g \in Generations :
               LET fadt == acpi.fixed[g]["FADT"]
               IN  fadt # Null =>
                       /\ fadt \in Live(acpi)
                       /\ \A k \in {"FACS", "DSDT"} :
                              \/ Entry(fadt).link[k] = acpi.fixed[g][k]
                              \/ /\ acpi.fixed["1"]["FADT"] = acpi.fixed["3"]["FADT"]
                                 /\ Entry(fadt).link[k] \in
                                        {Null} \cup {acpi.fixed[h][k] : h \in Generations}
                       /\ Entry(fadt).checksum => Entry(fadt).sum = Entry(fadt).link
        /\ \A g \in Generations, k \in Fixed : acpi.fixed[g][k] \in Live(acpi) \cup {Null}
        /\ \A i, j \in DOMAIN acpi.list : i # j => acpi.list[i].handle # acpi.list[j].handle
=============================================================================
