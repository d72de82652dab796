------------------------------ MODULE DataHub ------------------------------
(***************************************************************************)
(* DataHubDxe: a log of records, each with a monotonic count, and filter   *)
(* drivers whose events are signaled when a record of their class is       *)
(* logged; and the loop of DataHubStdErrDxe, by which a filter reads.      *)
(* A record that is logged with the GUID of status codes has status TRUE.  *)
(* Nodes of the list of filters are numbered as they are allocated and     *)
(* never freed; 0 is the list head.                                        *)
(***************************************************************************)
EXTENDS Tpl, Sequences, FiniteSets, FiniteSetsExt

CONSTANTS
    Filters,        \* the events of the filter drivers
    ClassesOf,      \* FilterClass of each
    StatusOnly,     \* the filters that gave the GUID of status codes
    Classes, NoClass, Nil

VARIABLES
    count,          \* GlobalMonotonicCount
    records,        \* DataListHead
    locked,         \* DataLock
    nodes,          \* DATA_HUB_FILTER_DRIVER: event, GetNextMonotonicCount, ForwardLink once removed
    filters,        \* FilterDriverListHead, as the numbers of nodes
    call,           \* per level: what the functions of the data hub keep
    seen,           \* history: the counts of the records each filter was returned
    left            \* bounds: calls and failing allocations that are left

hub == << count, records, locked, nodes, filters, seen >>

ASSUME FiltersAssumption ==
    /\ Filters \subseteq Events
    /\ StatusOnly \subseteq Filters
    /\ ClassesOf \in [Filters -> SUBSET Classes]
    /\ NoClass \notin Classes /\ Nil \notin Events

(* What is logged: the number and class of a report, and whose data it     *)
(* carries (0: nobody's).                                                  *)
NoItem == [id |-> 0, class |-> NoClass, data |-> 0]
NoCall == [item |-> NoItem, status |-> FALSE, mtc |-> 0, at |-> 0, ev |-> Nil, rec |-> 0,
           again |-> FALSE]

End(l) == Back(l) /\ call' = [call EXCEPT ![l] = NoCall]
Locals(l, c) == call' = [call EXCEPT ![l] = c]

HubInit ==
    /\ count = 0
    /\ records = << >>
    /\ locked = FALSE
    /\ nodes = << >>
    /\ filters = << >>
    /\ call = [l \in Tpls |-> NoCall]
    /\ seen = [e \in Filters |-> {}]

-----------------------------------------------------------------------------
(* The list of filters. *)
Listed == {filters[j] : j \in DOMAIN filters}
Position(n) == CHOOSE j \in DOMAIN filters : filters[j] = n
(* The list without node n, which is in it. *)
Removed(n) ==
    [j \in 1 .. Len(filters) - 1 |-> filters[IF j < Position(n) THEN j ELSE j + 1]]
(* A mistake: the link of a node that was removed is cleared. *)
ForwardLinkCleared(n) ==
    LET after == IF n = 0 THEN 1 ELSE Position(n) + 1
    IN  IF n # 0 /\ n \notin Listed THEN 0
        ELSE IF after \in DOMAIN filters THEN filters[after] ELSE 0
(* GetNextNode: a node that was removed keeps the link it had. *)
ForwardLink(n) ==
    LET after == IF n = 0 THEN 1 ELSE Position(n) + 1
    IN  IF n # 0 /\ n \notin Listed THEN nodes[n].link
        ELSE IF after \in DOMAIN filters THEN filters[after] ELSE 0

FindFilterDriverByEvent(e) ==
    LET found == {j \in DOMAIN filters : nodes[filters[j]].event = e}
    IN  IF found = {} THEN 0 ELSE filters[Min(found)]

Interested(n, record) ==
    /\ record.item.class \in ClassesOf[nodes[n].event]
    /\ nodes[n].event \in StatusOnly => record.status

(* The record with count m, or the first one, and the count of the next of *)
(* these classes; 0 stands for no record.                                  *)
NoRecord == [rec |-> 0, next |-> 0]
GetNextDataRecord(classes, m) ==
    LET mine == {j \in DOMAIN records : records[j].item.class \in classes}
        found == {j \in mine : m = 0 \/ records[j].mtc = m}
        later == {j \in mine : j > Min(found)}
    IN  IF found = {} THEN NoRecord
        ELSE [rec |-> records[Min(found)].mtc,
              next |-> IF later = {} THEN 0 ELSE records[Min(later)].mtc]

-----------------------------------------------------------------------------
(* DataHubLogData.  The count is taken and the record inserted under the   *)
(* lock; the filters are signaled after it.                                *)
LogRecord(l) == [mtc |-> call[l].mtc, status |-> call[l].status, item |-> call[l].item]

(* Mistakes: the lock does not raise the level; there is no lock. *)
LogAcquireUnraised(l) ==
    /\ At(l, "log")
    /\ IF locked THEN End(l) /\ UNCHANGED locked
       ELSE Goto(l, "number") /\ locked' = TRUE /\ UNCHANGED call
    /\ UNCHANGED << pending, count, records, nodes, filters, seen, left >>
LogAcquireUnlocked(l) == At(l, "log") /\ Goto(l, "number") /\ UNCHANGED << pending, hub, call, left >>

LogAcquire(l) ==
    /\ At(l, "log")
    /\ IF locked THEN End(l) /\ UNCHANGED locked
       ELSE Lock(l, "number") /\ locked' = TRUE /\ UNCHANGED call
    /\ UNCHANGED << pending, count, records, nodes, filters, seen, left >>

LogNoMemory(l) ==
    /\ At(l, "number") /\ left.failures > 0
    /\ locked' = FALSE
    /\ left' = [left EXCEPT !.failures = @ - 1]
    /\ End(l)
    /\ UNCHANGED << pending, count, records, nodes, filters, seen >>

LogNumber(l) ==
    /\ At(l, "number")
    /\ count' = count + 1
    /\ Locals(l, [call[l] EXCEPT !.mtc = count + 1])
    /\ Goto(l, "insert")
    /\ UNCHANGED << pending, records, locked, nodes, filters, seen, left >>

LogInsert(l) ==
    /\ At(l, "insert")
    /\ records' = Append(records, LogRecord(l))
    /\ locked' = FALSE
    /\ Locals(l, [call[l] EXCEPT !.at = 0])
    /\ Unlock(l, "next")
    /\ UNCHANGED << pending, count, nodes, filters, seen, left >>

LogNext(l) ==
    /\ At(l, "next")
    /\ LET n == ForwardLink(call[l].at)
       IN  IF n = 0 THEN End(l)
           ELSE Locals(l, [call[l] EXCEPT !.at = n]) /\ Goto(l, "walk")
    /\ UNCHANGED << pending, hub, left >>

LogSignal(l) ==
    /\ At(l, "walk")
    /\ LET n == call[l].at
       IN  IF Interested(n, LogRecord(l)) THEN Signal(nodes[n].event) ELSE UNCHANGED pending
    /\ Goto(l, "next")
    /\ UNCHANGED << hub, call, left >>

-----------------------------------------------------------------------------
(* DataHubGetNextRecord for a filter's event, and the loop of              *)
(* DataHubStdErrEventHandler around it: it begins with a count of 0 and    *)
(* reads on while the call succeeds and returns a next count.              *)
Reading(l) == At(l, "read")

(* The count to look for: the one that is asked for; without one, that of  *)
(* the record that was read last, to get at the next.                      *)
CountWanted(l, n) == IF call[l].mtc # 0 THEN call[l].mtc ELSE nodes[n].next
Found(l, n) ==
    IF n = 0 THEN NoRecord ELSE GetNextDataRecord(ClassesOf[call[l].ev], CountWanted(l, n))

ReadFails(l) ==
    /\ Reading(l)
    /\ LET n == FindFilterDriverByEvent(call[l].ev)
       IN  Found(l, n).rec = 0
    /\ End(l)
    /\ UNCHANGED << pending, hub, left >>

ReadFinds(l) ==
    /\ Reading(l)
    /\ LET n == FindFilterDriverByEvent(call[l].ev)
       IN  /\ Found(l, n).rec # 0
           /\ Locals(l, [call[l] EXCEPT
                  !.at = n, !.rec = Found(l, n).rec, !.mtc = Found(l, n).next,
                  !.again = call[l].mtc = 0 /\ nodes[n].next # 0])
    /\ Goto(l, "store")
    /\ UNCHANGED << pending, hub, left >>

(* A mistake: at the end of the log, what is logged so far counts as read. *)
ReadStoresAll(l) ==
    /\ At(l, "store")
    /\ LET c == call[l]
           after == GetNextDataRecord(ClassesOf[c.ev], c.mtc)
           moved == c.again /\ c.mtc # 0
           returned == IF moved THEN after.rec ELSE c.rec
       IN  /\ nodes' = [nodes EXCEPT ![c.at].next =
                            IF c.mtc # 0 THEN c.mtc ELSE IF c.again THEN @
                            ELSE records[Len(records)].mtc]
           /\ Locals(l, [c EXCEPT !.rec = returned, !.mtc = IF moved THEN after.next ELSE @])
           /\ seen' = [seen EXCEPT ![c.ev] = @ \cup {returned}]
    /\ Goto(l, "got")
    /\ UNCHANGED << pending, count, records, locked, filters, left >>

ReadStores(l) ==
    /\ At(l, "store")
    /\ LET c == call[l]
           after == GetNextDataRecord(ClassesOf[c.ev], c.mtc)
           moved == c.again /\ c.mtc # 0
           returned == IF moved THEN after.rec ELSE c.rec
       IN  /\ nodes' = [nodes EXCEPT ![c.at].next =
                            IF c.mtc # 0 THEN c.mtc ELSE IF c.again THEN @ ELSE c.rec]
           /\ Locals(l, [c EXCEPT !.rec = returned, !.mtc = IF moved THEN after.next ELSE @])
           /\ seen' = [seen EXCEPT ![c.ev] = @ \cup {returned}]
    /\ Goto(l, "got")
    /\ UNCHANGED << pending, count, records, locked, filters, left >>

(* A mistake: the loop ends when the call fails, not when there is no next. *)
ReadGoesOnAgain(l) ==
    At(l, "got") /\ Goto(l, "read") /\ UNCHANGED << call, pending, hub, left >>

ReadGoesOn(l) ==
    /\ At(l, "got")
    /\ IF call[l].mtc # 0 THEN Goto(l, "read") /\ UNCHANGED call ELSE End(l)
    /\ UNCHANGED << pending, hub, left >>

-----------------------------------------------------------------------------
(* DataHubRegisterFilterDriver and DataHubUnregisterFilterDriver.  Both    *)
(* search first and change the list, under the lock, after.  A driver does *)
(* not interrupt its own registration with another for its event.          *)
Owner(e) == \A l \in Tpls :
    code[l].pc \in {"register", "link", "announce", "unregister", "unlink"} => call[l].ev # e

RegisterFinds(l) ==
    /\ At(l, "register")
    /\ IF FindFilterDriverByEvent(call[l].ev) # 0 THEN End(l)
       ELSE Goto(l, "link") /\ UNCHANGED call
    /\ UNCHANGED << pending, hub, left >>

RegisterLinks(l) ==
    /\ At(l, "link")
    /\ nodes' = Append(nodes, [event |-> call[l].ev, next |-> 0, link |-> 0])
    /\ filters' = Append(filters, Len(nodes) + 1)
    /\ Goto(l, "announce")
    /\ UNCHANGED << pending, count, records, locked, seen, call, left >>

RegisterSignals(l) ==
    /\ At(l, "announce")
    /\ Signal(call[l].ev)
    /\ End(l)
    /\ UNCHANGED << hub, left >>

UnregisterFinds(l) ==
    /\ At(l, "unregister")
    /\ LET n == FindFilterDriverByEvent(call[l].ev)
       IN  IF n = 0 THEN End(l)
           ELSE Locals(l, [call[l] EXCEPT !.at = n]) /\ Goto(l, "unlink")
    /\ UNCHANGED << pending, hub, left >>

UnregisterUnlinks(l) ==
    /\ At(l, "unlink")
    /\ LET n == call[l].at
       IN  /\ nodes' = [nodes EXCEPT ![n].link = ForwardLink(n)]
           /\ filters' = Removed(n)
    /\ End(l)
    /\ UNCHANGED << pending, count, records, locked, seen, left >>

HubStep(l) ==
    \/ LogAcquire(l) \/ LogNoMemory(l) \/ LogNumber(l)
    \/ LogInsert(l) \/ LogNext(l) \/ LogSignal(l)
    \/ ReadFails(l) \/ ReadFinds(l) \/ ReadStores(l) \/ ReadGoesOn(l)
    \/ RegisterFinds(l) \/ RegisterLinks(l) \/ RegisterSignals(l)
    \/ UnregisterFinds(l) \/ UnregisterUnlinks(l)

-----------------------------------------------------------------------------
(* What a driver asks of the data hub: to log a record of its own, to      *)
(* register and unregister a filter; and the notify function of a filter.  *)
AskLog(l, class) ==
    /\ CanStart(l) /\ l <= Notify /\ left.logs > 0
    /\ Start(l, "log")
    /\ Locals(l, [NoCall EXCEPT !.item.class = class])
    /\ left' = [left EXCEPT !.logs = @ - 1]
    /\ UNCHANGED << pending, hub >>

AskRegister(l, e) ==
    /\ CanStart(l) /\ l <= Notify /\ left.registers > 0 /\ Owner(e)
    /\ Start(l, "register")
    /\ Locals(l, [NoCall EXCEPT !.ev = e])
    /\ left' = [left EXCEPT !.registers = @ - 1]
    /\ UNCHANGED << pending, hub >>

AskUnregister(l, e) ==
    /\ CanStart(l) /\ l <= Notify /\ left.unregisters > 0 /\ Owner(e)
    /\ Start(l, "unregister")
    /\ Locals(l, [NoCall EXCEPT !.ev = e])
    /\ left' = [left EXCEPT !.unregisters = @ - 1]
    /\ UNCHANGED << pending, hub >>

(* A handler that has read enough unregisters its own filter. *)
HandlerUnregisters(l) ==
    /\ At(l, "got") /\ left.unregisters > 0 /\ Owner(call[l].ev)
    /\ left' = [left EXCEPT !.unregisters = @ - 1]
    /\ Goto(l, "unregister")
    /\ UNCHANGED << pending, hub, call >>

NotifyFilter(e) ==
    /\ e \in pending \cap Filters /\ Below(EventTpl[e])
    /\ pending' = pending \ {e}
    /\ Start(EventTpl[e], "read")
    /\ Locals(EventTpl[e], [NoCall EXCEPT !.ev = e])
    /\ UNCHANGED << hub, left >>
=============================================================================
