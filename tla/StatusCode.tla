----------------------------- MODULE StatusCode -----------------------------
(***************************************************************************)
(* StatusCodeRuntimeDxe: a report is stored in a ring in runtime memory    *)
(* and queued for the data hub; the notify function of mLogDataHubEvent    *)
(* drains the queue into the data hub, whose filters are notified in turn. *)
(* Reports nest: any step may be interrupted by code that reports.  Before *)
(* all this, the PEI driver filled a ring in a hand-off block, which the   *)
(* driver replays when it starts.                                          *)
(***************************************************************************)
EXTENDS DataHub

CONSTANTS
    LogEvent,       \* mLogDataHubEvent
    Batch,          \* the record buffers allocated at a time
    MaxRecords,     \* MaxRecordsNumber of both rings
    Reports,        \* the reports that are made: of which class, and whether with data
    Logs,           \* the classes of the records that other drivers log
    Budgets         \* bounds: what `left` may begin with

VARIABLES
    nest,           \* mStatusCodeNestStatus
    logging,        \* mLogDataHubStatus
    hubUp,          \* the data hub protocol is installed
    located,        \* mDataHubProtocol is set
    phase,          \* "pei", "replay", "boot", "runtime"
    pool,           \* the record buffers and what they hold
    fifo, free,     \* mRecordsFifo, mRecordsBuffer: positions in pool
    ring,           \* the table: records, RecordIndex, NumberOfRecords
    hob,            \* the hand-off block: records, RecordIndex, PacketIndex
    replayed,       \* Index of the replay
    report,         \* per level: what the functions of this driver keep
    reported        \* history: the codes that were accepted, by number

buffers == << pool, fifo, free >>
boot == << hubUp, phase, hob, replayed >>
rest == << nest, logging, located, buffers, ring, boot, report, reported >>
vars == << code, pending, hub, call, left, rest >>

ASSUME StatusCodeAssumption ==
    /\ LogEvent \in Events \ Filters /\ EventTpl[LogEvent] = Callback
    /\ Batch \in Nat \ {0} /\ MaxRecords \in Nat \ {0}
    /\ Logs \subseteq Classes
    /\ Reports \subseteq [class : Classes, data : BOOLEAN]
    /\ Budgets \subseteq [handoff : Nat, reports : Nat, logs : Nat, registers : Nat,
                          unregisters : Nat, failures : Nat]

NoReport == [item |-> NoItem, slot |-> 0, buf |-> 0]
Ring == [slots |-> [j \in 0 .. MaxRecords - 1 |-> NoItem], index |-> 0, number |-> 0]
Hob == [slots |-> Ring.slots, index |-> 0, packet |-> 0]

Init ==
    /\ TplInit /\ HubInit
    /\ left \in Budgets
    /\ nest = 0 /\ logging = 0
    /\ hubUp = FALSE /\ located = FALSE /\ phase = "pei"
    /\ pool = << >> /\ fifo = << >> /\ free = << >>
    /\ ring = Ring /\ hob = Hob /\ replayed = 0
    /\ report = [l \in Tpls |-> NoReport]
    /\ reported = << >>

Note(l, r) == report' = [report EXCEPT ![l] = r]
(* A code that is accepted gets the next number; its data are its own. *)
Numbered(item) ==
    LET n == Len(reported) + 1
    IN  [item EXCEPT !.id = n, !.data = IF @ = 0 THEN 0 ELSE n]

-----------------------------------------------------------------------------
(* Before DXE: MemoryStatusCodeReportWorker of the PEI driver. *)
PeiReport(class) ==
    /\ phase = "pei" /\ ~hubUp /\ left.handoff > 0
    /\ LET item == Numbered([NoItem EXCEPT !.class = class])
           index == hob.index + 1
           wraps == index = MaxRecords
       IN  /\ reported' = Append(reported, item)
           /\ hob' = [slots |-> [hob.slots EXCEPT ![hob.index] = item],
                      index |-> IF wraps THEN 0 ELSE index,
                      packet |-> IF wraps THEN hob.packet + 1 ELSE hob.packet]
    /\ left' = [left EXCEPT !.handoff = @ - 1]
    /\ UNCHANGED << code, pending, hub, call, nest, logging, located, buffers, ring, hubUp, phase,
                    replayed, report >>

(* The data hub driver may be started before this one, or after it. *)
DataHubInstall ==
    /\ CanStart(Application) /\ ~hubUp /\ phase \in {"pei", "boot"}
    /\ hubUp' = TRUE
    /\ UNCHANGED << code, pending, hub, call, left, nest, logging, located, buffers, ring, phase,
                    hob, replayed, report, reported >>

(* StatusCodeRuntimeDxeEntry and InitializationDispatcherWorker. *)
StartDriver ==
    /\ phase = "pei" /\ CanStart(Application)
    /\ phase' = "replay"
    /\ located' = hubUp
    /\ Start(Application, "replay")
    /\ UNCHANGED << pending, hub, call, left, nest, logging, buffers, ring, hubUp, hob, replayed,
                    report, reported >>

MaxRecordNumber == IF hob.packet > 0 THEN MaxRecords ELSE hob.index

(* The workers are called directly, not by way of ReportDispatcher. *)
ReplayRecord(l) ==
    /\ At(l, "replay") /\ replayed < MaxRecordNumber
    /\ replayed' = replayed + 1
    /\ Note(l, [NoReport EXCEPT !.item = hob.slots[replayed]])
    /\ Call(l, "ring", "replay")
    /\ UNCHANGED << pending, hub, call, left, nest, logging, located, buffers, ring, hubUp, phase,
                    hob, reported >>

ReplayEnds(l) ==
    /\ At(l, "replay") /\ replayed >= MaxRecordNumber
    /\ phase' = "boot"
    /\ Back(l)
    /\ UNCHANGED << pending, hub, call, left, nest, logging, located, buffers, ring, hubUp, hob,
                    replayed, report, reported >>

(* After ExitBootServices there are neither events nor the data hub. *)
ExitBootServices ==
    /\ phase = "boot" /\ AtRest
    /\ phase' = "runtime"
    /\ UNCHANGED << code, pending, hub, call, left, nest, logging, located, buffers, ring, hubUp,
                    hob, replayed, report, reported >>

-----------------------------------------------------------------------------
(* ReportDispatcher.  A report that finds another under way is refused. *)
ReportNested(l) ==
    /\ At(l, "report") /\ nest = 1
    /\ Back(l) /\ Note(l, NoReport)
    /\ UNCHANGED << pending, hub, call, left, nest, logging, located, buffers, ring, boot, reported >>

(* A mistake: reports nest. *)
ReportBeginsNested(l) ==
    /\ At(l, "report")
    /\ nest' = 1
    /\ LET item == Numbered(report[l].item)
       IN  /\ reported' = Append(reported, item)
           /\ Note(l, [report[l] EXCEPT !.item = item])
    /\ Goto(l, "ring")
    /\ UNCHANGED << pending, hub, call, left, logging, located, buffers, ring, boot >>

ReportBegins(l) ==
    /\ At(l, "report") /\ nest = 0
    /\ nest' = 1
    /\ LET item == Numbered(report[l].item)
       IN  /\ reported' = Append(reported, item)
           /\ Note(l, [report[l] EXCEPT !.item = item])
    /\ Goto(l, "ring")
    /\ UNCHANGED << pending, hub, call, left, logging, located, buffers, ring, boot >>

(* RtMemoryStatusCodeReportWorker. *)
RingTakes(l) ==
    /\ At(l, "ring")
    /\ Note(l, [report[l] EXCEPT !.slot = ring.index])
    /\ ring' = [ring EXCEPT !.index = @ + 1]
    /\ Goto(l, "save")
    /\ UNCHANGED << pending, hub, call, left, nest, logging, located, buffers, boot, reported >>

(* Mistakes: the index wraps one record late; the number wraps with it. *)
RingSavesLate(l) ==
    /\ At(l, "save")
    /\ ring' = [slots |-> [ring.slots EXCEPT ![report[l].slot] = report[l].item],
                index |-> IF ring.index > MaxRecords THEN 0 ELSE ring.index,
                number |-> ring.number + 1]
    /\ Goto(l, "check")
    /\ UNCHANGED << pending, hub, call, left, nest, logging, located, buffers, boot, report,
                    reported >>
RingSavesRestart(l) ==
    /\ At(l, "save")
    /\ ring' = [slots |-> [ring.slots EXCEPT ![report[l].slot] = report[l].item],
                index |-> IF ring.index = MaxRecords THEN 0 ELSE ring.index,
                number |-> IF ring.index = MaxRecords THEN 0 ELSE ring.number + 1]
    /\ Goto(l, "check")
    /\ UNCHANGED << pending, hub, call, left, nest, logging, located, buffers, boot, report,
                    reported >>

RingSaves(l) ==
    /\ At(l, "save")
    /\ ring' = [slots |-> [ring.slots EXCEPT ![report[l].slot] = report[l].item],
                index |-> IF ring.index = MaxRecords THEN 0 ELSE ring.index,
                number |-> ring.number + 1]
    /\ Goto(l, "check")
    /\ UNCHANGED << pending, hub, call, left, nest, logging, located, buffers, boot, report,
                    reported >>

(* DataHubStatusCodeReportWorker. *)
HubRefuses(l) ==
    /\ At(l, "check")
    /\ logging = 1 \/ phase = "runtime" \/ (~located /\ ~hubUp)
    /\ Goto(l, "done")
    /\ UNCHANGED << pending, hub, call, left, rest >>

HubTakes(l) ==
    /\ At(l, "check")
    /\ logging = 0 /\ phase # "runtime" /\ (located \/ hubUp)
    /\ located' = TRUE
    /\ Goto(l, "acquire")
    /\ UNCHANGED << pending, hub, call, left, nest, logging, buffers, ring, boot, report, reported >>

(* AcquireRecordBuffer: the buffer is in the FIFO before it is filled. *)
(* Mistakes: the buffer stays in the free list; it goes to the front. *)
AcquireKeepsFree(l) ==
    /\ At(l, "acquire") /\ free # << >>
    /\ fifo' = Append(fifo, Head(free))
    /\ Note(l, [report[l] EXCEPT !.buf = Head(free)])
    /\ Goto(l, "fill")
    /\ UNCHANGED << pending, hub, call, left, nest, logging, located, pool, free, ring, boot, reported >>
AcquireInFront(l) ==
    /\ At(l, "acquire") /\ free # << >>
    /\ free' = Tail(free)
    /\ fifo' = << Head(free) >> \o fifo
    /\ Note(l, [report[l] EXCEPT !.buf = Head(free)])
    /\ Goto(l, "fill")
    /\ UNCHANGED << pending, hub, call, left, nest, logging, located, pool, ring, boot, reported >>

Acquire(l) ==
    /\ At(l, "acquire") /\ free # << >>
    /\ free' = Tail(free)
    /\ fifo' = Append(fifo, Head(free))
    /\ Note(l, [report[l] EXCEPT !.buf = Head(free)])
    /\ Goto(l, "fill")
    /\ UNCHANGED << pending, hub, call, left, nest, logging, located, pool, ring, boot, reported >>

(* The level is restored for the allocation, which is not made above Notify. *)
AcquireRefused(l) ==
    /\ At(l, "acquire") /\ free = << >>
    /\ Goto(l, IF l > Notify THEN "done" ELSE "grow")
    /\ UNCHANGED << pending, hub, call, left, rest >>

GrowFails(l) ==
    /\ At(l, "grow") /\ left.failures > 0
    /\ left' = [left EXCEPT !.failures = @ - 1]
    /\ Goto(l, "done")
    /\ UNCHANGED << pending, hub, call, rest >>

Grow(l) ==
    /\ At(l, "grow")
    /\ LET first == Len(pool) + 1
       IN  /\ pool' = pool \o [j \in 1 .. Batch |-> NoItem]
           /\ free' = free \o [j \in 1 .. Batch - 1 |-> first + j]
           /\ fifo' = Append(fifo, first)
           /\ Note(l, [report[l] EXCEPT !.buf = first])
    /\ Goto(l, "fill")
    /\ UNCHANGED << pending, hub, call, left, nest, logging, located, ring, boot, reported >>

(* Without data of its own, a report leaves the data in the buffer alone. *)
Filled(old, item) == [item EXCEPT !.data = IF @ = 0 THEN old.data ELSE @]

Fill(l) ==
    /\ At(l, "fill")
    /\ pool' = [pool EXCEPT ![report[l].buf] = Filled(@, report[l].item)]
    /\ Goto(l, "signal")
    /\ UNCHANGED << pending, hub, call, left, nest, logging, located, fifo, free, ring, boot,
                    report, reported >>

SignalLog(l) ==
    /\ At(l, "signal")
    /\ Signal(LogEvent)
    /\ Goto(l, "done")
    /\ UNCHANGED << hub, call, left, rest >>

(* The end of ReportDispatcher, or of a record's replay. *)
ReportEnds(l) ==
    /\ At(l, "done")
    /\ nest' = IF code[l].ret = "replay" THEN nest ELSE 0
    /\ Back(l) /\ Note(l, NoReport)
    /\ UNCHANGED << pending, hub, call, left, logging, located, buffers, ring, boot, reported >>

-----------------------------------------------------------------------------
(* LogDataHubEventCallBack. *)
NotifyLog ==
    /\ LogEvent \in pending /\ Below(Callback)
    /\ pending' = pending \ {LogEvent}
    /\ Start(Callback, "begin")
    /\ UNCHANGED << hub, call, left, rest >>

DrainBegins(l) ==
    /\ At(l, "begin")
    /\ IF logging = 1 THEN Back(l) ELSE Goto(l, "drain")
    /\ logging' = 1
    /\ UNCHANGED << pending, hub, call, left, nest, located, buffers, ring, boot, report, reported >>

(* RetrieveRecord, and the call of LogData. *)
DrainRetrieves(l) ==
    /\ At(l, "drain") /\ fifo # << >>
    /\ fifo' = Tail(fifo)
    /\ Note(l, [report[l] EXCEPT !.buf = Head(fifo)])
    /\ Locals(l, [NoCall EXCEPT !.item = pool[Head(fifo)], !.status = TRUE])
    /\ Call(l, "log", "release")
    /\ UNCHANGED << pending, hub, left, nest, logging, located, pool, free, ring, boot, reported >>

(* A mistake: one record is logged per notification. *)
DrainReleasesOne(l) ==
    /\ At(l, "release")
    /\ free' = Append(free, report[l].buf)
    /\ Note(l, NoReport)
    /\ Goto(l, "end")
    /\ UNCHANGED << pending, hub, call, left, nest, logging, located, pool, fifo, ring, boot,
                    reported >>

(* ReleaseRecord. *)
DrainReleases(l) ==
    /\ At(l, "release")
    /\ free' = Append(free, report[l].buf)
    /\ Note(l, NoReport)
    /\ Goto(l, "drain")
    /\ UNCHANGED << pending, hub, call, left, nest, logging, located, pool, fifo, ring, boot,
                    reported >>

DrainEmpty(l) ==
    /\ At(l, "drain") /\ fifo = << >>
    /\ Goto(l, "end")
    /\ UNCHANGED << pending, hub, call, left, rest >>

DrainEnds(l) ==
    /\ At(l, "end")
    /\ logging' = 0
    /\ Back(l)
    /\ UNCHANGED << pending, hub, call, left, nest, located, buffers, ring, boot, report, reported >>

-----------------------------------------------------------------------------
(* A report comes from code at any level, or from the handler of a filter  *)
(* between two records; at runtime, from the operating system.             *)
Item(r) == [NoItem EXCEPT !.class = r.class, !.data = IF r.data THEN 1 ELSE 0]

AskReport(l, r) ==
    /\ CanStart(l) /\ left.reports > 0
    /\ phase = "boot" \/ (phase = "runtime" /\ l = Application)
    /\ Start(l, "report")
    /\ Note(l, [NoReport EXCEPT !.item = Item(r)])
    /\ left' = [left EXCEPT !.reports = @ - 1]
    /\ UNCHANGED << pending, hub, call, nest, logging, located, buffers, ring, boot, reported >>

HandlerReports(l, r) ==
    /\ At(l, "got") /\ left.reports > 0 /\ phase = "boot"
    /\ Call(l, "report", "got")
    /\ Note(l, [NoReport EXCEPT !.item = Item(r)])
    /\ left' = [left EXCEPT !.reports = @ - 1]
    /\ UNCHANGED << pending, hub, call, nest, logging, located, buffers, ring, boot, reported >>

HubAsked ==
    /\ hubUp /\ phase # "runtime"
    /\ \E l \in Tpls :
          \/ \E class \in Logs : AskLog(l, class)
          \/ \E e \in Filters : AskRegister(l, e) \/ AskUnregister(l, e)
          \/ HandlerUnregisters(l)
    /\ UNCHANGED rest

Asked ==
    \/ HubAsked
    \/ \E l \in Tpls, r \in Reports : AskReport(l, r) \/ HandlerReports(l, r)

ReportStep(l) ==
    \/ ReportNested(l) \/ ReportBegins(l) \/ RingTakes(l) \/ RingSaves(l)
    \/ HubRefuses(l) \/ HubTakes(l) \/ Acquire(l) \/ AcquireRefused(l) \/ GrowFails(l) \/ Grow(l)
    \/ Fill(l) \/ SignalLog(l) \/ ReportEnds(l)
DrainStep(l) ==
    \/ DrainBegins(l) \/ DrainRetrieves(l) \/ DrainReleases(l)
    \/ DrainEmpty(l) \/ DrainEnds(l)
Booting ==
    \/ (\E class \in Classes : PeiReport(class)) \/ DataHubInstall \/ StartDriver
    \/ ExitBootServices
Notified == NotifyLog \/ (\E e \in Filters : NotifyFilter(e) /\ UNCHANGED rest)
(* Code that was entered goes on, and events are notified. *)
Work ==
    \/ Notified
    \/ \E l \in Tpls :
          \/ ReplayRecord(l) \/ ReplayEnds(l) \/ ReportStep(l) \/ DrainStep(l)
          \/ HubStep(l) /\ UNCHANGED rest

Next == Booting \/ Asked \/ Work
Spec == Init /\ [][Next]_vars
FairSpec == Spec /\ WF_vars(Work)
-----------------------------------------------------------------------------
Items == [id : Nat, class : Classes \cup {NoClass}, data : Nat]
PCs ==
    {"idle", "log", "number", "insert", "next", "walk", "read", "store", "got", "register",
     "link", "announce", "unregister", "unlink", "replay", "report", "ring", "save", "check",
     "acquire", "grow", "fill", "signal", "done", "begin", "drain", "release", "end"}
CodeType == [pc : PCs, ret : {"idle", "got", "replay", "release"}, tpl : Tpls]
CallType == [item : Items, status : BOOLEAN, mtc : Nat, at : Nat, ev : Events \cup {Nil},
             rec : Nat, again : BOOLEAN]
SlotsType == [0 .. MaxRecords - 1 -> Items]

(* The variables keep their types: the lists hold numbers of buffers and   *)
(* of nodes that were allocated, the indexes stay inside the rings.        *)
TypeOK ==
    /\ code \in [Tpls -> CodeType] /\ pending \subseteq Events
    /\ count \in Nat /\ locked \in BOOLEAN
    /\ records \in Seq([mtc : Nat, status : BOOLEAN, item : Items])
    /\ nodes \in Seq([event : Filters, next : Nat, link : Nat])
    /\ filters \in Seq(DOMAIN nodes)
    /\ call \in [Tpls -> CallType] /\ seen \in [Filters -> SUBSET Nat]
    /\ left \in [handoff : Nat, reports : Nat, logs : Nat, registers : Nat, unregisters : Nat,
                failures : Nat]
    /\ nest \in 0 .. 1 /\ logging \in 0 .. 1 /\ hubUp \in BOOLEAN /\ located \in BOOLEAN
    /\ phase \in {"pei", "replay", "boot", "runtime"}
    /\ pool \in Seq(Items) /\ fifo \in Seq(DOMAIN pool) /\ free \in Seq(DOMAIN pool)
    /\ ring \in [slots : SlotsType, index : 0 .. MaxRecords, number : Nat]
    /\ hob \in [slots : SlotsType, index : 0 .. MaxRecords - 1, packet : Nat]
    /\ replayed \in 0 .. MaxRecords
    /\ report \in [Tpls -> [item : Items, slot : 0 .. MaxRecords - 1, buf : Nat]]
    /\ reported \in Seq(Items)

-----------------------------------------------------------------------------
(* A record of a status code in the data hub holds what was reported: it   *)
(* was not taken off the queue before it was filled, nor was its buffer    *)
(* given to another report meanwhile.                                      *)
LoggedAsReported ==
    \A j \in DOMAIN records : records[j].status =>
        LET item == records[j].item
        IN  /\ item.id \in DOMAIN reported
            /\ item.class = reported[item.id].class
            /\ reported[item.id].data # 0 => item.data = item.id

(* Every record buffer is in the FIFO, in the free list or with the code   *)
(* that drains the FIFO, and in one of them only once.                     *)
HeldBuffers == IF code[Callback].ret = "release" \/ code[Callback].pc = "release"
               THEN << report[Callback].buf >> ELSE << >>
Places == fifo \o free \o HeldBuffers
BuffersOwned ==
    /\ {Places[j] : j \in DOMAIN Places} = DOMAIN pool
    /\ Len(Places) = Len(pool)

(* A queued record is not forgotten: the event is pending, the notify      *)
(* function runs, or the report that queued the record is about to signal. *)
Draining == \/ code[Callback].pc \in {"begin", "drain", "release"}
            \/ code[Callback].ret = "release"
NothingStranded ==
    fifo # << >> =>
        LogEvent \in pending \/ Draining \/ \E l \in Tpls : code[l].pc \in {"fill", "signal"}

(* The log is in ascending order of its monotonic counts, though logging   *)
(* code interrupts logging code.                                           *)
CountsAscend ==
    \A j, k \in DOMAIN records : j < k => records[j].mtc < records[k].mtc

(* The lock of the data hub is never found held: no record of a status     *)
(* code is lost because a log was interrupted by another.                  *)
LockNeverHeld ==
    \A l \in Tpls : Runs(l) /\ code[l].pc \in {"log", "link", "unlink"} => ~locked

(* A reader of the table in runtime memory that follows the comment there  *)
(* finds the last records, all that fit, in the order of the reports.      *)
ReadBack(r) ==
    IF r.number < MaxRecords
    THEN [j \in 1 .. r.number |-> r.slots[j - 1]]
    ELSE [j \in 1 .. MaxRecords |-> r.slots[(r.index + j - 1) % MaxRecords]]
InRing == \E l \in Tpls : code[l].pc \in {"ring", "save"}
RingKeepsLast ==
    phase \in {"boot", "runtime"} /\ ~InRing =>
        LET back == ReadBack(ring)
        IN  /\ \A j \in 1 .. Len(back) - 1 : back[j].id + 1 = back[j + 1].id
            /\ reported # << >> => back # << >> /\ back[Len(back)] = reported[Len(reported)]

(* A filter is returned the records of its classes without a gap, though   *)
(* records are logged while it reads.                                      *)
NoGaps ==
    \A e \in Filters : \A j, k \in DOMAIN records :
        /\ j < k
        /\ {records[j].item.class, records[k].item.class} \subseteq ClassesOf[e]
        /\ records[k].mtc \in seen[e]
        => records[j].mtc \in seen[e]

(* When all is quiet, a registered filter was returned every record it is  *)
(* interested in: no signal was lost, though filters come and go while the *)
(* list is walked, and events that are pending are signaled again.         *)
NobodyMisses ==
    AtRest => \A n \in Listed : \A j \in DOMAIN records :
        Interested(n, records[j]) => records[j].mtc \in seen[nodes[n].event]

-----------------------------------------------------------------------------
(* The codes on their way to the data hub, as a conduit: the one the       *)
(* notify function took off the queue and has not logged, then the queue.  *)
(* The record that is being filled counts as what its report puts in it.   *)
InHand == IF code[Callback].ret = "release" /\ code[Callback].pc \in {"log", "number", "insert"}
          THEN << call[Callback].item >> ELSE << >>
Content(b) ==
    IF \E l \in Tpls : code[l].pc = "fill" /\ report[l].buf = b
    THEN report[CHOOSE l \in Tpls : code[l].pc = "fill" /\ report[l].buf = b].item
    ELSE pool[b]
CodeOf(item) == [id |-> item.id, class |-> item.class]
Queued == InHand \o [j \in DOMAIN fifo |-> Content(fifo[j])]
(* The records of status codes among those of s, in their order.           *)
StatusOf(s) ==
    LET Upto[n \in 0 .. Len(s)] ==
            IF n = 0 THEN << >>
            ELSE IF s[n].status THEN Append(Upto[n - 1], s[n]) ELSE Upto[n - 1]
    IN  Upto[Len(s)]
StatusRecords == StatusOf(records)

Pipe == INSTANCE Conduit WITH
    Codes <- [id : Nat, class : Classes],
    queue <- [j \in DOMAIN Queued |-> CodeOf(Queued[j])],
    delivered <- [j \in DOMAIN StatusRecords |-> CodeOf(StatusRecords[j].item)]

(* The status code driver is a conduit of codes into the data hub: in      *)
(* order, at most once, none lost but the oldest for lack of memory.       *)
InOrderOnce == Pipe!Spec

(* What is queued is drained, and every call and notification ends. *)
ComesToRest == fifo # << >> ~> fifo = << >> /\ AtRest

-----------------------------------------------------------------------------
(* A record in the data hub carries the data of its own report or none     *)
(* (not so: a reused buffer keeps the data of its last report).            *)
CarriesOwnData ==
    \A j \in DOMAIN records : records[j].item.data \in {0, records[j].item.id}

(* A filter is not returned a record it was returned before (not so: when  *)
(* there is nothing new it is returned the last one again).                *)
ReadOnce ==
    [][\A l \in Tpls : code[l].pc = "store" /\ code'[l].pc = "got" =>
           call'[l].rec \notin seen[call[l].ev]]_vars
=============================================================================
