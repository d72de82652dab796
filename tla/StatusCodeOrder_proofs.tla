----------------------- MODULE StatusCodeOrder_proofs -----------------------
(***************************************************************************)
(* What comes of the codes.  LoggedOK: what the data hub holds was         *)
(* reported; an item is followed from the report, through the buffer of    *)
(* the queue and the call of DataHubLogData, to the record of the data     *)
(* hub.                                                                    *)
(* Then their order: that the status code driver implements the conduit of *)
(* module Conduit on their way into the data hub, and that the ring in     *)
(* runtime memory holds the last of them in their order.  First lemmas     *)
(* about sequences: what StatusOf does to a log that grows, by induction   *)
(* over its length, and that no buffer is twice on the queue.  Then what a *)
(* step does to the line of waiting codes and to the log (StepFlows); then *)
(* OrderOK, the inductive invariant by which what joins the line is newer  *)
(* than what is in it; then RingOK, that of the ring.                      *)
(***************************************************************************)
EXTENDS StatusCode_proofs, FiniteSetTheorems

(* An item is a code that was accepted; or it has its number and class,    *)
(* and its data if it has any.                                             *)
Same(item, codes) == item.id \in DOMAIN codes /\ item = codes[item.id]
Good(item, codes) ==
    /\ item.id \in DOMAIN codes
    /\ item.class = codes[item.id].class
    /\ codes[item.id].data # 0 => item.data = item.id

(* The accepted codes carry their numbers.                                 *)
NumbersOK == \A n \in DOMAIN reported : reported[n].id = n /\ reported[n].data \in {0, n}
(* So do the codes the PEI phase hands off.                                *)
HandedOK == \A j \in 0 .. MaxRecordNumber - 1 : Same(hob.slots[j], reported)
(* What a report at work holds was accepted as it stands.                  *)
ReportsOK == \A l \in Tpls : Reporting(l) => Same(report[l].item, reported)
(* The report that took buffer b has yet to fill it.                       *)
Filling(b) == \E l \in Tpls : code[l].pc = "fill" /\ report[l].buf = b
(* A buffer on the queue is filled from an accepted code, or about to be.  *)
QueueOK == \A j \in DOMAIN fifo : Good(pool[fifo[j]], reported) \/ Filling(fifo[j])
(* What the drain passes to DataHubLogData, and ...                        *)
LocalsOK == \A l \in Tpls : call[l].status => Good(call[l].item, reported)
(* ... what the data hub then holds, was accepted.                         *)
LoggedOK == \A j \in DOMAIN records : records[j].status => Good(records[j].item, reported)

(* The inductive invariant: an item is followed from the report to the     *)
(* data hub.                                                               *)
ItemsOK == NumbersOK /\ HandedOK /\ ReportsOK /\ QueueOK /\ LocalsOK /\ LoggedOK

(* The types of the lists and of what they hold.                           *)
LEMMA SeqTypes ==
    ASSUME TypeInv
    PROVE  /\ reported \in Seq(Items) /\ Len(reported) \in Nat /\ DOMAIN reported = 1 .. Len(reported)
           /\ pool \in Seq(Items) /\ DOMAIN pool = 1 .. Len(pool) /\ Len(pool) \in Nat
           /\ fifo \in Seq(DOMAIN pool) /\ DOMAIN fifo = 1 .. Len(fifo) /\ Len(fifo) \in Nat
           /\ \A j \in DOMAIN fifo : fifo[j] \in DOMAIN pool
           /\ report \in [Tpls -> ReportType] /\ \A l \in Tpls : report[l].item \in Items
<1>1. reported \in Seq(Items) /\ pool \in Seq(Items) /\ fifo \in Seq(DOMAIN pool)
      /\ report \in [Tpls -> ReportType]
  BY DEF TypeInv, StoreOK, StoreType
<1>2. \A l \in Tpls : report[l] \in ReportType
  BY <1>1
<1>3. \A l \in Tpls : report[l].item \in Items
  BY <1>2 DEF ReportType
<1> QED BY <1>1, <1>3

(* What was accepted stays as it was when more is accepted. *)
LEMMA MoreAccepted ==
    ASSUME TypeInv, NumbersOK, NEW x \in Items, reported' = Append(reported, x),
           x.id = Len(reported) + 1, x.data \in {0, x.id}
    PROVE  /\ NumbersOK' /\ Same(x, reported')
           /\ \A item : Same(item, reported) => Same(item, reported')
           /\ \A item : Good(item, reported) => Good(item, reported')
<1>1. /\ DOMAIN reported' = 1 .. Len(reported) + 1 /\ reported'[Len(reported) + 1] = x
      /\ DOMAIN reported = 1 .. Len(reported) /\ Len(reported) \in Nat
      /\ \A n \in DOMAIN reported : n \in DOMAIN reported' /\ reported'[n] = reported[n]
  BY SeqTypes
<1>2. NumbersOK'
  BY <1>1 DEF NumbersOK
<1>3. Same(x, reported')
  BY <1>1 DEF Same
<1> QED BY <1>1, <1>2, <1>3 DEF Same, Good

(* A code that was accepted is good to log, whatever buffer it is put in. *)
LEMMA FilledGood ==
    ASSUME NumbersOK, NEW item \in Items, NEW old \in Items, Same(item, reported)
    PROVE  Good(Filled(old, item), reported)
<1>1. /\ Filled(old, item).id = item.id /\ Filled(old, item).class = item.class
      /\ item.data # 0 => Filled(old, item).data = item.data
  BY FilledType
<1>2. item.data \in {0, item.id} /\ reported[item.id] = item /\ item.id \in DOMAIN reported
  BY DEF NumbersOK, Same
<1> QED BY <1>1, <1>2 DEF Good

-----------------------------------------------------------------------------

(* The data hub inserts what it was called with.                           *)
LEMMA ItemsHub ==
    ASSUME TypeInv, ItemsOK, UNCHANGED rest, HubAction
    PROVE  ItemsOK'
<1>1. UNCHANGED << pool, fifo, hob, report, reported >>
  BY DEF rest, buffers, boot
<1>2. RestKept
  BY HubActionMoves DEF TypeInv
<1>3. PICK l \in Tpls : HubEffect(l)
  BY HubEffects
<1>4. NumbersOK' /\ HandedOK'
  BY <1>1 DEF ItemsOK, NumbersOK, HandedOK, MaxRecordNumber
<1>5. ReportsOK' /\ QueueOK'
  <2>1. \A k \in Tpls : (code'[k].pc = "fill" <=> code[k].pc = "fill")
                        /\ (Reporting(k)' => Reporting(k))
    BY <1>2 DEF RestKept, ReportPCs, WorkPCs, Reporting
  <2> QED BY <1>1, <2>1 DEF ItemsOK, ReportsOK, QueueOK, Filling
<1>6. LocalsOK'
  BY <1>1, <1>3 DEF HubEffect, ItemsOK, LocalsOK
<1>7. LoggedOK'
  <2>1. CASE records' = records
    BY <1>1, <2>1 DEF ItemsOK, LoggedOK
  <2>2. CASE LogInsert(l)
    <3>1. LogRecord(l).status = call[l].status /\ LogRecord(l).item = call[l].item
      BY DEF LogRecord
    <3>2. DOMAIN records = 1 .. Len(records) /\ Len(records) \in Nat
      BY RecordsNat
    <3> QED BY <1>1, <2>2, <3>1, <3>2, InsertAppends DEF ItemsOK, LoggedOK, LocalsOK
  <2>3. CASE LogNumber(l)
    BY <2>1, <2>3 DEF LogNumber
  <2> QED BY <1>3, <2>1, <2>2, <2>3 DEF HubEffect
<1> QED BY <1>4, <1>5, <1>6, <1>7 DEF ItemsOK

(* Steps outside the data hub. *)
LEMMA ItemsElsewhere ==
    ASSUME TypeInv, ItemsOK, UNCHANGED << records, call >>, NumbersOK', HandedOK',
           \A item : Same(item, reported) => Same(item, reported'),
           \A item : Good(item, reported) => Good(item, reported'),
           NEW l \in Tpls, \A k \in Tpls : k # l => code'[k] = code[k] /\ report'[k] =
              report[k],
           Reporting(l)' => Same(report'[l].item, reported'),
           QueueOK'
    PROVE  ItemsOK'
<1>1. ReportsOK'
  BY DEF ItemsOK, ReportsOK, Reporting
<1>2. LocalsOK' /\ LoggedOK'
  BY DEF ItemsOK, LocalsOK, LoggedOK
<1> QED BY <1>1, <1>2 DEF ItemsOK

(* Steps that leave the queue and the buffers alone.                       *)
LEMMA QueueKept ==
    ASSUME TypeInv, ItemsOK, UNCHANGED << fifo, pool >>,
           \A item : Good(item, reported) => Good(item, reported'),
           \A k \in Tpls : code[k].pc = "fill" => code'[k].pc = "fill" /\ report'[k] = report[k]
    PROVE  QueueOK'
  BY DEF ItemsOK, QueueOK, Filling

-----------------------------------------------------------------------------
(* The steps of reports. *)
LEMMA ItemsBegin ==
    ASSUME TypeInv, ItemsOK, NEW l \in Tpls, ReportBegins(l)
    PROVE  ItemsOK'
<1> DEFINE item == Numbered(report[l].item)
<1>1. item \in Items /\ item.id = Len(reported) + 1 /\ item.data \in {0, item.id}
  BY SeqTypes, NumberedType DEF TypeInv, StoreOK
<1>2. /\ reported' = Append(reported, item) /\ report' = [report EXCEPT ![l].item = item]
      /\ Goto(l, "ring") /\ code[l].pc = "report" /\ UNCHANGED << hub, call, fifo, pool, hob >>
  BY DEF ReportBegins, At, Note, buffers, boot
<1> HIDE DEF item
<1>3. /\ NumbersOK' /\ Same(item, reported')
      /\ \A x : Same(x, reported) => Same(x, reported')
      /\ \A x : Good(x, reported) => Good(x, reported')
  BY <1>1, <1>2, MoreAccepted DEF ItemsOK
<1>4. HandedOK'
  BY <1>2, <1>3 DEF ItemsOK, HandedOK, MaxRecordNumber
<1>5. code'[l].pc = "ring" /\ \A k \in Tpls : k # l => code'[k] = code[k]
  BY <1>2, CodeEffect
<1>6. report'[l].item = item /\ \A k \in Tpls : k # l => report'[k] = report[k]
  BY <1>2, SeqTypes DEF ReportType
<1>7. QueueOK'
  BY <1>2, <1>3, <1>5, <1>6, QueueKept
<1> QED BY <1>2, <1>3, <1>4, <1>5, <1>6, <1>7, ItemsElsewhere DEF hub

(* A record of the PEI phase is reported again under the number it has.    *)
LEMMA ItemsReplay ==
    ASSUME TypeInv, ItemsOK, NEW l \in Tpls, ReplayRecord(l)
    PROVE  ItemsOK'
<1> DEFINE item == hob.slots[replayed]
           r == [NoReport EXCEPT !.item = item]
<1>1. replayed \in 0 .. MaxRecordNumber - 1
  <2>1. replayed \in Nat /\ MaxRecordNumber \in Nat
    BY StatusCodeAssumption DEF TypeInv, StoreOK, StoreType, HobType, MaxRecordNumber
  <2> QED BY <2>1 DEF ReplayRecord
<1>2. Same(item, reported)
  BY <1>1 DEF ItemsOK, HandedOK
<1>3. /\ Note(l, r) /\ Call(l, "ring", "replay") /\ code[l].pc = "replay"
      /\ UNCHANGED << hub, call, fifo, pool, hob, reported >>
  BY DEF ReplayRecord, At, buffers
<1>4. r.item = item
  BY DEF NoReport
<1> HIDE DEF item, r
<1>5. report'[l] = r /\ \A k \in Tpls : k # l => report'[k] = report[k]
  BY <1>3, SeqTypes DEF Note
<1>6. code'[l].pc = "ring" /\ \A k \in Tpls : k # l => code'[k] = code[k]
  BY <1>3, CallTurns DEF Turns, TypeInv, Levels, PCs, Rets
<1>7. QueueOK'
  BY <1>3, <1>5, <1>6, QueueKept
<1>8. NumbersOK' /\ HandedOK'
  BY <1>3 DEF ItemsOK, NumbersOK, HandedOK, MaxRecordNumber
<1> QED BY <1>2, <1>3, <1>4, <1>5, <1>6, <1>7, <1>8, ItemsElsewhere DEF hub

(* A buffer joins the queue; the report at level l is about to fill it. *)
LEMMA ItemsAcquire ==
    ASSUME TypeInv, ItemsOK, NEW l \in Tpls, NEW b,
           fifo' = Append(fifo, b), Note(l, [report[l] EXCEPT !.buf = b]),
           \A j \in DOMAIN pool : pool'[j] = pool[j],
           code[l].pc \in WorkPCs \ {"fill"}, Goto(l, "fill"),
           UNCHANGED << records, call, hob, reported >>
    PROVE  ItemsOK'
<1>1. code'[l].pc = "fill" /\ \A k \in Tpls : k # l => code'[k] = code[k]
  BY CodeEffect
<1>2. /\ report'[l].buf = b /\ report'[l].item = report[l].item
      /\ \A k \in Tpls : k # l => report'[k] = report[k]
  BY SeqTypes DEF Note, ReportType
<1>3. QueueOK'
  <2> SUFFICES ASSUME NEW j \in DOMAIN fifo'
               PROVE  \/ Good(pool'[fifo'[j]], reported')
                      \/ \E k \in Tpls : code'[k].pc = "fill" /\ report'[k].buf = fifo'[j]
    BY DEF QueueOK, Filling
  <2>1. /\ DOMAIN fifo' = 1 .. Len(fifo) + 1 /\ fifo'[Len(fifo) + 1] = b
        /\ \A i \in DOMAIN fifo : fifo'[i] = fifo[i]
    BY SeqTypes
  <2>2. CASE j \in DOMAIN fifo
    <3>1. fifo'[j] = fifo[j] /\ pool'[fifo[j]] = pool[fifo[j]]
      BY <2>1, <2>2, SeqTypes
    <3>2. \A k \in Tpls : code[k].pc = "fill" => code'[k].pc = "fill" /\ report'[k] = report[k]
      BY <1>1, <1>2
    <3>3. CASE Good(pool[fifo[j]], reported)
      BY <3>1, <3>3
    <3>4. CASE \E k \in Tpls : code[k].pc = "fill" /\ report[k].buf = fifo[j]
      BY <3>1, <3>2, <3>4
    <3> QED BY <2>2, <3>3, <3>4 DEF ItemsOK, QueueOK, Filling
  <2>3. CASE j = Len(fifo) + 1
    <3>1. code'[l].pc = "fill" /\ report'[l].buf = fifo'[j]
      BY <1>1, <1>2, <2>1, <2>3
    <3> QED BY <3>1
  <2> QED BY <2>1, <2>2, <2>3, SeqTypes
<1>4. NumbersOK' /\ HandedOK'
  BY DEF ItemsOK, NumbersOK, HandedOK, MaxRecordNumber
<1>5. Same(report'[l].item, reported')
  BY <1>2 DEF ItemsOK, ReportsOK, Reporting
<1> QED BY <1>1, <1>2, <1>3, <1>4, <1>5, ItemsElsewhere

(* The buffer of a report is filled from the report.                       *)
LEMMA ItemsFill ==
    ASSUME TypeInv, ItemsOK, NEW l \in Tpls, Fill(l)
    PROVE  ItemsOK'
<1> DEFINE b == report[l].buf
           g == Filled(pool[b], report[l].item)
<1>1. /\ pool' = [pool EXCEPT ![b] = g] /\ Goto(l, "signal") /\ code[l].pc = "fill"
      /\ UNCHANGED << hub, call, fifo, hob, report, reported >>
  BY DEF Fill, At, boot
<1>2. Same(report[l].item, reported)
  BY <1>1 DEF ItemsOK, ReportsOK, Reporting, WorkPCs
<1>3. b \in DOMAIN pool => Good(g, reported)
  BY <1>2, SeqTypes, FilledGood DEF ItemsOK
<1> HIDE DEF g
<1>4. code'[l].pc = "signal" /\ \A k \in Tpls : k # l => code'[k] = code[k]
  BY <1>1, CodeEffect
<1>5. QueueOK'
  <2> SUFFICES ASSUME NEW j \in DOMAIN fifo
               PROVE  Good(pool'[fifo[j]], reported) \/ Filling(fifo[j])'
    BY <1>1 DEF QueueOK, Filling
  <2>1. fifo[j] \in DOMAIN pool
    BY SeqTypes
  <2>2. CASE fifo[j] = b
    BY <1>1, <1>3, <2>1, <2>2, SeqTypes
  <2>3. CASE fifo[j] # b
    <3>1. pool'[fifo[j]] = pool[fifo[j]]
      BY <1>1, <2>1, <2>3, SeqTypes
    <3>2. Filling(fifo[j]) => Filling(fifo[j])'
      BY <1>1, <1>4, <2>3 DEF Filling
    <3> QED BY <3>1, <3>2 DEF ItemsOK, QueueOK
  <2> QED BY <2>2, <2>3
<1>6. NumbersOK' /\ HandedOK'
  BY <1>1 DEF ItemsOK, NumbersOK, HandedOK, MaxRecordNumber
<1> QED BY <1>1, <1>2, <1>4, <1>5, <1>6, ItemsElsewhere DEF hub

(* The other steps leave the queue, and the item of the report, alone. *)
LEMMA ItemsAside ==
    ASSUME TypeInv, ItemsOK, NEW l \in Tpls, NEW q, Aside(l, q)
    PROVE  ItemsOK'
<1>1. \A k \in Tpls : k # l => code'[k] = code[k] /\ report'[k] = report[k]
  BY AsideKeeps
<1>2. CASE ReportBegins(l) \/ ReplayRecord(l) \/ Fill(l)
  BY <1>2, ItemsBegin, ItemsReplay, ItemsFill
<1>3. CASE Acquire(l)
  <2>1. /\ fifo' = Append(fifo, Head(free)) /\ Note(l, [report[l] EXCEPT !.buf = Head(free)])
        /\ pool' = pool /\ code[l].pc \in WorkPCs \ {"fill"} /\ Goto(l, "fill")
        /\ UNCHANGED << records, call, hob, reported >>
    BY <1>3 DEF Acquire, At, WorkPCs, hub, boot
  <2> QED BY <2>1, ItemsAcquire
<1>4. CASE Grow(l)
  <2> DEFINE first == Len(pool) + 1
             fresh == [j \in 1 .. Batch |-> NoItem]
  <2>1. /\ fifo' = Append(fifo, first) /\ Note(l, [report[l] EXCEPT !.buf = first])
        /\ pool' = pool \o fresh /\ code[l].pc \in WorkPCs \ {"fill"} /\ Goto(l, "fill")
        /\ UNCHANGED << records, call, hob, reported >>
    BY <1>4 DEF Grow, At, WorkPCs, hub, boot
  <2>2. fresh \in Seq(Items) /\ Len(fresh) \in Nat
    BY NoCallType, StatusCodeAssumption
  <2> HIDE DEF fresh, first
  <2>3. \A i \in 1 .. Len(pool) + Len(fresh) :
           (pool \o fresh)[i] = IF i <= Len(pool) THEN pool[i] ELSE fresh[i - Len(pool)]
    BY <2>2, SeqTypes, ConcatProperties
  <2>4. \A j \in DOMAIN pool : pool'[j] = pool[j]
    BY <2>1, <2>2, <2>3, SeqTypes
  <2> QED BY <2>1, <2>4, ItemsAcquire
<1>5. CASE ~ReportBegins(l) /\ ~ReplayRecord(l) /\ ~Fill(l) /\ ~Acquire(l) /\ ~Grow(l)
  <2>1. UNCHANGED << hub, call, pool, fifo, hob, reported >> /\ code[l].pc # "fill"
    <3>1. CASE ReportStep(l) \/ ReplayEnds(l)
      BY <1>5, <3>1 DEF ReportStep, ReportNested, RingTakes, RingSaves, HubRefuses, HubTakes,
         AcquireRefused, GrowFails, SignalLog, ReportEnds, ReplayEnds, At, rest, buffers, boot
    <3>2. CASE AskReport(l, q) \/ HandlerReports(l, q)
      BY <3>2 DEF AskReport, HandlerReports, At, CanStart, Below, Active, Tpls, buffers, boot
    <3> QED BY <1>5, <3>1, <3>2 DEF Aside
  <2>2. Reporting(l)' => Reporting(l) /\ report'[l].item = report[l].item
    <3>1. CASE RingTakes(l)
      <4>1. Note(l, [report[l] EXCEPT !.slot = ring.index]) /\ code[l].pc = "ring"
        BY <3>1 DEF RingTakes, At
      <4> QED BY <4>1, SeqTypes DEF Note, ReportType, Reporting, WorkPCs
    <3>2. CASE RingSaves(l) \/ HubRefuses(l) \/ HubTakes(l) \/ AcquireRefused(l) \/ GrowFails(l) \/ SignalLog(l)
      <4>1. report' = report /\ code[l].pc \in WorkPCs
        BY <3>2 DEF RingSaves, HubRefuses, HubTakes, AcquireRefused, GrowFails, SignalLog,
           At, rest, WorkPCs
      <4> QED BY <4>1 DEF Reporting
    <3>3. CASE ReportNested(l) \/ ReportEnds(l) \/ ReplayEnds(l)
      <4>1. code'[l].pc = code[l].ret
        BY <3>3, CodeEffect DEF ReportNested, ReportEnds, ReplayEnds
      <4>2. code[l].ret \notin WorkPCs
        BY DEF TypeInv, Levels, Frames, CodeType, WorkPCs
      <4> QED BY <4>1, <4>2 DEF Reporting
    <3>4. CASE AskReport(l, q)
      <4>1. code'[l].pc = "report"
        BY <3>4, CodeEffect DEF AskReport
      <4> QED BY <4>1 DEF Reporting, WorkPCs
    <3>5. CASE HandlerReports(l, q)
      <4>1. code'[l].pc = "report"
        BY <3>5, CallTurns DEF HandlerReports, Turns, TypeInv, Levels, PCs, Rets
      <4> QED BY <4>1 DEF Reporting, WorkPCs
    <3> QED BY <1>5, <3>1, <3>2, <3>3, <3>4, <3>5 DEF Aside, ReportStep
  <2>3. QueueOK'
    BY <1>1, <2>1, QueueKept
  <2>4. NumbersOK' /\ HandedOK'
    BY <2>1 DEF ItemsOK, NumbersOK, HandedOK, MaxRecordNumber
  <2>5. Reporting(l)' => Same(report'[l].item, reported')
    BY <2>1, <2>2 DEF ItemsOK, ReportsOK
  <2> QED BY <1>1, <2>1, <2>3, <2>4, <2>5, ItemsElsewhere DEF hub
<1> QED BY <1>2, <1>3, <1>4, <1>5

-----------------------------------------------------------------------------
(* The notify function of the log takes a record that was filled: code     *)
(* above it has ended, and code below it was not filling one.              *)
LEMMA ItemsRetrieve ==
    ASSUME TypeInv, ItemsOK, NEW l \in Tpls, DrainRetrieves(l)
    PROVE  ItemsOK'
<1> DEFINE c == [NoCall EXCEPT !.item = pool[Head(fifo)], !.status = TRUE]
<1>1. /\ l = Callback /\ code[l].ret = "idle" /\ Runs(l) /\ code'[l].pc = "log"
      /\ \A k \in Tpls : k # l => code'[k] = code[k]
  BY DrainTurns DEF DrainStep
<1>2. /\ fifo # << >> /\ fifo' = Tail(fifo) /\ code[l].pc = "drain" /\ Locals(l, c)
      /\ UNCHANGED << hub, pool, hob, reported >>
  BY DEF DrainRetrieves, At, boot
<1>3. \A k \in Tpls : code[k].pc # "fill"
  <2>1. code[Application].pc # "fill"
    BY <1>1, <1>2 DEF TypeInv, Levels, FillOK, Drains
  <2>2. \A k \in Tpls : k > l => code[k].pc = "idle"
    BY <1>1 DEF Runs, Active
  <2> QED BY <1>1, <1>2, <2>1, <2>2 DEF Tpls, Application, Callback, High
<1>4. \A j \in DOMAIN fifo : Good(pool[fifo[j]], reported)
  BY <1>3 DEF ItemsOK, QueueOK, Filling
<1>5. Head(fifo) = fifo[1] /\ 1 \in DOMAIN fifo
      /\ \A j \in DOMAIN fifo' : j + 1 \in DOMAIN fifo /\ fifo'[j] = fifo[j + 1]
  <2>1. Len(Tail(fifo)) = Len(fifo) - 1 /\ \A i \in 1 .. Len(Tail(fifo)) : Tail(fifo)[i] = fifo[i + 1]
    BY <1>2, SeqTypes, HeadTailProperties
  <2>2. DOMAIN Tail(fifo) = 1 .. Len(Tail(fifo)) /\ Len(fifo) # 0
    BY <1>2, SeqTypes, HeadTailProperties
  <2> QED BY <1>2, <2>1, <2>2, SeqTypes
<1>6. Good(pool[Head(fifo)], reported)
  BY <1>4, <1>5
<1>7. c.item = pool[Head(fifo)]
  BY DEF NoCall
<1> HIDE DEF c
<1>8. call'[l] = c /\ \A k \in Tpls : k # l => call'[k] = call[k]
  BY <1>2, LocalsEffect
<1>9. LocalsOK'
  BY <1>2, <1>6, <1>7, <1>8 DEF ItemsOK, LocalsOK
<1>10. QueueOK'
  BY <1>2, <1>4, <1>5 DEF QueueOK
<1>11. NumbersOK' /\ HandedOK' /\ LoggedOK'
  BY <1>2 DEF ItemsOK, NumbersOK, HandedOK, MaxRecordNumber, LoggedOK, hub
<1>12. ReportsOK'
  <2>1. \A k \in Tpls : k # l => report'[k] = report[k]
    BY SeqTypes DEF DrainRetrieves, Note
  <2> QED BY <1>1, <1>2, <2>1 DEF ItemsOK, ReportsOK, Reporting, WorkPCs
<1> QED BY <1>9, <1>10, <1>11, <1>12 DEF ItemsOK

(* The drain passes the first record of the queue to the data hub: it is   *)
(* filled, for no report below the drain is filling one.                   *)
LEMMA ItemsDrain ==
    ASSUME TypeInv, ItemsOK, NEW l \in Tpls, DrainStep(l)
    PROVE  ItemsOK'
<1>1. /\ code[l].pc # "fill" /\ \A k \in Tpls : k # l => code'[k] = code[k]
      /\ DrainRetrieves(l) \/ (code'[l].pc \in {"drain", "end", "idle"})
  BY DrainTurns DEF DrainStep, DrainBegins, DrainRetrieves, DrainReleases, DrainEmpty,
     DrainEnds, At
<1>2. CASE ~DrainRetrieves(l)
  <2>1. UNCHANGED << hub, call, pool, fifo, hob, reported >>
        /\ (report' = report \/ Note(l, NoReport))
    BY <1>2 DEF DrainStep, DrainBegins, DrainReleases, DrainEmpty, DrainEnds, rest, buffers,
       boot
  <2>2. \A k \in Tpls : k # l => report'[k] = report[k]
    BY <2>1, SeqTypes DEF Note
  <2>3. QueueOK'
    BY <1>1, <2>1, <2>2, QueueKept
  <2>4. NumbersOK' /\ HandedOK'
    BY <2>1 DEF ItemsOK, NumbersOK, HandedOK, MaxRecordNumber
  <2>5. ~Reporting(l)'
    BY <1>1, <1>2 DEF Reporting, WorkPCs
  <2> QED BY <1>1, <2>1, <2>2, <2>3, <2>4, <2>5, ItemsElsewhere DEF hub
<1> QED BY <1>2, ItemsRetrieve

-----------------------------------------------------------------------------

(* The PEI driver puts an accepted code into its ring.                     *)
LEMMA ItemsPei ==
    ASSUME TypeInv, ItemsOK, NEW class \in Classes, PeiReport(class)
    PROVE  ItemsOK'
<1> DEFINE fresh == [NoItem EXCEPT !.class = class]
           item == Numbered(fresh)
           index == hob.index + 1
           slots == [hob.slots EXCEPT ![hob.index] = item]
<1>1. fresh \in Items
  BY DEF NoItem, Items
<1>2. item \in Items /\ item.id = Len(reported) + 1 /\ item.data \in {0, item.id}
  BY <1>1, NumberedType DEF TypeInv, StoreOK
<1>3. /\ reported' = Append(reported, item)
      /\ hob' = [slots |-> slots, index |-> IF index = MaxRecords THEN 0 ELSE index,
                 packet |-> IF index = MaxRecords THEN hob.packet + 1 ELSE hob.packet]
      /\ UNCHANGED << code, hub, call, fifo, pool, report >>
  BY DEF PeiReport, buffers
<1> HIDE DEF fresh, item
<1>4. /\ NumbersOK' /\ Same(item, reported')
      /\ \A x : Same(x, reported) => Same(x, reported')
      /\ \A x : Good(x, reported) => Good(x, reported')
  BY <1>2, <1>3, MoreAccepted DEF ItemsOK
<1>5. hob.slots \in SlotsType /\ hob.index \in 0 .. MaxRecords - 1 /\ hob.packet \in Nat
      /\ MaxRecords \in Nat \ {0}
  BY StatusCodeAssumption DEF TypeInv, StoreOK, StoreType, HobType
<1>6. \A j \in 0 .. MaxRecords - 1 : slots[j] = IF j = hob.index THEN item ELSE hob.slots[j]
  BY <1>5 DEF SlotsType
<1> HIDE DEF slots
<1>7. \A j \in 0 .. MaxRecordNumber' - 1 :
          j \in 0 .. MaxRecords - 1 /\ (j # hob.index => j \in 0 .. MaxRecordNumber - 1)
  BY <1>3, <1>5 DEF MaxRecordNumber
<1>8. HandedOK'
  BY <1>3, <1>4, <1>6, <1>7 DEF ItemsOK, HandedOK
<1>9. QueueOK'
  BY <1>3, <1>4, QueueKept
<1>10. Application \in Tpls
  BY DEF Tpls, Application, High
<1>11. \A l \in Tpls : Reporting(l)' => Same(report'[l].item, reported')
  BY <1>3, <1>4 DEF ItemsOK, ReportsOK, Reporting
<1> QED BY <1>3, <1>4, <1>8, <1>9, <1>10, <1>11, ItemsElsewhere DEF hub

(* The other steps around the levels leave the items alone.                *)
LEMMA ItemsBoot ==
    ASSUME TypeInv, ItemsOK,
           NotifyLog \/ StartDriver \/ ExitBootServices \/ DataHubInstall \/ UNCHANGED vars
    PROVE  ItemsOK'
<1>1. UNCHANGED << hub, call, pool, fifo, hob, report, reported >>
  BY DEF NotifyLog, StartDriver, ExitBootServices, DataHubInstall, vars, rest, buffers, boot
<1>2. PICK l \in Tpls : /\ code[l].pc = "idle" \/ code'[l] = code[l]
                        /\ code'[l].pc \in {"begin", "replay"} \/ code'[l] = code[l]
                        /\ \A k \in Tpls : k # l => code'[k] = code[k]
  <2>1. CASE NotifyLog
    BY <2>1, CodeEffect DEF NotifyLog, Below, Active, Tpls, Application, Callback, High
  <2>2. CASE StartDriver
    BY <2>2, CodeEffect DEF StartDriver, CanStart, Below, Active, Tpls, Application, High
  <2>3. CASE ExitBootServices \/ DataHubInstall \/ UNCHANGED vars
    BY <2>3 DEF ExitBootServices, DataHubInstall, vars, Tpls, Application, High
  <2> QED BY <2>1, <2>2, <2>3
<1>3. QueueOK'
  BY <1>1, <1>2, QueueKept
<1>4. NumbersOK' /\ HandedOK'
  BY <1>1 DEF ItemsOK, NumbersOK, HandedOK, MaxRecordNumber
<1>5. Reporting(l)' => Same(report'[l].item, reported')
  BY <1>1, <1>2 DEF ItemsOK, ReportsOK, Reporting, WorkPCs
<1> QED BY <1>1, <1>2, <1>3, <1>4, <1>5, ItemsElsewhere DEF hub

(* At first there is nothing to hold.                                      *)
LEMMA ItemsInit == Init => ItemsOK
<1> SUFFICES ASSUME Init PROVE ItemsOK
  OBVIOUS
<1>1. reported = << >> /\ fifo = << >> /\ records = << >> /\ hob.packet = 0 /\ hob.index = 0
  BY DEF Init, HubInit, Hob
<1>2. \A l \in Tpls : code[l].pc = "idle"
  BY DEF Init, TplInit, Idle
<1>3. NoCall.status = FALSE
  BY Zenon DEF NoCall
<1>4. \A l \in Tpls : call[l] = NoCall
  BY DEF Init, HubInit
<1>5. NumbersOK /\ QueueOK /\ LoggedOK
  BY <1>1 DEF NumbersOK, QueueOK, LoggedOK
<1>6. HandedOK
  BY <1>1 DEF HandedOK, MaxRecordNumber
<1>7. ReportsOK /\ LocalsOK
  BY <1>2, <1>3, <1>4 DEF ReportsOK, LocalsOK, Reporting, WorkPCs
<1> QED BY <1>5, <1>6, <1>7 DEF ItemsOK

(* A record of a status code in the data hub holds what was reported: it   *)
(* was not taken off the queue before it was filled, nor was its buffer    *)
(* filled by another report meanwhile.                                     *)
THEOREM LoggedCorrect == Spec => []LoggedAsReported
<1>1. TypeInv /\ ItemsOK /\ [Next]_vars => ItemsOK'
  BY ItemsHub, ItemsAside, ItemsDrain, ItemsPei, ItemsBoot, NextCases
<1>2. ItemsOK => LoggedAsReported
  BY DEF ItemsOK, LoggedOK, Good, LoggedAsReported
<1> QED BY <1>1, <1>2, ItemsInit, TypeInvHolds, PTL DEF Spec

-----------------------------------------------------------------------------
(* What holds of 0 and of the next number holds of all, stated with a set. *)
LEMMA NatSetInduction ==
    ASSUME NEW S, 0 \in S, \A n \in Nat : n \in S => n + 1 \in S
    PROVE  \A n \in Nat : n \in S
<1> DEFINE T == {n \in Nat : n \notin S}
<1> SUFFICES ASSUME T # {} PROVE FALSE
  OBVIOUS
<1>1. T \in SUBSET Nat
  OBVIOUS
<1> HIDE DEF T
<1>2. Min(T) \in T /\ \A y \in T : Min(T) <= y
  BY <1>1, MinIsIn
<1> USE DEF T
<1>3. Min(T) # 0 /\ Min(T) - 1 \in Nat
  BY <1>2
<1>4. Min(T) - 1 \notin T
  BY <1>2, <1>3
<1> QED BY <1>2, <1>3, <1>4

(* The values of the recursive function in StatusOf: what there is of the  *)
(* first n records of s.                                                   *)
Unrolled(s, g, n) ==
    g = [i \in 0 .. n |->
            IF i = 0 THEN << >>
            ELSE IF s[i].status THEN Append(g[i - 1], s[i]) ELSE g[i - 1]]

(* There is such a function for every n, ...                               *)
LEMMA Unrolls ==
    ASSUME NEW s
    PROVE  \A n \in Nat : \E g : Unrolled(s, g, n)
<1> DEFINE S == {n \in Nat : \E g : Unrolled(s, g, n)}
<1>1. 0 \in S
  <2> DEFINE g == [i \in 0 .. 0 |-> << >>]
  <2>1. Unrolled(s, g, 0)
    BY DEF Unrolled
  <2> QED BY <2>1
<1>2. ASSUME NEW n \in Nat, n \in S PROVE n + 1 \in S
  <2>1. PICK g : Unrolled(s, g, n)
    BY <1>2
  <2> DEFINE v == IF s[n + 1].status THEN Append(g[n], s[n + 1]) ELSE g[n]
             h == [i \in 0 .. n + 1 |-> IF i = n + 1 THEN v ELSE g[i]]
  <2>2. \A i \in 0 .. n : h[i] = g[i]
    OBVIOUS
  <2>3. h[n + 1] = v /\ DOMAIN h = 0 .. n + 1
    OBVIOUS
  <2>4. \A i \in 0 .. n : g[i] = IF i = 0 THEN << >>
            ELSE IF s[i].status THEN Append(g[i - 1], s[i]) ELSE g[i - 1]
    BY <2>1 DEF Unrolled
  <2> DEFINE k == [i \in 0 .. n + 1 |->
            IF i = 0 THEN << >>
            ELSE IF s[i].status THEN Append(h[i - 1], s[i]) ELSE h[i - 1]]
  <2>5. \A i \in 0 .. n : h[i] = k[i]
    <3> TAKE i \in 0 .. n
    <3>1. i # 0 => i - 1 \in 0 .. n
      OBVIOUS
    <3> QED BY <2>2, <2>4, <3>1
  <2>6. h[n + 1] = k[n + 1]
    <3>1. n + 1 \in 0 .. n + 1 /\ (n + 1) - 1 = n /\ n + 1 # 0 /\ h[n] = g[n]
      BY <2>2
    <3>2. k[n + 1] = IF s[n + 1].status THEN Append(h[n], s[n + 1]) ELSE h[n]
      BY <3>1
    <3> QED BY <2>3, <3>1, <3>2
  <2>7. \A i \in 0 .. n + 1 : h[i] = k[i]
    <3>1. 0 .. n + 1 = (0 .. n) \cup {n + 1}
      OBVIOUS
    <3> HIDE DEF h, k
    <3> QED BY <2>5, <2>6, <3>1
  <2>8. h = k
    <3>1. /\ DOMAIN k = 0 .. n + 1
          /\ h = [i \in 0 .. n + 1 |-> h[i]] /\ k = [i \in 0 .. n + 1 |-> k[i]]
      OBVIOUS
    <3> HIDE DEF h, k
    <3> QED BY <2>7, <3>1
  <2>9. Unrolled(s, h, n + 1)
    <3> HIDE DEF h
    <3> QED BY <2>8 DEF Unrolled
  <2> QED BY <2>9
<1> HIDE DEF S
<1>3. \A n \in Nat : n \in S
  BY <1>1, <1>2, NatSetInduction
<1> QED BY <1>3 DEF S

(* ... and functions for more records agree on the first ones.             *)
LEMMA UnrolledAgree ==
    ASSUME NEW s, NEW t, NEW m \in Nat, NEW n \in Nat, m <= n,
           NEW g, NEW h, Unrolled(s, g, m), Unrolled(t, h, n),
           \A i \in 1 .. m : s[i] = t[i]
    PROVE  \A i \in 0 .. m : g[i] = h[i]
<1> DEFINE S == {i \in Nat : i <= m => g[i] = h[i]}
<1>1. 0 \in S
  BY DEF Unrolled
<1>2. ASSUME NEW i \in Nat, i \in S PROVE i + 1 \in S
  <2> SUFFICES ASSUME i + 1 <= m PROVE g[i + 1] = h[i + 1]
    OBVIOUS
  <2>1. i + 1 \in 0 .. m /\ i + 1 \in 0 .. n /\ (i + 1) - 1 = i /\ i + 1 # 0 /\ i + 1 \in 1 .. m
    OBVIOUS
  <2>2. g[i + 1] = IF s[i + 1].status THEN Append(g[i], s[i + 1]) ELSE g[i]
    BY <2>1 DEF Unrolled
  <2>3. h[i + 1] = IF t[i + 1].status THEN Append(h[i], t[i + 1]) ELSE h[i]
    BY <2>1 DEF Unrolled
  <2>4. g[i] = h[i] /\ s[i + 1] = t[i + 1]
    BY <1>2, <2>1
  <2> QED BY <2>2, <2>3, <2>4
<1> HIDE DEF S
<1>3. \A i \in Nat : i \in S
  BY <1>1, <1>2, NatSetInduction
<1> QED BY <1>3 DEF S

(* So StatusOf is the last value of any of them.                           *)
LEMMA StatusOfIs ==
    ASSUME NEW s, Len(s) \in Nat
    PROVE  \E g : Unrolled(s, g, Len(s)) /\ StatusOf(s) = g[Len(s)]
<1> DEFINE n == Len(s)
           u == CHOOSE g : Unrolled(s, g, n)
<1>1. Unrolled(s, u, n)
  BY Unrolls
<1>2. StatusOf(s) = u[n]
  BY DEF StatusOf, Unrolled
<1> QED BY <1>1, <1>2

(* Of no records there are none of status codes; one more is either a      *)
(* status code, and the last one, or makes no difference.                  *)
LEMMA StatusOfEmpty == StatusOf(<< >>) = << >>
<1>1. Len(<< >>) = 0
  OBVIOUS
<1>2. PICK g : Unrolled(<< >>, g, 0) /\ StatusOf(<< >>) = g[0]
  BY <1>1, StatusOfIs
<1> QED BY <1>2 DEF Unrolled

(* A record that joins the log joins them, if it is of a status code.      *)
LEMMA StatusOfAppend ==
    ASSUME NEW R, NEW s \in Seq(R), NEW r \in R
    PROVE  StatusOf(Append(s, r)) = IF r.status THEN Append(StatusOf(s), r) ELSE StatusOf(s)
<1> DEFINE t == Append(s, r)
           n == Len(s)
<1>1. t \in Seq(R) /\ n \in Nat /\ Len(t) = n + 1 /\ t[n + 1] = r /\ \A i \in 1 .. n : s[i] = t[i]
  OBVIOUS
<1>2. PICK g : Unrolled(s, g, n) /\ StatusOf(s) = g[n]
  BY <1>1, StatusOfIs
<1> HIDE DEF t
<1>3. PICK h : Unrolled(t, h, n + 1) /\ StatusOf(t) = h[n + 1]
  BY <1>1, StatusOfIs
<1> HIDE DEF n
<1>4. g[n] = h[n]
  <2>1. n \in 0 .. n /\ n + 1 \in Nat /\ n <= n + 1
    BY <1>1
  <2> QED BY <2>1, <1>1, <1>2, <1>3, UnrolledAgree
<1>5. n + 1 \in 0 .. n + 1 /\ (n + 1) - 1 = n /\ n + 1 # 0
  BY <1>1
<1>6. h[n + 1] = IF t[n + 1].status THEN Append(h[n], t[n + 1]) ELSE h[n]
  BY <1>1, <1>3, <1>5 DEF Unrolled
<1> QED BY <1>1, <1>2, <1>3, <1>4, <1>6 DEF t

(* The records of status codes are records, of status codes.               *)
LEMMA StatusOfType ==
    ASSUME NEW R, NEW s \in Seq(R)
    PROVE  StatusOf(s) \in Seq({r \in R : r.status})
<1> DEFINE n == Len(s)
           Q == {r \in R : r.status}
<1>1. n \in Nat
  OBVIOUS
<1>2. PICK g : Unrolled(s, g, n) /\ StatusOf(s) = g[n]
  BY <1>1, StatusOfIs
<1> DEFINE S == {i \in Nat : i <= n => g[i] \in Seq(Q)}
<1>3. 0 \in S
  BY <1>1, <1>2 DEF Unrolled
<1>4. ASSUME NEW i \in Nat, i \in S PROVE i + 1 \in S
  <2> SUFFICES ASSUME i + 1 <= n PROVE g[i + 1] \in Seq(Q)
    OBVIOUS
  <2>1. i + 1 \in 0 .. n /\ (i + 1) - 1 = i /\ i + 1 # 0 /\ i + 1 \in 1 .. n
    OBVIOUS
  <2>2. g[i + 1] = IF s[i + 1].status THEN Append(g[i], s[i + 1]) ELSE g[i]
    BY <1>2, <2>1 DEF Unrolled
  <2>3. g[i] \in Seq(Q) /\ s[i + 1] \in R
    BY <1>4, <2>1
  <2> HIDE DEF S
  <2> QED BY <2>2, <2>3
<1> HIDE DEF S
<1>5. \A i \in Nat : i \in S
  BY <1>3, <1>4, NatSetInduction
<1> QED BY <1>1, <1>2, <1>5 DEF S

(* A list that is as long as it has elements has none of them twice.       *)
LEMMA NoneTwice ==
    ASSUME NEW n \in Nat, NEW u \in Seq(Nat), Len(u) = n, Elements(u) = 1 .. n
    PROVE  \A j, k \in 1 .. n : u[j] = u[k] => j = k
<1>1. u \in Surjection(1 .. n, 1 .. n)
  <2>1. DOMAIN u = 1 .. n /\ u \in [1 .. n -> 1 .. n]
    BY DEF Elements
  <2>2. \A t \in 1 .. n : \E s \in 1 .. n : u[s] = t
    BY <2>1 DEF Elements
  <2> QED BY <2>1, <2>2 DEF Surjection
<1>2. IsFiniteSet(1 .. n)
  BY FS_Interval
<1>3. u \in Injection(1 .. n, 1 .. n)
  BY <1>1, <1>2, FS_SurjSameCardinalityImpliesInj
<1> QED BY <1>3 DEF Injection, IsInjective

(* No buffer is twice on the queue, and none that is on it is free.        *)
LEMMA QueuedOnce ==
    ASSUME TypeInv, Owned
    PROVE  /\ \A j, k \in DOMAIN fifo : fifo[j] = fifo[k] => j = k
           /\ free # << >> => \A j \in DOMAIN fifo : fifo[j] # Head(free)
<1> DEFINE u == fifo \o free
           h == HeldBuffers
           n == Len(pool)
<1>1. /\ fifo \in Seq(Nat) /\ free \in Seq(Nat) /\ h \in Seq(Nat) /\ n \in Nat
      /\ DOMAIN pool = 1 .. n /\ DOMAIN fifo = 1 .. Len(fifo) /\ Len(fifo) \in Nat
      /\ Len(free) \in Nat
  <2>1. DOMAIN pool \subseteq Nat /\ fifo \in Seq(DOMAIN pool) /\ free \in Seq(DOMAIN pool)
        /\ pool \in Seq(Items)
    BY DEF TypeInv, StoreOK, StoreType
  <2>2. report[Callback].buf \in Nat
    <3>1. report[Callback] \in ReportType
      BY DEF TypeInv, StoreOK, StoreType, Tpls, Application, Callback, High
    <3> QED BY <3>1 DEF ReportType
  <2> QED BY <2>1, <2>2 DEF HeldBuffers
<1>2. /\ u \in Seq(Nat) /\ Len(u) = Len(fifo) + Len(free)
      /\ \A i \in 1 .. Len(fifo) : u[i] = fifo[i]
      /\ free # << >> => Len(free) > 0 /\ u[Len(fifo) + 1] = Head(free)
  <2>1. u \in Seq(Nat) /\ Len(u) = Len(fifo) + Len(free)
        /\ \A i \in 1 .. Len(fifo) + Len(free) :
              u[i] = IF i <= Len(fifo) THEN fifo[i] ELSE free[i - Len(fifo)]
    BY <1>1, ConcatProperties
  <2>2. free # << >> => Len(free) > 0 /\ Head(free) = free[1]
    BY <1>1
  <2> HIDE DEF u
  <2>3. ASSUME NEW i \in 1 .. Len(fifo) PROVE u[i] = fifo[i]
    <3>1. i \in 1 .. Len(fifo) + Len(free) /\ i <= Len(fifo)
      BY <1>1
    <3> QED BY <2>1, <3>1
  <2>4. free # << >> => u[Len(fifo) + 1] = Head(free)
    <3> HAVE free # << >>
    <3>1. Len(fifo) + 1 \in 1 .. Len(fifo) + Len(free) /\ ~(Len(fifo) + 1 <= Len(fifo))
          /\ (Len(fifo) + 1) - Len(fifo) = 1
      BY <1>1, <2>2
    <3> QED BY <2>1, <2>2, <3>1
  <2> QED BY <2>1, <2>2, <2>3, <2>4
<1> HIDE DEF u
<1>3. /\ u \o h \in Seq(Nat) /\ Len(u \o h) = Len(u) + Len(h) /\ Len(h) \in Nat
      /\ \A i \in 1 .. Len(u) : (u \o h)[i] = u[i]
  <2>1. h \in Seq(Nat)
    BY <1>1
  <2> HIDE DEF h
  <2>2. u \in Seq(Nat)
    BY <1>2
  <2>3. /\ u \o h \in Seq(Nat) /\ Len(u \o h) = Len(u) + Len(h)
        /\ \A i \in 1 .. Len(u) + Len(h) : (u \o h)[i] = IF i <= Len(u) THEN u[i] ELSE h[i - Len(u)]
    BY <2>1, <2>2, ConcatProperties
  <2>4. Len(h) \in Nat /\ Len(u) \in Nat
    BY <2>1, <2>2
  <2>5. \A i \in 1 .. Len(u) : i \in 1 .. Len(u) + Len(h) /\ i <= Len(u)
    BY <2>4
  <2> QED BY <2>3, <2>4, <2>5
<1>4. Elements(u \o h) = 1 .. n /\ Len(u \o h) = n
  <2>1. Places = u \o h
    BY DEF Places, u
  <2>2. BuffersOwned
    BY OwnedIsOwned
  <2> QED BY <1>1, <2>1, <2>2 DEF BuffersOwned, Elements
<1> DEFINE v == u \o h
<1> HIDE DEF h, v
<1>5. v \in Seq(Nat) /\ Len(v) = n /\ Elements(v) = 1 .. n /\ Len(u) <= n
      /\ \A i \in 1 .. Len(u) : v[i] = u[i]
  BY <1>2, <1>3, <1>4 DEF v
<1> HIDE DEF n
<1>6. \A j, k \in 1 .. n : v[j] = v[k] => j = k
  BY <1>1, <1>5, NoneTwice
<1>7. \A j, k \in 1 .. Len(u) : u[j] = u[k] => j = k
  <2>1. \A j \in 1 .. Len(u) : j \in 1 .. n
    BY <1>1, <1>2, <1>5
  <2> QED BY <1>5, <1>6, <2>1
<1>8. \A j \in DOMAIN fifo : j \in 1 .. Len(u) /\ j # Len(fifo) + 1 /\ u[j] = fifo[j]
  <2>1. \A j \in 1 .. Len(fifo) : j \in 1 .. Len(fifo) + Len(free) /\ j # Len(fifo) + 1
    BY <1>1
  <2> QED BY <1>1, <1>2, <2>1
<1>9. free # << >> => Len(fifo) + 1 \in 1 .. Len(u) /\ u[Len(fifo) + 1] = Head(free)
  BY <1>1, <1>2
<1> QED BY <1>7, <1>8, <1>9

-----------------------------------------------------------------------------
(* Who logs a status code: the notify function of the log.                 *)
Logging == {"log", "number", "insert"}
StatusLocal ==
    \A l \in Tpls : code[l].pc \in Logging => (call[l].status <=> code[l].ret = "release")

(* A step of the data hub at level l: it logs on what it logged, it begins *)
(* to log what is no status code, or it does not log.                      *)
LogsOn(l) ==
    \/ /\ code[l].pc \in Logging /\ code'[l].pc \in Logging /\ code'[l].ret = code[l].ret
       /\ call'[l].status = call[l].status /\ call'[l].item = call[l].item
    \/ code'[l].pc = "log" /\ code'[l].ret = "idle" /\ ~call'[l].status
    \/ code'[l].pc \notin Logging

(* What the steps that go on, and those that start, do to a level.         *)
LEMMA PlaceEffect ==
    ASSUME TypeInv, NEW l \in Tpls, NEW p
    PROVE  /\ Goto(l, p) \/ Lock(l, p) \/ Unlock(l, p) =>
                code'[l].pc = p /\ code'[l].ret = code[l].ret
           /\ Start(l, p) => code'[l].pc = p /\ code'[l].ret = "idle"
           /\ Back(l) => code'[l].pc = code[l].ret /\ code'[l].ret = "idle"
  BY DEF TypeInv, Levels, Frames, CodeType, Goto, Lock, Unlock, Start, Back, Idle

(* No function returns into the middle of a log.                           *)
LEMMA ReturnsElsewhere ==
    ASSUME TypeInv, NEW l \in Tpls
    PROVE  code[l].ret \notin Logging
  BY DEF TypeInv, Levels, Frames, CodeType, Logging

(* Every step of the data hub is at a level that logs on.                  *)
LEMMA HubLogsOn ==
    ASSUME TypeInv, NEW l \in Tpls, HubActionAt(l)
    PROVE  LogsOn(l)
<1> USE DEF Logging
<1>0. ASSUME End(l) PROVE LogsOn(l)
  BY <1>0, PlaceEffect, ReturnsElsewhere DEF End, LogsOn
<1>1. ASSUME NEW p, p \notin Logging, Goto(l, p) \/ Start(l, p) \/ Unlock(l, p) PROVE LogsOn(l)
  BY <1>1, PlaceEffect DEF LogsOn
<1>2. ASSUME HubStep(l)
      PROVE  LogsOn(l)
  <2>1. CASE LogAcquire(l)
    <3>1. CASE locked
      BY <1>0, <2>1, <3>1 DEF LogAcquire
    <3>2. CASE ~locked
      <4>1. Lock(l, "number") /\ UNCHANGED call /\ code[l].pc = "log"
        BY <2>1, <3>2 DEF LogAcquire, At
      <4> QED BY <4>1, PlaceEffect DEF LogsOn
    <3> QED BY <3>1, <3>2
  <2>2. CASE LogNumber(l)
    <3> DEFINE c == [call[l] EXCEPT !.mtc = count + 1]
    <3>1. Goto(l, "insert") /\ code[l].pc = "number" /\ Locals(l, c)
      BY <2>2 DEF LogNumber, At
    <3>2. c.status = call[l].status /\ c.item = call[l].item
      BY DEF TypeInv, HubOK, HubType, CallType
    <3> HIDE DEF c
    <3>3. call'[l] = c
      BY <3>1, LocalsEffect
    <3> QED BY <3>1, <3>2, <3>3, PlaceEffect DEF LogsOn
  <2>3. CASE LogNoMemory(l) \/ ReadFails(l) \/ RegisterSignals(l) \/ UnregisterUnlinks(l)
    BY <1>0, <2>3 DEF LogNoMemory, ReadFails, RegisterSignals, UnregisterUnlinks
  <2>4. CASE LogInsert(l) \/ LogSignal(l) \/ ReadFinds(l) \/ ReadStores(l) \/ RegisterLinks(l)
    BY <1>1, <2>4 DEF LogInsert, LogSignal, ReadFinds, ReadStores, RegisterLinks
  <2>5. CASE LogNext(l) \/ ReadGoesOn(l) \/ RegisterFinds(l) \/ UnregisterFinds(l)
    <3>1. End(l) \/ \E p \in {"walk", "read", "link", "unlink"} : Goto(l, p)
      BY <2>5 DEF LogNext, ReadGoesOn, RegisterFinds, UnregisterFinds
    <3> QED BY <1>0, <1>1, <3>1
  <2> QED BY <1>2, <2>1, <2>2, <2>3, <2>4, <2>5 DEF HubStep
<1>3. ASSUME \E class \in Logs : AskLog(l, class)
      PROVE  LogsOn(l)
  <2>1. PICK class \in Logs : AskLog(l, class)
    BY <1>3
  <2> DEFINE c == [NoCall EXCEPT !.item.class = class]
  <2>2. Start(l, "log") /\ Locals(l, c)
    BY <2>1 DEF AskLog
  <2>3. c.status = FALSE
    BY Zenon DEF NoCall
  <2> HIDE DEF c
  <2>4. call'[l] = c
    BY <2>2, LocalsEffect
  <2> QED BY <2>2, <2>3, <2>4, PlaceEffect DEF LogsOn
<1>4. ASSUME \/ \E e \in Filters : AskRegister(l, e) \/ AskUnregister(l, e)
             \/ HandlerUnregisters(l)
      PROVE  LogsOn(l)
  <2>1. \E p \in {"register", "unregister"} : Start(l, p) \/ Goto(l, p)
    BY <1>4 DEF AskRegister, AskUnregister, HandlerUnregisters
  <2> QED BY <1>1, <2>1
<1>5. ASSUME \E e \in Filters : l = EventTpl[e] /\ NotifyFilter(e)
      PROVE  LogsOn(l)
  <2>1. PICK e \in Filters : l = EventTpl[e] /\ NotifyFilter(e)
    BY <1>5
  <2>2. Start(l, "read")
    BY <2>1 DEF NotifyFilter
  <2> QED BY <1>1, <2>2
<1> QED BY <1>2, <1>3, <1>4, <1>5 DEF HubActionAt

(* The codes of the items in s; and a line of codes, of which the first,   *)
(* x, may have left the queue s.                                           *)
CodesOf(s) == [j \in DOMAIN s |-> CodeOf(s[j])]
Line(c, x, s) == (IF c THEN << x >> ELSE << >>) \o s
(* What there is in buffer b, by the places c of the levels, the locals r  *)
(* of the reports and the buffers p; and the codes of the queue q.         *)
ContentIn(c, r, p, b) ==
    IF \E l \in Tpls : c[l].pc = "fill" /\ r[l].buf = b
    THEN r[CHOOSE l \in Tpls : c[l].pc = "fill" /\ r[l].buf = b].item
    ELSE p[b]
CodesIn(c, r, p, q) == [j \in DOMAIN q |-> CodeOf(ContentIn(c, r, p, q[j]))]

(* The two sequences of the conduit.                                       *)
Waiting == [j \in DOMAIN Queued |-> CodeOf(Queued[j])]
Logged == [j \in DOMAIN StatusRecords |-> CodeOf(StatusRecords[j].item)]
Numbers(q, d) == {q[j].id : j \in DOMAIN q} \cup {d[j].id : j \in DOMAIN d}

Carried == code[Callback].ret = "release" /\ code[Callback].pc \in Logging
Coming == CodesIn(code, report, pool, fifo)

(* A line whose first has left the queue, and when it leaves the line.     *)
LEMMA LineMoves ==
    ASSUME NEW S, NEW s \in Seq(S), NEW x \in S
    PROVE  /\ Line(FALSE, x, s) = s
           /\ s # << >> => Line(TRUE, Head(s), Tail(s)) = s
           /\ Line(TRUE, x, s) # << >>
           /\ Head(Line(TRUE, x, s)) = x /\ Tail(Line(TRUE, x, s)) = s
           /\ Line(TRUE, x, s) \in Seq(S)
<1> USE DEF Line
<1>1. Line(FALSE, x, s) = s
  BY ConcatEmptySeq
<1>2. s # << >> => Line(TRUE, Head(s), Tail(s)) = s
  OBVIOUS
<1>3. Line(TRUE, x, s) # << >> /\ Head(Line(TRUE, x, s)) = x /\ Tail(Line(TRUE, x, s)) = s
  OBVIOUS
<1>4. Line(TRUE, x, s) \in Seq(S)
  OBVIOUS
<1> QED BY <1>1, <1>2, <1>3, <1>4

(* What joins the queue joins the line.                                    *)
LEMMA LineAppends ==
    ASSUME NEW S, NEW s \in Seq(S), NEW x \in S, NEW y \in S
    PROVE  /\ Line(TRUE, x, Append(s, y)) = Append(Line(TRUE, x, s), y)
           /\ Line(FALSE, x, Append(s, y)) = Append(Line(FALSE, x, s), y)
  BY DEF Line

(* The codes of a line of items are the line of their codes.               *)
LEMMA LineTurns ==
    ASSUME NEW S, NEW s \in Seq(S), NEW x \in S, NEW c \in BOOLEAN
    PROVE  CodesOf(Line(c, x, s)) = Line(c, CodeOf(x), CodesOf(s))
<1> DEFINE T == {CodeOf(y) : y \in S}
           v == CodesOf(s)
<1>1. CodeOf(x) \in T /\ \A i \in 1 .. Len(s) : CodeOf(s[i]) \in T
  OBVIOUS
<1> HIDE DEF T
<1>2. /\ v \in Seq(T) /\ Len(v) = Len(s) /\ Len(s) \in Nat
      /\ \A i \in 1 .. Len(s) : v[i] = CodeOf(s[i])
  BY <1>1 DEF CodesOf
<1> HIDE DEF v
<1>3. CASE ~c
  <2>1. Line(c, x, s) = s
    BY <1>3, ConcatEmptySeq DEF Line
  <2>2. Line(c, CodeOf(x), v) = v
    BY <1>2, <1>3, ConcatEmptySeq DEF Line
  <2> QED BY <2>1, <2>2 DEF v
<1>4. CASE c
  <2> DEFINE u == << x >> \o s
             w == << CodeOf(x) >> \o v
             a == CodesOf(u)
  <2>1. /\ u \in Seq(S) /\ Len(u) = 1 + Len(s) /\ u[1] = x
        /\ \A i \in 1 .. Len(s) : u[i + 1] = s[i]
    BY <1>2
  <2>2. /\ w \in Seq(T) /\ Len(w) = 1 + Len(s) /\ w[1] = CodeOf(x)
        /\ \A i \in 1 .. Len(s) : w[i + 1] = v[i]
    BY <1>1, <1>2
  <2> HIDE DEF u, w
  <2>3. \A i \in 1 .. Len(u) : i = 1 \/ \E k \in 1 .. Len(s) : i = k + 1
    <3> TAKE i \in 1 .. Len(u)
    <3>1. i # 1 => i - 1 \in 1 .. Len(s) /\ i = (i - 1) + 1
      BY <1>2, <2>1
    <3> QED BY <3>1
  <2>4. \A i \in 1 .. Len(u) : CodeOf(u[i]) = w[i]
    <3> TAKE i \in 1 .. Len(u)
    <3>1. CASE i = 1
      BY <2>1, <2>2, <3>1
    <3>2. ASSUME NEW k \in 1 .. Len(s), i = k + 1 PROVE CodeOf(u[i]) = w[i]
      BY <1>2, <2>1, <2>2, <3>2
    <3> QED BY <2>3, <3>1, <3>2
  <2>5. \A i \in 1 .. Len(u) : w[i] \in T
    BY <1>2, <2>1, <2>2
  <2>6. a \in Seq(T) /\ Len(a) = Len(w) /\ \A i \in 1 .. Len(a) : a[i] = w[i]
    BY <2>1, <2>2, <2>4, <2>5 DEF CodesOf
  <2> HIDE DEF a
  <2>7. a = w
    BY <2>2, <2>6, SeqEqual
  <2> QED BY <1>4, <2>7 DEF Line, u, w, a, v
<1> QED BY <1>3, <1>4

(* Level l fills a buffer, and no other does.                              *)
FillsAlone(c, l) == c[l].pc = "fill" /\ \A k \in Tpls : c[k].pc = "fill" => k = l

(* What is in the buffers while level l fills one, and while none does.    *)
LEMMA ContentFilling ==
    ASSUME NEW c, NEW r, NEW p, NEW b, NEW l \in Tpls, FillsAlone(c, l)
    PROVE  ContentIn(c, r, p, b) = IF r[l].buf = b THEN r[l].item ELSE p[b]
<1> USE DEF FillsAlone
<1>1. CASE r[l].buf = b
  <2> DEFINE m == CHOOSE k \in Tpls : c[k].pc = "fill" /\ r[k].buf = b
  <2>1. m \in Tpls /\ c[m].pc = "fill"
    BY <1>1
  <2>2. m = l
    BY <2>1
  <2> QED BY <1>1, <2>2 DEF ContentIn
<1>2. CASE r[l].buf # b
  BY <1>2 DEF ContentIn
<1> QED BY <1>1, <1>2

(* A buffer that nobody fills counts for what is in it.                    *)
LEMMA ContentFilled ==
    ASSUME NEW c, NEW r, NEW p, NEW b, \A k \in Tpls : c[k].pc # "fill"
    PROVE  ContentIn(c, r, p, b) = p[b]
  BY DEF ContentIn

(* One report at a time fills a buffer.                                    *)
LEMMA OneFills ==
    ASSUME TypeInv, NEW l \in Tpls, code[l].pc \in WorkPCs
    PROVE  /\ \A k \in Tpls : code[k].pc = "fill" => k = l
           /\ code[l].pc = "fill" => FillsAlone(code, l)
  BY DEF FillsAlone, TypeInv, Levels, NestOK, Reporting, WorkPCs

(* The codes on their way are a line: the one the notify function of the   *)
(* log carries, and the queue.                                             *)
LEMMA WaitingIs ==
    TypeInv => /\ Waiting = Line(Carried, CodeOf(call[Callback].item), Coming)
               /\ DOMAIN Coming = DOMAIN fifo
               /\ \A j \in DOMAIN fifo : Coming[j] = CodeOf(ContentIn(code, report, pool, fifo[j]))
<1> SUFFICES ASSUME TypeInv
             PROVE  /\ Waiting = Line(Carried, CodeOf(call[Callback].item), Coming)
                    /\ DOMAIN Coming = DOMAIN fifo
                    /\ \A j \in DOMAIN fifo :
                          Coming[j] = CodeOf(ContentIn(code, report, pool, fifo[j]))
  OBVIOUS
<1> DEFINE x == call[Callback].item
           s == [j \in DOMAIN fifo |-> Content(fifo[j])]
           S == {Content(fifo[j]) : j \in DOMAIN fifo} \cup {x}
<1>1. \A b : Content(b) = ContentIn(code, report, pool, b)
  BY DEF Content, ContentIn
<1>2. s \in Seq(S) /\ x \in S
  BY SeqTypes
<1>3. Queued = Line(Carried, x, s)
  BY DEF Queued, InHand, Line, Carried, Logging
<1>4. Waiting = CodesOf(Queued)
  BY DEF Waiting, CodesOf
<1>5. CodesOf(s) = Coming
  BY <1>1 DEF CodesOf, Coming, CodesIn
<1>6. DOMAIN Coming = DOMAIN fifo
      /\ \A j \in DOMAIN fifo : Coming[j] = CodeOf(ContentIn(code, report, pool, fifo[j]))
  BY DEF Coming, CodesIn
<1>7. Carried \in BOOLEAN
  BY DEF Carried
<1> HIDE DEF x, s, S
<1>8. CodesOf(Line(Carried, x, s)) = Line(Carried, CodeOf(x), CodesOf(s))
  BY <1>2, <1>7, LineTurns
<1> QED BY <1>3, <1>4, <1>5, <1>6, <1>8 DEF x

(* The same of the next state.                                             *)
LEMMA WaitingIsNext ==
    (TypeInv => /\ Waiting = Line(Carried, CodeOf(call[Callback].item), Coming)
                /\ DOMAIN Coming = DOMAIN fifo
                /\ \A j \in DOMAIN fifo :
                      Coming[j] = CodeOf(ContentIn(code, report, pool, fifo[j])))'
  BY WaitingIs, PTL

(* Steps that leave the queue and what is in its buffers alone.            *)
LEMMA ComingKept ==
    ASSUME TypeInv, UNCHANGED << fifo, pool >>,
           \A k \in Tpls : code'[k].pc = "fill" <=> code[k].pc = "fill",
           \A k \in Tpls : code[k].pc = "fill" => report'[k] = report[k]
    PROVE  Coming' = Coming
<1>1. \A b : ContentIn(code', report', pool', b) = ContentIn(code, report, pool, b)
  <2> TAKE b
  <2>1. CASE \E l \in Tpls : code[l].pc = "fill"
    <3>1. PICK l \in Tpls : code[l].pc = "fill"
      BY <2>1
    <3>2. FillsAlone(code, l)
      BY <3>1, OneFills DEF WorkPCs
    <3>3. ContentIn(code, report, pool, b) = IF report[l].buf = b THEN report[l].item ELSE pool[b]
      BY <3>2, ContentFilling
    <3>4. FillsAlone(code', l)
      BY <3>1, <3>2 DEF FillsAlone
    <3>5. ContentIn(code', report', pool', b)
          = IF report'[l].buf = b THEN report'[l].item ELSE pool'[b]
      BY <3>4, ContentFilling
    <3> QED BY <3>1, <3>3, <3>5
  <2>2. CASE \A l \in Tpls : code[l].pc # "fill"
    <3>1. \A l \in Tpls : code'[l].pc # "fill"
      BY <2>2
    <3> QED BY <2>2, <3>1, ContentFilled
  <2> QED BY <2>1, <2>2
<1> QED BY <1>1 DEF Coming, CodesIn

(* Steps that leave alone what is carried to the log, too.                 *)
LEMMA CarriedKept ==
    ASSUME TypeInv, TypeInv', Coming' = Coming, Carried' <=> Carried,
           Carried => call'[Callback].item = call[Callback].item
    PROVE  Waiting' = Waiting
<1>1. Waiting = Line(Carried, CodeOf(call[Callback].item), Coming)
  BY WaitingIs
<1>2. Waiting' = Line(Carried', CodeOf(call'[Callback].item), Coming')
  BY WaitingIsNext
<1> QED BY <1>1, <1>2 DEF Line

(* The types of the line.                                                  *)
LEMMA ComingType ==
    ASSUME TypeInv
    PROVE  \E S : Coming \in Seq(S) /\ CodeOf(call[Callback].item) \in S
<1> DEFINE S == {CodeOf(ContentIn(code, report, pool, fifo[j])) : j \in DOMAIN fifo}
                \cup {CodeOf(call[Callback].item)}
<1>1. Coming \in Seq(S)
  BY SeqTypes DEF Coming, CodesIn
<1> QED BY <1>1

(* What is carried is logged, or lost: the line moves up.                  *)
LEMMA CarriedEnds ==
    ASSUME TypeInv, TypeInv', Coming' = Coming, Carried, ~Carried'
    PROVE  /\ Waiting # << >> /\ Waiting' = Tail(Waiting)
           /\ Head(Waiting) = CodeOf(call[Callback].item)
<1> DEFINE x == CodeOf(call[Callback].item)
<1>1. Waiting = Line(TRUE, x, Coming)
  BY WaitingIs DEF Line
<1>2. Waiting' = Line(FALSE, CodeOf(call'[Callback].item), Coming)
  BY WaitingIsNext DEF Line
<1>3. PICK S : Coming \in Seq(S) /\ x \in S
  BY ComingType
<1>4. Waiting' = Coming
  BY <1>2, <1>3, ConcatEmptySeq DEF Line
<1> HIDE DEF x
<1>5. /\ Line(TRUE, x, Coming) # << >> /\ Head(Line(TRUE, x, Coming)) = x
      /\ Tail(Line(TRUE, x, Coming)) = Coming
  BY <1>3, LineMoves
<1>6. Waiting # << >> /\ Waiting' = Tail(Waiting) /\ Head(Waiting) = x
  BY <1>1, <1>4, <1>5
<1> QED BY <1>6 DEF x

(* How the line and the log move when nothing joins the queue: not at all, *)
(* or the first code leaves the line, into the log or to be lost.          *)
Flows ==
    \/ Waiting' = Waiting /\ Logged' = Logged
    \/ /\ Waiting # << >> /\ Waiting' = Tail(Waiting)
       /\ Logged' = Logged \/ Logged' = Append(Logged, Head(Waiting))
(* A code joins the line, from the report at level l.                      *)
Joins(l) ==
    /\ Acquire(l) \/ Grow(l)
    /\ Waiting' = Append(Waiting, CodeOf(report[l].item)) /\ Logged' = Logged

(* The records of status codes in the log are records of status codes.     *)
LEMMA StatusRecordsType ==
    ASSUME TypeInv
    PROVE  /\ StatusRecords \in Seq({r \in Elements(records) : r.status})
           /\ DOMAIN Logged = DOMAIN StatusRecords
           /\ \A j \in DOMAIN Logged : Logged[j] = CodeOf(StatusRecords[j].item)
<1>1. records \in Seq(Elements(records))
  BY RecordsNat DEF Elements
<1>2. StatusRecords \in Seq({r \in Elements(records) : r.status})
  BY <1>1, StatusOfType DEF StatusRecords
<1> QED BY <1>2 DEF Logged

(* A record that is inserted is the last of the log, if it is of a status  *)
(* code, and makes no difference otherwise.                                *)
LEMMA InsertLogs ==
    ASSUME TypeInv, NEW l \in Tpls, LogInsert(l)
    PROVE  Logged' = IF call[l].status THEN Append(Logged, CodeOf(call[l].item)) ELSE Logged
<1> DEFINE r == LogRecord(l)
           R == Elements(records) \cup {r}
<1>1. r.status = call[l].status /\ r.item = call[l].item
  BY DEF LogRecord
<1>2. records \in Seq(R) /\ r \in R
  BY RecordsNat DEF Elements
<1>3. records' = Append(records, r)
  BY InsertAppends
<1> HIDE DEF r, R
<1>4. StatusOf(records') = IF r.status THEN Append(StatusOf(records), r) ELSE StatusOf(records)
  BY <1>2, <1>3, StatusOfAppend
<1>5. StatusRecords \in Seq(R)
  <2>1. StatusOf(records) \in Seq({q \in R : q.status})
    BY <1>2, StatusOfType
  <2>2. {q \in R : q.status} \subseteq R
    OBVIOUS
  <2> QED BY <2>1, <2>2, SeqMonotonic DEF StatusRecords
<1>6. StatusRecords' = IF r.status THEN Append(StatusRecords, r) ELSE StatusRecords
  BY <1>4 DEF StatusRecords
<1> DEFINE s == StatusRecords
           t == [j \in DOMAIN s |-> CodeOf(s[j].item)]
<1>7. s \in Seq(R) /\ Len(s) \in Nat /\ Len(t) = Len(s) /\ t \in Seq({CodeOf(q.item) : q \in R})
  BY <1>5
<1>8. Logged = t /\ Logged' = [j \in DOMAIN s' |-> CodeOf(s'[j].item)]
  BY DEF Logged
<1> HIDE DEF s
<1>9. CASE r.status
  <2> DEFINE u == Append(s, r)
  <2>1. s' = u
    BY <1>6, <1>9 DEF s
  <2>2. DOMAIN u = 1 .. Len(s) + 1 /\ u[Len(s) + 1] = r /\ \A j \in 1 .. Len(s) : u[j] = s[j]
    BY <1>2, <1>7
  <2> DEFINE v == [j \in DOMAIN u |-> CodeOf(u[j].item)]
             w == Append(t, CodeOf(r.item))
  <2>3. DOMAIN w = 1 .. Len(s) + 1 /\ w[Len(s) + 1] = CodeOf(r.item)
        /\ \A j \in 1 .. Len(s) : w[j] = CodeOf(s[j].item)
    BY <1>2, <1>7
  <2>4. w = [j \in DOMAIN w |-> w[j]]
    OBVIOUS
  <2> HIDE DEF u, w
  <2>5. \A j \in 1 .. Len(s) + 1 : w[j] = CodeOf(u[j].item)
    <3> TAKE j \in 1 .. Len(s) + 1
    <3>1. j \in 1 .. Len(s) \/ j = Len(s) + 1
      BY <1>7
    <3> QED BY <2>2, <2>3, <3>1
  <2>6. w = v
    BY <2>2, <2>3, <2>4, <2>5
  <2> QED BY <1>1, <1>8, <1>9, <2>1, <2>6 DEF w
<1>10. CASE ~r.status
  BY <1>1, <1>6, <1>8, <1>10 DEF s
<1> QED BY <1>9, <1>10

(* The data hub logs what the notify function of the log carries, loses    *)
(* it for lack of memory, or leaves line and log alone.                    *)
LEMMA HubFlows ==
    ASSUME TypeInv, TypeInv', StatusLocal, UNCHANGED rest, HubAction
    PROVE  Flows
<1>1. Coming' = Coming
  <2>1. RestKept
    BY HubActionMoves DEF TypeInv
  <2>2. \A k \in Tpls : code'[k].pc = "fill" <=> code[k].pc = "fill"
    BY <2>1 DEF RestKept, ReportPCs, WorkPCs
  <2> QED BY <2>2, ComingKept DEF rest, buffers
<1>2. PICK l \in Tpls : HubEffect(l) /\ HubActionAt(l)
  BY HubEffects
<1>3. LogsOn(l)
  BY <1>2, HubLogsOn
<1>4. Callback \in Tpls
  BY DEF Tpls, Application, Callback, High
<1>5. CASE LogInsert(l)
  <2>1. code[l].pc = "insert" /\ code'[l].pc = "next"
    BY <1>5, PlaceEffect DEF LogInsert, At
  <2>2. call[l].status <=> code[l].ret = "release"
    BY <2>1 DEF StatusLocal, Logging
  <2>3. CASE code[l].ret = "release"
    <3>1. l = Callback
      BY <1>4, <2>3 DEF TypeInv, Levels, Frames, FrameOK
    <3>2. Carried /\ ~Carried'
      BY <2>1, <2>3, <3>1 DEF Carried, Logging
    <3>3. Waiting # << >> /\ Waiting' = Tail(Waiting) /\ Head(Waiting) = CodeOf(call[l].item)
      BY <1>1, <3>1, <3>2, CarriedEnds
    <3>4. Logged' = Append(Logged, CodeOf(call[l].item))
      BY <1>5, <2>2, <2>3, InsertLogs
    <3> QED BY <3>3, <3>4 DEF Flows
  <2>4. CASE code[l].ret # "release"
    <3>1. Logged' = Logged
      BY <1>5, <2>2, <2>4, InsertLogs
    <3>2. Carried' <=> Carried
      <4>1. CASE l = Callback
        BY <2>1, <2>4, <4>1 DEF Carried, Logging
      <4>2. CASE l # Callback
        BY <1>2, <1>4, <4>2 DEF HubEffect, Carried
      <4> QED BY <4>1, <4>2
    <3>3. Carried => call'[Callback].item = call[Callback].item
      BY <1>2, <1>4, <2>4 DEF HubEffect, Carried
    <3> QED BY <1>1, <3>1, <3>2, <3>3, CarriedKept DEF Flows
  <2> QED BY <2>3, <2>4
<1>6. CASE ~LogInsert(l)
  <2>1. records' = records
    BY <1>2, <1>6 DEF HubEffect, LogNumber
  <2>2. Logged' = Logged
    BY <2>1 DEF Logged, StatusRecords
  <2>3. CASE Carried /\ ~Carried'
    BY <1>1, <2>2, <2>3, CarriedEnds DEF Flows
  <2>4. CASE ~(Carried /\ ~Carried')
    <3>1. Carried' => Carried /\ call'[Callback].item = call[Callback].item
      <4>1. CASE l = Callback
        <5>1. Carried' => code'[l].pc \in Logging /\ code'[l].ret = "release"
          BY <4>1 DEF Carried
        <5> QED BY <1>3, <4>1, <5>1 DEF LogsOn, Carried
      <4>2. CASE l # Callback
        BY <1>2, <1>4, <4>2 DEF HubEffect, Carried
      <4> QED BY <4>1, <4>2
    <3> QED BY <1>1, <2>2, <2>4, <3>1, CarriedKept DEF Flows
  <2> QED BY <2>3, <2>4
<1> QED BY <1>5, <1>6

(* The notify function of the log takes up the first code of the queue,    *)
(* which was filled; that is no move of the line.                          *)
LEMMA RetrieveFlows ==
    ASSUME TypeInv, TypeInv', NEW l \in Tpls, DrainRetrieves(l)
    PROVE  Waiting' = Waiting
<1> DEFINE b == Head(fifo)
           c == [NoCall EXCEPT !.item = pool[b], !.status = TRUE]
<1>1. /\ l = Callback /\ code[l].ret = "idle" /\ Runs(l) /\ code'[l].pc = "log"
      /\ code'[l].ret = "release" /\ \A k \in Tpls : k # l => code'[k] = code[k]
  BY DrainTurns DEF DrainStep
<1>2. /\ fifo # << >> /\ fifo' = Tail(fifo) /\ code[l].pc = "drain" /\ Locals(l, c)
      /\ UNCHANGED pool
  BY DEF DrainRetrieves, At
<1>3. \A k \in Tpls : code[k].pc # "fill" /\ code'[k].pc # "fill"
  <2>1. code[Application].pc # "fill"
    BY <1>1, <1>2 DEF TypeInv, Levels, FillOK, Drains
  <2>2. \A k \in Tpls : k > l => code[k].pc = "idle"
    BY <1>1 DEF Runs, Active
  <2> QED BY <1>1, <1>2, <2>1, <2>2 DEF Tpls, Application, Callback, High
<1>4. c.item = pool[b]
  BY DEF NoCall
<1> HIDE DEF c
<1>5. call'[Callback].item = pool[b]
  BY <1>1, <1>2, <1>4, LocalsEffect
<1>6. \A x : ContentIn(code, report, pool, x) = pool[x]
             /\ ContentIn(code', report', pool', x) = pool[x]
  BY <1>2, <1>3, ContentFilled
<1> DEFINE s == [j \in DOMAIN fifo |-> CodeOf(pool[fifo[j]])]
           S == {CodeOf(pool[fifo[j]]) : j \in DOMAIN fifo} \cup {CodeOf(call[Callback].item)}
<1>7. s \in Seq(S) /\ s # << >> /\ Len(s) = Len(fifo) /\ CodeOf(call[Callback].item) \in S
  BY <1>2, SeqTypes
<1>8. /\ Head(s) = CodeOf(pool[b])
      /\ Tail(s) = [j \in DOMAIN Tail(fifo) |-> CodeOf(pool[Tail(fifo)[j]])]
  <2>1. b = fifo[1] /\ 1 \in DOMAIN fifo
    BY <1>2, SeqTypes
  <2>2. Head(s) = CodeOf(pool[b])
    BY <1>7, <2>1
  <2>3. /\ DOMAIN Tail(fifo) = 1 .. Len(fifo) - 1
        /\ \A j \in 1 .. Len(fifo) - 1 : j + 1 \in DOMAIN fifo /\ Tail(fifo)[j] = fifo[j + 1]
    BY <1>2, SeqTypes
  <2>4. Tail(s) = [j \in 1 .. Len(fifo) - 1 |-> s[j + 1]]
    BY <1>7
  <2>5. \A j \in 1 .. Len(fifo) - 1 : s[j + 1] = CodeOf(pool[Tail(fifo)[j]])
    BY <2>3
  <2> HIDE DEF s
  <2> QED BY <2>2, <2>3, <2>4, <2>5
<1>9. Coming = s /\ Coming' = Tail(s)
  BY <1>2, <1>6, <1>8 DEF Coming, CodesIn
<1>10. Waiting = Line(FALSE, CodeOf(call[Callback].item), s)
  BY <1>1, <1>9, WaitingIs DEF Line, Carried
<1>11. Waiting' = Line(TRUE, Head(s), Tail(s))
  <2>1. Carried'
    BY <1>1 DEF Carried, Logging
  <2> HIDE DEF s
  <2> QED BY <1>5, <1>8, <1>9, <2>1, WaitingIsNext DEF Line
<1> HIDE DEF s, S
<1>12. Line(FALSE, CodeOf(call[Callback].item), s) = s /\ Line(TRUE, Head(s), Tail(s)) = s
  BY <1>7, LineMoves
<1> QED BY <1>10, <1>11, <1>12

(* Steps outside the data hub leave the log alone.                         *)
LEMMA LoggedKept ==
    ASSUME UNCHANGED hub
    PROVE  Logged' = Logged
  BY DEF hub, Logged, StatusRecords

(* The steps of the notify function of the log.                            *)
LEMMA DrainFlows ==
    ASSUME TypeInv, TypeInv', NEW l \in Tpls, DrainStep(l)
    PROVE  Flows
<1>1. /\ l = Callback /\ code[l].ret = "idle" /\ \A k \in Tpls : k # l => code'[k] = code[k]
      /\ code[l].pc # "fill"
      /\ ~DrainRetrieves(l) => code'[l].pc \in {"drain", "end", "idle"}
  BY DrainTurns DEF DrainStep, DrainBegins, DrainRetrieves, DrainReleases, DrainEmpty,
     DrainEnds, At
<1>2. CASE DrainRetrieves(l)
  BY <1>2, RetrieveFlows, LoggedKept DEF Flows, DrainRetrieves, hub
<1>3. CASE ~DrainRetrieves(l)
  <2>1. UNCHANGED << hub, call, pool, fifo >> /\ (report' = report \/ Note(l, NoReport))
    BY <1>3 DEF DrainStep, DrainBegins, DrainReleases, DrainEmpty, DrainEnds, rest, buffers
  <2>2. \A k \in Tpls : k # l => report'[k] = report[k]
    BY <2>1, SeqTypes DEF Note
  <2>3. Coming' = Coming
    BY <1>1, <1>3, <2>1, <2>2, ComingKept
  <2>4. Carried' <=> Carried
    BY <1>1, <1>3 DEF Carried, Logging
  <2> QED BY <2>1, <2>3, <2>4, CarriedKept, LoggedKept DEF Flows
<1> QED BY <1>2, <1>3

(* The steps of reports leave alone what is carried.                       *)
LEMMA AsideCarried ==
    ASSUME TypeInv, NEW l \in Tpls, NEW q, Aside(l, q)
    PROVE  (Carried' <=> Carried) /\ UNCHANGED << hub, call >>
<1>1. /\ Held' <=> Held
      /\ code[l].pc \in ReportPCs \cup {"replay", "idle", "got"}
      /\ \A k \in Tpls : k # l => code'[k] = code[k]
  BY AsideKeeps
<1>2. UNCHANGED << hub, call >>
  <2>1. CASE Plain(l)
    BY <2>1, PlainSteps
  <2>2. CASE GrowFails(l) \/ AskReport(l, q) \/ HandlerReports(l, q)
    BY <2>2 DEF GrowFails, AskReport, HandlerReports
  <2> QED BY <2>1, <2>2 DEF Aside, Plain, ReportStep
<1>3. Callback \in Tpls
  BY DEF Tpls, Application, Callback, High
<1>4. CASE l = Callback
  <2>1. code[l].ret # "release" /\ code[l].pc # "release"
    BY <1>1, <1>4 DEF TypeInv, Levels, Frames, FrameOK, WorkPCs, ReportPCs, LogPCs
  <2> QED BY <1>1, <1>2, <1>4, <2>1 DEF Held, Carried
<1>5. CASE l # Callback
  BY <1>1, <1>2, <1>3, <1>5 DEF Carried
<1> QED BY <1>4, <1>5

(* A buffer is filled: with the code it counted for all along.             *)
LEMMA FillKeepsComing ==
    ASSUME TypeInv, NEW l \in Tpls, Fill(l)
    PROVE  Coming' = Coming
<1> DEFINE b == report[l].buf
           g == Filled(pool[b], report[l].item)
<1>1. /\ pool' = [pool EXCEPT ![b] = g] /\ Goto(l, "signal") /\ code[l].pc = "fill"
      /\ UNCHANGED fifo
  BY DEF Fill, At
<1>2. FillsAlone(code, l)
  BY <1>1, OneFills DEF WorkPCs
<1>3. code'[l].pc = "signal" /\ \A k \in Tpls : k # l => code'[k] = code[k]
  BY <1>1, CodeEffect
<1>4. \A k \in Tpls : code'[k].pc # "fill"
  BY <1>2, <1>3 DEF FillsAlone
<1>5. ASSUME NEW j \in DOMAIN fifo
      PROVE  CodeOf(ContentIn(code', report', pool', fifo[j]))
             = CodeOf(ContentIn(code, report, pool, fifo[j]))
  <2>1. ContentIn(code', report', pool', fifo[j]) = pool'[fifo[j]]
    BY <1>4, ContentFilled
  <2>2. ContentIn(code, report, pool, fifo[j])
        = IF b = fifo[j] THEN report[l].item ELSE pool[fifo[j]]
    BY <1>2, ContentFilling
  <2>3. fifo[j] \in DOMAIN pool /\ pool[fifo[j]] \in Items /\ report[l].item \in Items
    BY SeqTypes
  <2>4. CASE b = fifo[j]
    <3>1. pool'[fifo[j]] = g
      BY <1>1, <2>3, <2>4
    <3>2. g.id = report[l].item.id /\ g.class = report[l].item.class
      BY <2>3, <2>4, FilledType
    <3> QED BY <2>1, <2>2, <2>4, <3>1, <3>2 DEF CodeOf
  <2>5. CASE b # fifo[j]
    <3>1. pool'[fifo[j]] = pool[fifo[j]]
      BY <1>1, <2>3, <2>5
    <3> QED BY <2>1, <2>2, <2>5, <3>1
  <2> QED BY <2>4, <2>5
<1> QED BY <1>1, <1>5 DEF Coming, CodesIn

(* A buffer joins the queue: it counts for the code of the report that     *)
(* took it.                                                                *)
LEMMA JoinsComing ==
    ASSUME TypeInv, NEW l \in Tpls, NEW b,
           fifo' = Append(fifo, b), Note(l, [report[l] EXCEPT !.buf = b]),
           \A j \in DOMAIN fifo : fifo[j] # b /\ pool'[fifo[j]] = pool[fifo[j]],
           code[l].pc \in WorkPCs \ {"fill"}, Goto(l, "fill")
    PROVE  Coming' = Append(Coming, CodeOf(report[l].item))
<1>1. code'[l].pc = "fill" /\ \A k \in Tpls : k # l => code'[k] = code[k]
  BY CodeEffect
<1>2. report'[l].buf = b /\ report'[l].item = report[l].item
  BY SeqTypes DEF Note, ReportType
<1>3. \A k \in Tpls : code[k].pc # "fill"
  <2>1. \A k \in Tpls : code[k].pc = "fill" => k = l
    BY OneFills
  <2> QED BY <2>1
<1>4. FillsAlone(code', l)
  BY <1>1, <1>3 DEF FillsAlone
<1>5. \A x : /\ ContentIn(code, report, pool, x) = pool[x]
             /\ ContentIn(code', report', pool', x) = IF b = x THEN report[l].item ELSE pool'[x]
  BY <1>2, <1>3, <1>4, ContentFilled, ContentFilling
<1> DEFINE n == Len(fifo)
           s == [j \in 1 .. n |-> CodeOf(pool[fifo[j]])]
           c == CodeOf(report[l].item)
           t == Append(s, c)
           f == Append(fifo, b)
<1>6. n \in Nat /\ DOMAIN fifo = 1 .. n /\ DOMAIN f = 1 .. n + 1 /\ f[n + 1] = b
      /\ \A j \in 1 .. n : f[j] = fifo[j]
  BY SeqTypes
<1>7. DOMAIN t = 1 .. n + 1 /\ t[n + 1] = c /\ \A j \in 1 .. n : t[j] = CodeOf(pool[fifo[j]])
  BY <1>6
<1>8. Coming = s
  BY <1>5, <1>6 DEF Coming, CodesIn
<1>9. Coming' = [j \in 1 .. n + 1 |-> CodeOf(ContentIn(code', report', pool', f[j]))]
  BY <1>6 DEF Coming, CodesIn
<1>10. t = [j \in DOMAIN t |-> t[j]]
  BY <1>6
<1> HIDE DEF f, t, n
<1>11. \A j \in 1 .. n + 1 : CodeOf(ContentIn(code', report', pool', f[j])) = t[j]
  <2> TAKE j \in 1 .. n + 1
  <2>1. CASE j \in 1 .. n
    <3>1. f[j] = fifo[j] /\ fifo[j] # b /\ pool'[fifo[j]] = pool[fifo[j]]
      BY <1>6, <2>1
    <3> QED BY <1>5, <1>7, <2>1, <3>1
  <2>2. CASE j = n + 1
    BY <1>5, <1>6, <1>7, <2>2
  <2> QED BY <1>6, <2>1, <2>2
<1>12. Coming' = t
  BY <1>7, <1>9, <1>11, <1>10
<1> QED BY <1>8, <1>12 DEF t

(* A step at which a code joins the queue.                                 *)
LEMMA JoinsLine ==
    ASSUME TypeInv, TypeInv', Owned, NEW l \in Tpls, Acquire(l) \/ Grow(l)
    PROVE  Joins(l)
<1> DEFINE c == CodeOf(report[l].item)
<1>1. Coming' = Append(Coming, c)
  <2>1. CASE Acquire(l)
    <3>1. /\ fifo' = Append(fifo, Head(free)) /\ Note(l, [report[l] EXCEPT !.buf = Head(free)])
          /\ pool' = pool /\ code[l].pc \in WorkPCs \ {"fill"} /\ Goto(l, "fill")
          /\ free # << >>
      BY <2>1 DEF Acquire, At, WorkPCs
    <3>2. \A j \in DOMAIN fifo : fifo[j] # Head(free)
      BY <3>1, QueuedOnce
    <3> QED BY <3>1, <3>2, JoinsComing
  <2>2. CASE Grow(l)
    <3> DEFINE first == Len(pool) + 1
               fresh == [j \in 1 .. Batch |-> NoItem]
    <3>1. /\ fifo' = Append(fifo, first) /\ Note(l, [report[l] EXCEPT !.buf = first])
          /\ pool' = pool \o fresh /\ code[l].pc \in WorkPCs \ {"fill"} /\ Goto(l, "fill")
      BY <2>2 DEF Grow, At, WorkPCs
    <3>2. fresh \in Seq(Items) /\ Len(fresh) \in Nat
      BY NoCallType, StatusCodeAssumption
    <3> HIDE DEF fresh
    <3>3. \A i \in 1 .. Len(pool) + Len(fresh) :
             (pool \o fresh)[i] = IF i <= Len(pool) THEN pool[i] ELSE fresh[i - Len(pool)]
      BY <3>2, SeqTypes, ConcatProperties
    <3>4. \A i \in DOMAIN pool : pool'[i] = pool[i] /\ i # first
      BY <3>1, <3>2, <3>3, SeqTypes
    <3>5. \A j \in DOMAIN fifo : fifo[j] # first /\ pool'[fifo[j]] = pool[fifo[j]]
      BY <3>4, SeqTypes
    <3> HIDE DEF first
    <3> QED BY <3>1, <3>5, JoinsComing
  <2> QED BY <2>1, <2>2
<1>2. (Carried' <=> Carried) /\ UNCHANGED << hub, call >>
  BY AsideCarried DEF Aside, ReportStep
<1>3. PICK S : Coming \in Seq(S) /\ CodeOf(call[Callback].item) \in S
  BY ComingType
<1> DEFINE x == CodeOf(call[Callback].item)
           T == S \cup {c}
<1>4. Coming \in Seq(T) /\ x \in T /\ c \in T
  <2>1. S \subseteq T
    OBVIOUS
  <2> QED BY <1>3, <2>1, SeqMonotonic
<1>5. Waiting = Line(Carried, x, Coming)
  BY WaitingIs
<1>6. Waiting' = Line(Carried, x, Append(Coming, c))
  BY <1>1, <1>2, WaitingIsNext DEF Line
<1> HIDE DEF T, c, x
<1>7. Line(Carried, x, Append(Coming, c)) = Append(Line(Carried, x, Coming), c)
  <2>1. CASE Carried
    <3>1. Line(TRUE, x, Append(Coming, c)) = Append(Line(TRUE, x, Coming), c)
      BY <1>4, LineAppends
    <3> QED BY <2>1, <3>1 DEF Line
  <2>2. CASE ~Carried
    <3>1. Line(FALSE, x, Append(Coming, c)) = Append(Line(FALSE, x, Coming), c)
      BY <1>4, LineAppends
    <3> QED BY <2>2, <3>1 DEF Line
  <2> QED BY <2>1, <2>2
<1>8. Waiting' = Append(Waiting, c)
  BY <1>5, <1>6, <1>7
<1>9. Logged' = Logged
  BY <1>2, LoggedKept
<1> QED BY <1>8, <1>9 DEF Joins, c

(* The steps of reports: a code joins the line, or it does not move.       *)
LEMMA AsideFlows ==
    ASSUME TypeInv, TypeInv', Owned, NEW l \in Tpls, NEW q, Aside(l, q)
    PROVE  Flows \/ Joins(l)
<1>1. (Carried' <=> Carried) /\ UNCHANGED << hub, call >>
  BY AsideCarried
<1>2. /\ code[l].pc \in ReportPCs \cup {"replay", "idle", "got"}
      /\ \A k \in Tpls : k # l => code'[k] = code[k] /\ report'[k] = report[k]
  BY AsideKeeps
<1>3. CASE Acquire(l) \/ Grow(l)
  BY <1>3, JoinsLine
<1>4. CASE Fill(l)
  BY <1>1, <1>4, FillKeepsComing, CarriedKept, LoggedKept DEF Flows
<1>5. CASE ~Acquire(l) /\ ~Grow(l) /\ ~Fill(l)
  <2>1. UNCHANGED << pool, fifo >> /\ code[l].pc # "fill"
    <3>1. CASE ReportStep(l) \/ ReplayRecord(l) \/ ReplayEnds(l)
      BY <1>5, <3>1 DEF ReportStep, ReportNested, ReportBegins, RingTakes, RingSaves, HubRefuses,
         HubTakes, AcquireRefused, GrowFails, SignalLog, ReportEnds, ReplayRecord, ReplayEnds, At,
         rest, buffers
    <3>2. CASE AskReport(l, q) \/ HandlerReports(l, q)
      BY <3>2 DEF AskReport, HandlerReports, At, CanStart, Below, Active, Tpls, buffers
    <3> QED BY <3>1, <3>2 DEF Aside
  <2>2. code'[l].pc # "fill"
    <3>1. ASSUME NEW p, p # "fill", Goto(l, p) \/ Start(l, p) PROVE code'[l].pc # "fill"
      BY <3>1, CodeEffect
    <3>2. ASSUME Back(l) PROVE code'[l].pc # "fill"
      <4>1. code'[l].pc = code[l].ret
        BY <3>2, CodeEffect
      <4>2. code[l].ret # "fill"
        BY DEF TypeInv, Levels, Frames, CodeType
      <4> QED BY <4>1, <4>2
    <3>3. CASE ReportBegins(l) \/ RingTakes(l) \/ RingSaves(l) \/ HubRefuses(l) \/ HubTakes(l)
      BY <3>1, <3>3 DEF ReportBegins, RingTakes, RingSaves, HubRefuses, HubTakes
    <3>4. CASE GrowFails(l) \/ SignalLog(l) \/ AskReport(l, q)
      BY <3>1, <3>4 DEF GrowFails, SignalLog, AskReport
    <3>5. CASE AcquireRefused(l)
      <4>1. \E p \in {"done", "grow"} : Goto(l, p)
        BY <3>5 DEF AcquireRefused
      <4> QED BY <3>1, <4>1
    <3>6. CASE ReportNested(l) \/ ReportEnds(l) \/ ReplayEnds(l)
      BY <3>2, <3>6 DEF ReportNested, ReportEnds, ReplayEnds
    <3>7. CASE ReplayRecord(l) \/ HandlerReports(l, q)
      <4>1. \E p \in {"ring", "report"}, r \in Rets : Call(l, p, r)
        BY <3>7 DEF ReplayRecord, HandlerReports, Rets
      <4> QED BY <4>1, CallTurns DEF Turns, TypeInv, Levels, PCs
    <3> QED BY <1>5, <3>3, <3>4, <3>5, <3>6, <3>7 DEF Aside, ReportStep
  <2>3. Coming' = Coming
    BY <1>2, <2>1, <2>2, ComingKept
  <2> QED BY <1>1, <2>3, CarriedKept, LoggedKept DEF Flows
<1> QED BY <1>3, <1>4, <1>5

(* The other steps start a function of this driver at most.                *)
LEMMA OtherMoves ==
    ASSUME TypeInv,
           \/ NotifyLog \/ StartDriver \/ ExitBootServices \/ DataHubInstall
           \/ \E class \in Classes : PeiReport(class)
           \/ UNCHANGED vars
    PROVE  /\ UNCHANGED << hub, call, pool, fifo, report >>
           /\ \E l \in Tpls : /\ code[l].pc = "idle" \/ code'[l] = code[l]
                              /\ code'[l].pc \in {"begin", "replay"} \/ code'[l] = code[l]
                              /\ \A k \in Tpls : k # l => code'[k] = code[k]
<1>1. UNCHANGED << hub, call, pool, fifo, report >>
  BY DEF NotifyLog, StartDriver, ExitBootServices, DataHubInstall, PeiReport, vars, rest, buffers,
     boot
<1>2. CASE NotifyLog
  BY <1>1, <1>2, CodeEffect DEF NotifyLog, Below, Active, Tpls, Application, Callback, High
<1>3. CASE StartDriver
  BY <1>1, <1>3, CodeEffect DEF StartDriver, CanStart, Below, Active, Tpls, Application, High
<1>4. CASE \/ ExitBootServices \/ DataHubInstall \/ UNCHANGED vars
           \/ \E class \in Classes : PeiReport(class)
  <2>1. UNCHANGED code
    BY <1>4 DEF ExitBootServices, DataHubInstall, PeiReport, vars
  <2>2. Application \in Tpls
    BY DEF Tpls, Application, High
  <2> QED BY <1>1, <2>1, <2>2
<1> QED BY <1>2, <1>3, <1>4

(* So they leave line and log alone.                                       *)
LEMMA OtherFlows ==
    ASSUME TypeInv, TypeInv',
           \/ NotifyLog \/ StartDriver \/ ExitBootServices \/ DataHubInstall
           \/ \E class \in Classes : PeiReport(class)
           \/ UNCHANGED vars
    PROVE  Flows
<1>1. UNCHANGED << hub, call, pool, fifo, report >>
  BY OtherMoves
<1>2. PICK l \in Tpls : /\ code[l].pc = "idle" \/ code'[l] = code[l]
                        /\ code'[l].pc \in {"begin", "replay"} \/ code'[l] = code[l]
                        /\ \A k \in Tpls : k # l => code'[k] = code[k]
  BY OtherMoves
<1>3. \A k \in Tpls : code'[k].pc = "fill" <=> code[k].pc = "fill"
  BY <1>2
<1>4. Callback \in Tpls
  BY DEF Tpls, Application, Callback, High
<1>5. Carried' <=> Carried
  BY <1>2, <1>4 DEF Carried, Logging
<1>6. Coming' = Coming
  BY <1>1, <1>3, ComingKept
<1> QED BY <1>1, <1>5, <1>6, CarriedKept, LoggedKept DEF Flows

(* Every step moves the line as a conduit may.                             *)
LEMMA StepFlows ==
    ASSUME TypeInv, TypeInv', Owned, StatusLocal, [Next]_vars
    PROVE  Flows \/ \E l \in Tpls : Joins(l)
  BY HubFlows, DrainFlows, AsideFlows, OtherFlows, NextCases

(* What is under way and what is logged was accepted.                      *)
LEMMA NumbersAccepted ==
    ASSUME TypeInv, ItemsOK, StatusLocal
    PROVE  Numbers(Waiting, Logged) \subseteq DOMAIN reported
<1>1. ASSUME NEW j \in DOMAIN Waiting PROVE Waiting[j].id \in DOMAIN reported
  <2>1. ASSUME NEW k \in DOMAIN fifo
        PROVE  ContentIn(code, report, pool, fifo[k]).id \in DOMAIN reported
    <3>1. CASE \E l \in Tpls : code[l].pc = "fill"
      <4>1. PICK l \in Tpls : code[l].pc = "fill"
        BY <3>1
      <4>2. FillsAlone(code, l)
        BY <4>1, OneFills DEF WorkPCs
      <4>3. ContentIn(code, report, pool, fifo[k])
            = IF report[l].buf = fifo[k] THEN report[l].item ELSE pool[fifo[k]]
        BY <4>2, ContentFilling
      <4>4. Same(report[l].item, reported)
        BY <4>1 DEF ItemsOK, ReportsOK, Reporting, WorkPCs
      <4>5. Good(pool[fifo[k]], reported) \/ report[l].buf = fifo[k]
        BY <4>2 DEF ItemsOK, QueueOK, Filling, FillsAlone
      <4> QED BY <4>3, <4>4, <4>5 DEF Same, Good
    <3>2. CASE \A l \in Tpls : code[l].pc # "fill"
      <4>1. ContentIn(code, report, pool, fifo[k]) = pool[fifo[k]]
        BY <3>2, ContentFilled
      <4> QED BY <3>2, <4>1 DEF ItemsOK, QueueOK, Filling, Good
    <3> QED BY <3>1, <3>2
  <2>2. Carried => call[Callback].item.id \in DOMAIN reported
    BY DEF Carried, StatusLocal, ItemsOK, LocalsOK, Good, Tpls, Application, Callback, High
  <2> DEFINE x == CodeOf(call[Callback].item)
             S == {c \in {CodeOf(ContentIn(code, report, pool, fifo[k])) : k \in DOMAIN fifo}
                         \cup {x} : c.id \in DOMAIN reported}
             Q == {CodeOf(ContentIn(code, report, pool, fifo[k])) : k \in DOMAIN fifo}
  <2>3. \A c \in Q : c.id \in DOMAIN reported
    BY <2>1 DEF CodeOf
  <2>4. Carried => x.id \in DOMAIN reported
    BY <2>2 DEF CodeOf
  <2>5. Coming \in Seq(Q)
    BY SeqTypes DEF Coming, CodesIn
  <2>6. Waiting = Line(Carried, x, Coming)
    BY WaitingIs
  <2> HIDE DEF Q, x
  <2>7. CASE Carried
    <3>1. Waiting = << x >> \o Coming
      BY <2>6, <2>7 DEF Line
    <3>2. Waiting \in Seq(Q \cup {x})
      BY <2>5, <3>1
    <3>3. Waiting[j] \in Q \cup {x}
      BY <3>2
    <3> QED BY <2>3, <2>4, <2>7, <3>3
  <2>8. CASE ~Carried
    <3>1. Waiting = Coming
      BY <2>5, <2>6, <2>8, ConcatEmptySeq DEF Line
    <3> QED BY <2>3, <2>5, <3>1
  <2> QED BY <2>7, <2>8
<1>2. ASSUME NEW j \in DOMAIN Logged PROVE Logged[j].id \in DOMAIN reported
  <2>1. Logged[j] = CodeOf(StatusRecords[j].item) /\ j \in DOMAIN StatusRecords
        /\ StatusRecords \in Seq({r \in Elements(records) : r.status})
    BY StatusRecordsType
  <2>2. StatusRecords[j] \in {r \in Elements(records) : r.status}
    BY <2>1
  <2>3. PICK k \in DOMAIN records : StatusRecords[j] = records[k] /\ records[k].status
    BY <2>2 DEF Elements
  <2> QED BY <2>1, <2>3 DEF CodeOf, ItemsOK, LoggedOK, Good
<1> QED BY <1>1, <1>2 DEF Numbers

(* The numbers that are under way or logged; all are below n.              *)
Known == Numbers(Waiting, Logged)
Older(n) == \A m \in Known : m < n
(* The phases in which the codes of the PEI phase are still to come, and   *)
(* a report whose code is not in line yet.                                 *)
Early == phase \in {"pei", "replay"}
YoungPCs == {"ring", "save", "check", "acquire", "grow"}

(* Codes have classes that a record may have.                              *)
ClassOK ==
    /\ \A n \in DOMAIN reported : reported[n].class \in Classes
    /\ \A l \in Tpls : code[l].pc = "report" => report[l].item.class \in Classes
(* Nothing is reported to this driver before it is there.                  *)
PeiOK == phase = "pei" => \A l \in Tpls : code[l].pc \notin ReportPCs
(* The ring of the PEI phase has not wrapped: it holds all of its codes,   *)
(* in order.                                                               *)
HandOff ==
    /\ Early => /\ Len(reported) = MaxRecordNumber
                /\ \A j \in 0 .. MaxRecordNumber - 1 : hob.slots[j].id = j + 1
    /\ phase = "pei" => left.handoff + Len(reported) <= MaxRecords /\ replayed = 0
(* A code that is to join the line is newer than those in line and in the  *)
(* log.                                                                    *)
NewOK ==
    /\ Early => Older(replayed + 1)
    /\ \A l \in Tpls : code[l].pc \in YoungPCs => Older(report[l].item.id)
    /\ phase = "replay" => \A l \in Tpls : Reporting(l) => report[l].item.id = replayed
OrderOK == StatusLocal /\ ClassOK /\ PeiOK /\ HandOff /\ NewOK

-----------------------------------------------------------------------------
(* Where the steps of reports lead, and with which code.                   *)
LEMMA AsideGoes ==
    ASSUME TypeInv, NEW l \in Tpls, NEW q, Aside(l, q)
    PROVE  \/ /\ ReportBegins(l) /\ code[l].pc = "report" /\ code'[l].pc = "ring"
              /\ report'[l].item = Numbered(report[l].item)
              /\ reported' = Append(reported, Numbered(report[l].item))
              /\ UNCHANGED << phase, hob, replayed, left >>
           \/ /\ ReplayRecord(l) /\ code'[l].pc = "ring" /\ report'[l].item = hob.slots[replayed]
              /\ replayed < MaxRecordNumber /\ replayed' = replayed + 1 /\ phase = "replay"
              /\ UNCHANGED << phase, hob, left, reported >>
           \/ /\ q \in Reports /\ code'[l].pc = "report" /\ report'[l].item = Item(q)
              /\ phase \in {"boot", "runtime"} /\ UNCHANGED << phase, reported >>
           \/ /\ ReplayEnds(l) /\ phase' = "boot" /\ code'[l].pc \in Rets
              /\ UNCHANGED reported
           \/ /\ code[l].pc \in ReportPCs /\ left'.handoff = left.handoff
              /\ UNCHANGED << phase, hob, replayed, reported >>
              /\ \/ code'[l].pc \in Rets
                 \/ /\ code[l].pc \in WorkPCs /\ code'[l].pc \in WorkPCs
                    /\ report'[l].item = report[l].item
                    /\ code'[l].pc \in YoungPCs => code[l].pc \in YoungPCs
<1> USE DEF WorkPCs, ReportPCs, YoungPCs, Rets, At
<1>1. /\ report[l] \in ReportType /\ report \in [Tpls -> ReportType]
      /\ code[l].ret \in Rets
  BY DEF TypeInv, StoreOK, StoreType, Levels, Frames, CodeType
<1>2. ASSUME NEW r, Note(l, r) PROVE report'[l] = r
  BY <1>1, <1>2 DEF Note
<1>3. CASE ReportBegins(l)
  <2> DEFINE item == Numbered(report[l].item)
             r == [report[l] EXCEPT !.item = item]
  <2>1. r.item = item
    BY <1>1 DEF ReportType
  <2>2. /\ Note(l, r) /\ Goto(l, "ring") /\ code[l].pc = "report"
        /\ reported' = Append(reported, item) /\ UNCHANGED << phase, hob, replayed, left >>
    BY <1>3 DEF ReportBegins, boot
  <2> HIDE DEF item, r
  <2> QED BY <1>2, <1>3, <2>1, <2>2, CodeEffect DEF item
<1>4. CASE ReplayRecord(l)
  <2> DEFINE r == [NoReport EXCEPT !.item = hob.slots[replayed]]
  <2>1. r.item = hob.slots[replayed]
    BY DEF NoReport
  <2>2. /\ Note(l, r) /\ Call(l, "ring", "replay") /\ code[l].pc = "replay"
        /\ replayed < MaxRecordNumber /\ replayed' = replayed + 1
        /\ UNCHANGED << phase, hob, left, reported >>
    BY <1>4 DEF ReplayRecord
  <2> HIDE DEF r
  <2>3. code'[l].pc = "ring"
    BY <2>2, CallTurns DEF Turns, TypeInv, Levels, PCs, Rets
  <2>4. phase = "replay"
    BY <2>2 DEF TypeInv, Levels, PhaseOK
  <2> QED BY <1>2, <1>4, <2>1, <2>2, <2>3, <2>4
<1>5. CASE q \in Reports /\ (AskReport(l, q) \/ HandlerReports(l, q))
  <2> DEFINE r == [NoReport EXCEPT !.item = Item(q)]
  <2>1. r.item = Item(q)
    BY DEF NoReport
  <2>2. /\ Note(l, r) /\ (Start(l, "report") \/ Call(l, "report", "got"))
        /\ phase \in {"boot", "runtime"} /\ UNCHANGED << phase, reported >>
    BY <1>5 DEF AskReport, HandlerReports, boot
  <2> HIDE DEF r
  <2>3. code'[l].pc = "report"
    BY <2>2, CodeEffect, CallTurns DEF Turns, TypeInv, Levels, PCs, Rets
  <2> QED BY <1>2, <1>5, <2>1, <2>2, <2>3
<1>6. CASE ReplayEnds(l)
  <2>1. Back(l) /\ phase' = "boot" /\ UNCHANGED reported
    BY <1>6 DEF ReplayEnds
  <2> QED BY <1>1, <1>6, <2>1, CodeEffect
<1>7. CASE ReportNested(l) \/ ReportEnds(l)
  <2>1. Back(l) /\ code[l].pc \in ReportPCs /\ UNCHANGED << left, phase, hob, replayed, reported >>
    BY <1>7 DEF ReportNested, ReportEnds, boot
  <2> QED BY <1>1, <2>1, CodeEffect
<1>8. ASSUME NEW p \in WorkPCs, Goto(l, p), code[l].pc \in WorkPCs,
             p \in YoungPCs => code[l].pc \in YoungPCs, report'[l].item = report[l].item,
             left'.handoff = left.handoff, UNCHANGED << phase, hob, replayed, reported >>
      PROVE  /\ code[l].pc \in ReportPCs /\ left'.handoff = left.handoff
             /\ UNCHANGED << phase, hob, replayed, reported >>
             /\ code[l].pc \in WorkPCs /\ code'[l].pc \in WorkPCs
             /\ report'[l].item = report[l].item
             /\ code'[l].pc \in YoungPCs => code[l].pc \in YoungPCs
  BY <1>8, CodeEffect
<1>9. CASE RingTakes(l)
  <2> DEFINE r == [report[l] EXCEPT !.slot = ring.index]
  <2>1. r.item = report[l].item
    BY <1>1 DEF ReportType
  <2>2. Note(l, r) /\ Goto(l, "save") /\ code[l].pc = "ring"
        /\ UNCHANGED << left, phase, hob, replayed, reported >>
    BY <1>9 DEF RingTakes, boot
  <2> HIDE DEF r
  <2> QED BY <1>2, <1>8, <2>1, <2>2
<1>10. CASE \/ RingSaves(l) \/ HubRefuses(l) \/ HubTakes(l) \/ AcquireRefused(l)
            \/ Fill(l) \/ SignalLog(l)
  <2>1. UNCHANGED << report, left, phase, hob, replayed, reported >>
    BY <1>10 DEF RingSaves, HubRefuses, HubTakes, AcquireRefused, Fill, SignalLog, rest, boot
  <2>2. PICK p \in WorkPCs : Goto(l, p) /\ code[l].pc \in WorkPCs
                             /\ (p \in YoungPCs => code[l].pc \in YoungPCs)
    BY <1>10 DEF RingSaves, HubRefuses, HubTakes, AcquireRefused, Fill, SignalLog
  <2> QED BY <1>8, <2>1, <2>2
<1>11. CASE GrowFails(l)
  <2>1. left'.handoff = left.handoff
    <3>1. left \in LeftType /\ left' = [left EXCEPT !.failures = @ - 1]
      BY <1>11 DEF GrowFails, TypeInv, HubOK, HubType
    <3> QED BY <3>1 DEF LeftType
  <2>2. /\ Goto(l, "done") /\ code[l].pc = "grow"
        /\ UNCHANGED << report, phase, hob, replayed, reported >>
    BY <1>11 DEF GrowFails, rest, boot
  <2> QED BY <1>8, <2>1, <2>2
<1>12. CASE Acquire(l) \/ Grow(l)
  <2>1. PICK b : Note(l, [report[l] EXCEPT !.buf = b]) /\ Goto(l, "fill")
                 /\ code[l].pc \in {"acquire", "grow"}
                 /\ UNCHANGED << left, phase, hob, replayed, reported >>
    BY <1>12 DEF Acquire, Grow, boot
  <2> DEFINE r == [report[l] EXCEPT !.buf = b]
  <2>2. r.item = report[l].item
    BY <1>1 DEF ReportType
  <2> HIDE DEF r
  <2>3. Note(l, r)
    BY <2>1 DEF r
  <2> QED BY <1>2, <1>8, <2>1, <2>2, <2>3
<1> QED BY <1>3, <1>4, <1>5, <1>6, <1>7, <1>9, <1>10, <1>11, <1>12 DEF Aside, ReportStep

(* Line and log are sequences.                                             *)
LEMMA LineType ==
    ASSUME TypeInv
    PROVE  \E S : Waiting \in Seq(S) /\ Logged \in Seq(S)
<1>1. PICK S : Coming \in Seq(S) /\ CodeOf(call[Callback].item) \in S
  BY ComingType
<1> DEFINE x == CodeOf(call[Callback].item)
           Q == {CodeOf(r.item) : r \in Elements(records)}
           T == S \cup Q
<1>2. Waiting = Line(Carried, x, Coming)
  BY WaitingIs
<1> HIDE DEF x
<1>3. Waiting \in Seq(S)
  <2>1. CASE Carried
    <3>1. Line(TRUE, x, Coming) \in Seq(S)
      BY <1>1, LineMoves DEF x
    <3> QED BY <1>2, <2>1, <3>1 DEF Line
  <2>2. CASE ~Carried
    BY <1>1, <1>2, <2>2, ConcatEmptySeq DEF Line
  <2> QED BY <2>1, <2>2
<1>4. Logged \in Seq(Q)
  <2>1. /\ StatusRecords \in Seq({r \in Elements(records) : r.status})
        /\ Logged = [j \in DOMAIN StatusRecords |-> CodeOf(StatusRecords[j].item)]
    BY StatusRecordsType DEF Logged
  <2> DEFINE s == StatusRecords
  <2> HIDE DEF s
  <2>2. s \in Seq({r \in Elements(records) : r.status})
    BY <2>1 DEF s
  <2>3. \A j \in DOMAIN s : s[j] \in Elements(records)
    BY <2>2
  <2>4. \A j \in DOMAIN s : CodeOf(s[j].item) \in Q
    BY <2>3
  <2> HIDE DEF Q
  <2>5. [j \in DOMAIN s |-> CodeOf(s[j].item)] \in Seq(Q)
    BY <2>2, <2>4
  <2> QED BY <2>1, <2>5 DEF s
<1>5. S \subseteq T /\ Q \subseteq T
  OBVIOUS
<1> HIDE DEF Q, T
<1>6. Waiting \in Seq(T) /\ Logged \in Seq(T)
  BY <1>3, <1>4, <1>5, SeqMonotonic
<1> QED BY <1>6

(* Nothing new is known when the line only flows, ...                      *)
LEMMA FlowsKnown ==
    ASSUME TypeInv, Flows
    PROVE  Known' \subseteq Known
<1>1. PICK S : Waiting \in Seq(S) /\ Logged \in Seq(S)
  BY LineType
<1>2. Known' = Numbers(Waiting', Logged') /\ Known = Numbers(Waiting, Logged)
  BY DEF Known
<1>3. Known' \subseteq Known
  <2>1. CASE Waiting' = Waiting /\ Logged' = Logged
    BY <1>2, <2>1
  <2>2. CASE Waiting # << >> /\ Waiting' = Tail(Waiting)
             /\ (Logged' = Logged \/ Logged' = Append(Logged, Head(Waiting)))
    <3> DEFINE w == Waiting
               d == Logged
    <3>1. w \in Seq(S) /\ w # << >> /\ d \in Seq(S)
      BY <1>1, <2>2
    <3> HIDE DEF w, d
    <3>2. \A j \in DOMAIN Tail(w) : j + 1 \in DOMAIN w /\ Tail(w)[j] = w[j + 1]
      BY <3>1
    <3>3. 1 \in DOMAIN w /\ Head(w) = w[1] /\ Head(w) \in S
      BY <3>1
    <3> DEFINE e == Append(d, Head(w))
    <3>4. \A j \in DOMAIN e : (j \in DOMAIN d /\ e[j] = d[j]) \/ e[j] = w[1]
      BY <3>1, <3>3
    <3> HIDE DEF e
    <3>5. Numbers(Tail(w), d) \subseteq Numbers(w, d) /\ Numbers(Tail(w), e) \subseteq Numbers(w, d)
      BY <3>2, <3>3, <3>4 DEF Numbers
    <3> QED BY <1>2, <2>2, <3>5 DEF w, d, e
  <2> QED BY <2>1, <2>2 DEF Flows
<1> QED BY <1>3

(* ... and when a code joins it, its number is.                            *)
LEMMA JoinsKnown ==
    ASSUME TypeInv, NEW l \in Tpls, Joins(l)
    PROVE  /\ \A n : Older(n) /\ report[l].item.id < n => Older(n)'
           /\ Waiting' # << >> /\ Waiting'[Len(Waiting')] = CodeOf(report[l].item)
<1>1. PICK S : Waiting \in Seq(S) /\ Logged \in Seq(S)
  BY LineType
<1> DEFINE w == Waiting
           d == Logged
           c == CodeOf(report[l].item)
           T == S \cup {c}
           v == Append(w, c)
<1>2. Waiting' = v /\ Logged' = d
  BY DEF Joins
<1>3. w \in Seq(T) /\ c \in T
  <2>1. S \subseteq T
    OBVIOUS
  <2> QED BY <1>1, <2>1, SeqMonotonic
<1> HIDE DEF w, T, c
<1>4. /\ v # << >> /\ v[Len(v)] = c
      /\ \A j \in DOMAIN v : (j \in DOMAIN w /\ v[j] = w[j]) \/ v[j] = c
  BY <1>3
<1> HIDE DEF v
<1>5. c.id = report[l].item.id
  BY DEF c, CodeOf
<1>6. Known' = Numbers(v, d) /\ Known = Numbers(w, d)
  BY <1>2 DEF Known, w
<1>7. Known' \subseteq Known \cup {c.id}
  BY <1>4, <1>6 DEF Numbers
<1> QED BY <1>2, <1>4, <1>5, <1>7 DEF Older, c

-----------------------------------------------------------------------------
(* Whoever logs a status code is the notify function of the log.           *)
LEMMA StatusLocalNext ==
    ASSUME TypeInv, StatusLocal, [Next]_vars
    PROVE  StatusLocal'
<1>1. CASE HubAction
  <2>1. PICK l \in Tpls : HubEffect(l) /\ HubActionAt(l)
    BY <1>1, HubEffects
  <2>2. LogsOn(l)
    BY <2>1, HubLogsOn
  <2> QED BY <2>1, <2>2 DEF HubEffect, LogsOn, StatusLocal
<1>2. CASE \E l \in Tpls : DrainStep(l)
  <2>1. PICK l \in Tpls : DrainStep(l)
    BY <1>2
  <2>2. \A k \in Tpls : k # l => code'[k] = code[k]
    BY <2>1, DrainTurns
  <2>3. CASE DrainRetrieves(l)
    <3> DEFINE c == [NoCall EXCEPT !.item = pool[Head(fifo)], !.status = TRUE]
    <3>1. Locals(l, c)
      BY <2>3 DEF DrainRetrieves
    <3>2. c.status = TRUE
      BY DEF NoCall
    <3> HIDE DEF c
    <3>3. call'[l] = c /\ \A k \in Tpls : k # l => call'[k] = call[k]
      BY <3>1, LocalsEffect
    <3>4. code'[l].ret = "release"
      BY <2>1, <2>3, DrainTurns
    <3> QED BY <2>2, <3>2, <3>3, <3>4 DEF StatusLocal
  <2>4. CASE ~DrainRetrieves(l)
    <3>1. code'[l].pc \in {"drain", "end", "idle"}
      BY <2>1, <2>4, DrainTurns DEF DrainStep
    <3>2. UNCHANGED call
      BY <2>1, <2>4 DEF DrainStep, DrainBegins, DrainReleases, DrainEmpty, DrainEnds
    <3> QED BY <2>2, <3>1, <3>2 DEF StatusLocal, Logging
  <2> QED BY <2>3, <2>4
<1>3. CASE \E l \in Tpls : \E q : Aside(l, q)
  <2>1. PICK l \in Tpls : \E q : Aside(l, q)
    BY <1>3
  <2>2. PICK q : Aside(l, q)
    BY <2>1
  <2>3. UNCHANGED call
    BY <2>2, AsideCarried
  <2>4. /\ \A k \in Tpls : k # l => code'[k] = code[k]
        /\ code[l].ret # "release"
    BY <2>2, AsideKeeps DEF TypeInv, Levels, Frames, FrameOK, ReportPCs, WorkPCs, LogPCs
  <2>5. code'[l].pc \notin Logging
    BY <2>2, AsideGoes DEF Logging, WorkPCs, Rets
  <2> QED BY <2>3, <2>4, <2>5 DEF StatusLocal
<1>4. CASE \/ NotifyLog \/ StartDriver \/ ExitBootServices \/ DataHubInstall
           \/ \E class \in Classes : PeiReport(class)
           \/ UNCHANGED vars
  BY <1>4, OtherMoves DEF StatusLocal, Logging
<1> QED BY <1>1, <1>2, <1>3, <1>4, NextCases

(* What the other steps do to the phase and to what was reported.          *)
LEMMA HubPhase ==
    ASSUME TypeInv, UNCHANGED rest, HubAction
    PROVE  /\ UNCHANGED << phase, hob, replayed, reported, report >>
           /\ left'.handoff = left.handoff
           /\ \A k \in Tpls : \A p \in ReportPCs : code'[k].pc = p <=> code[k].pc = p
<1>1. RestKept
  BY HubActionMoves DEF TypeInv
<1>2. left \in LeftType
  BY DEF TypeInv, HubOK, HubType
<1>3. left'.handoff = left.handoff
  <2>1. ASSUME NEW l \in Tpls, HubStep(l) PROVE left'.handoff = left.handoff
    <3>1. left' = left \/ left' = [left EXCEPT !.failures = @ - 1]
      BY <2>1 DEF HubStep, LogAcquire, LogNoMemory, LogNumber, LogInsert, LogNext, LogSignal,
         ReadFails, ReadFinds, ReadStores, ReadGoesOn, RegisterFinds, RegisterLinks,
         RegisterSignals, UnregisterFinds, UnregisterUnlinks
    <3> QED BY <1>2, <3>1 DEF LeftType
  <2>2. ASSUME NEW l \in Tpls,
               \/ \E class \in Logs : AskLog(l, class)
               \/ \E e \in Filters : AskRegister(l, e) \/ AskUnregister(l, e)
               \/ HandlerUnregisters(l)
        PROVE  left'.handoff = left.handoff
    <3>1. \/ left' = [left EXCEPT !.logs = @ - 1]
          \/ left' = [left EXCEPT !.registers = @ - 1]
          \/ left' = [left EXCEPT !.unregisters = @ - 1]
      BY <2>2 DEF AskLog, AskRegister, AskUnregister, HandlerUnregisters
    <3> QED BY <1>2, <3>1 DEF LeftType
  <2>3. ASSUME NEW e \in Filters, NotifyFilter(e) PROVE left'.handoff = left.handoff
    BY <2>3 DEF NotifyFilter
  <2> QED BY <2>1, <2>2, <2>3 DEF HubAction
<1> QED BY <1>1, <1>3 DEF RestKept, rest, boot

(* The notify function of the log: no phase and no report changes.         *)
LEMMA DrainPhase ==
    ASSUME TypeInv, NEW l \in Tpls, DrainStep(l)
    PROVE  /\ UNCHANGED << phase, hob, replayed, reported, left >>
           /\ code'[l].pc \notin ReportPCs
           /\ \A k \in Tpls : k # l => code'[k] = code[k] /\ report'[k] = report[k]
<1>1. UNCHANGED << phase, hob, replayed, reported, left >>
  BY DEF DrainStep, DrainBegins, DrainRetrieves, DrainReleases, DrainEmpty, DrainEnds, rest, boot
<1>2. /\ code'[l].pc \in {"log", "drain", "end", "idle"}
      /\ \A k \in Tpls : k # l => code'[k] = code[k]
  BY DrainTurns DEF DrainStep
<1>3. report' = report \/ \E r : Note(l, r)
  BY DEF DrainStep, DrainBegins, DrainRetrieves, DrainReleases, DrainEmpty, DrainEnds, rest
<1> QED BY <1>1, <1>2, <1>3, SeqTypes DEF Note, ReportPCs, WorkPCs

(* The steps of the boot: the phase goes forward.                          *)
LEMMA BootPhase ==
    ASSUME NotifyLog \/ StartDriver \/ ExitBootServices \/ DataHubInstall \/ UNCHANGED vars
    PROVE  /\ UNCHANGED << hob, replayed, reported, left >>
           /\ \/ phase' = phase
              \/ phase = "pei" /\ phase' = "replay"
              \/ phase = "boot" /\ phase' = "runtime"
  BY DEF NotifyLog, StartDriver, ExitBootServices, DataHubInstall, vars, rest, boot

(* No code is reported to this driver before the replay is over.           *)
LEMMA NoReportEarly ==
    ASSUME TypeInv, PeiOK, NEW l \in Tpls, code[l].pc = "report"
    PROVE  ~Early
<1>1. phase # "pei"
  BY DEF PeiOK, ReportPCs
<1>2. phase # "replay"
  <2> SUFFICES ASSUME phase = "replay" PROVE FALSE
    OBVIOUS
  <2>1. code[l].ret = "replay"
    BY DEF TypeInv, Levels, PhaseOK, ReportPCs
  <2> QED BY <2>1 DEF TypeInv, Levels, Frames, FrameOK, WorkPCs
<1> QED BY <1>1, <1>2 DEF Early

(* The replay runs at the lowest level, and nothing reports besides.       *)
LEMMA ReplayAlone ==
    ASSUME TypeInv, phase = "replay", NEW l \in Tpls, Reporting(l) \/ code[l].pc = "replay"
    PROVE  l = Application
  BY DEF TypeInv, Levels, PhaseOK, Frames, FrameOK, Reporting, ReportPCs

-----------------------------------------------------------------------------
(* Nothing is reported to the driver before it is there: no step begins.   *)
LEMMA PeiNext ==
    ASSUME TypeInv, PeiOK, [Next]_vars
    PROVE  PeiOK'
<1>1. CASE UNCHANGED rest /\ HubAction
  BY <1>1, HubPhase DEF PeiOK
<1>2. ASSUME NEW l \in Tpls, DrainStep(l) PROVE PeiOK'
  BY <1>2, DrainPhase DEF PeiOK
<1>3. ASSUME NEW l \in Tpls, NEW q, Aside(l, q) PROVE PeiOK'
  BY <1>3, AsideGoes, AsideKeeps DEF PeiOK, WorkPCs, ReportPCs, Rets
<1>4. CASE \/ NotifyLog \/ StartDriver \/ ExitBootServices \/ DataHubInstall \/ UNCHANGED vars
  BY <1>4, BootPhase, OtherMoves DEF PeiOK, WorkPCs, ReportPCs
<1>5. ASSUME NEW class \in Classes, PeiReport(class) PROVE PeiOK'
  BY <1>5 DEF PeiReport, PeiOK
<1> QED BY <1>1, <1>2, <1>3, <1>4, <1>5, NextCases

(* Every step keeps the classes of codes.                                  *)
LEMMA ClassNext ==
    ASSUME TypeInv, ClassOK, [Next]_vars
    PROVE  ClassOK'
<1>1. CASE UNCHANGED rest /\ HubAction
  <2>1. \A k \in Tpls : code'[k].pc = "report" <=> code[k].pc = "report"
    BY <1>1, HubPhase DEF ReportPCs
  <2> QED BY <1>1, <2>1, HubPhase DEF ClassOK
<1>2. ASSUME NEW l \in Tpls, DrainStep(l) PROVE ClassOK'
  BY <1>2, DrainPhase DEF ClassOK, ReportPCs
<1>3. ASSUME NEW x \in Items, reported' = Append(reported, x), x.class \in Classes
      PROVE  \A n \in DOMAIN reported' : reported'[n].class \in Classes
  <2>1. /\ DOMAIN reported' = 1 .. Len(reported) + 1 /\ reported'[Len(reported) + 1] = x
        /\ \A n \in DOMAIN reported : reported'[n] = reported[n]
        /\ DOMAIN reported = 1 .. Len(reported) /\ Len(reported) \in Nat
    BY <1>3, SeqTypes
  <2> QED BY <1>3, <2>1 DEF ClassOK
<1>4. ASSUME NEW l \in Tpls, NEW q, Aside(l, q) PROVE ClassOK'
  <2>1. \A k \in Tpls : k # l => code'[k] = code[k] /\ report'[k] = report[k]
    BY <1>4, AsideKeeps
  <2>2. \A n \in DOMAIN reported' : reported'[n].class \in Classes
    <3>1. CASE reported' = reported
      BY <3>1 DEF ClassOK
    <3>2. CASE code[l].pc = "report" /\ reported' = Append(reported, Numbered(report[l].item))
      <4>1. report[l].item \in Items /\ report[l].item.class \in Classes
        BY <3>2, SeqTypes DEF ClassOK
      <4>2. Numbered(report[l].item) \in Items /\ Numbered(report[l].item).class \in Classes
        BY <4>1, NumberedType DEF TypeInv, StoreOK
      <4> QED BY <1>3, <3>2, <4>2
    <3> QED BY <1>4, <3>1, <3>2, AsideGoes
  <2>3. code'[l].pc = "report" => report'[l].item.class \in Classes
    <3>1. q \in Reports => Item(q).class \in Classes
      BY StatusCodeAssumption DEF Item, NoItem
    <3> QED BY <1>4, <3>1, AsideGoes DEF WorkPCs, Rets
  <2> QED BY <2>1, <2>2, <2>3 DEF ClassOK
<1>5. CASE \/ NotifyLog \/ StartDriver \/ ExitBootServices \/ DataHubInstall \/ UNCHANGED vars
  BY <1>5, BootPhase, OtherMoves DEF ClassOK
<1>6. ASSUME NEW class \in Classes, PeiReport(class) PROVE ClassOK'
  <2> DEFINE fresh == [NoItem EXCEPT !.class = class]
  <2>1. fresh \in Items /\ fresh.class = class
    BY DEF NoItem, Items
  <2> HIDE DEF fresh
  <2>2. Numbered(fresh) \in Items /\ Numbered(fresh).class = class
    BY <2>1, NumberedType DEF TypeInv, StoreOK
  <2>3. reported' = Append(reported, Numbered(fresh)) /\ UNCHANGED << code, report >>
    BY <1>6 DEF PeiReport, fresh
  <2> QED BY <1>3, <2>2, <2>3 DEF ClassOK
<1> QED BY <1>1, <1>2, <1>4, <1>5, <1>6, NextCases

(* A code of the PEI phase goes where its number says.                     *)
LEMMA PeiHandOff ==
    ASSUME TypeInv, HandOff, NEW class \in Classes, PeiReport(class)
    PROVE  HandOff'
<1> DEFINE item == Numbered([NoItem EXCEPT !.class = class])
           n == Len(reported)
<1>1. /\ phase = "pei" /\ phase' = "pei" /\ left.handoff > 0 /\ UNCHANGED replayed
      /\ left' = [left EXCEPT !.handoff = @ - 1]
      /\ reported' = Append(reported, item)
      /\ hob' = [slots |-> [hob.slots EXCEPT ![hob.index] = item],
                 index |-> IF hob.index + 1 = MaxRecords THEN 0 ELSE hob.index + 1,
                 packet |-> IF hob.index + 1 = MaxRecords THEN hob.packet + 1 ELSE hob.packet]
  BY DEF PeiReport
<1>2. /\ n \in Nat /\ MaxRecords \in Nat \ {0} /\ hob.packet \in Nat
      /\ hob.index \in 0 .. MaxRecords - 1 /\ hob.slots \in [0 .. MaxRecords - 1 -> Items]
      /\ left \in LeftType /\ left.handoff \in Nat
  BY SeqTypes, StatusCodeAssumption DEF TypeInv, StoreOK, StoreType, HobType, SlotsType, HubOK,
     HubType, LeftType
<1>3. n < MaxRecords /\ n = MaxRecordNumber /\ replayed = 0
      /\ left.handoff + n <= MaxRecords
      /\ \A j \in 0 .. MaxRecordNumber - 1 : hob.slots[j].id = j + 1
  BY <1>1, <1>2 DEF HandOff, Early
<1>4. hob.packet = 0 /\ hob.index = n
  BY <1>2, <1>3 DEF MaxRecordNumber
<1>5. item.id = n + 1
  <2> DEFINE fresh == [NoItem EXCEPT !.class = class]
  <2>1. fresh \in Items
    BY DEF NoItem, Items
  <2> HIDE DEF fresh
  <2>2. Numbered(fresh).id = Len(reported) + 1
    BY <2>1, NumberedType DEF TypeInv, StoreOK
  <2> QED BY <2>2 DEF fresh
<1>6. Len(reported') = n + 1
  <2>1. item \in Items \cup {item} /\ reported \in Seq(Items \cup {item})
    <3>1. Items \subseteq Items \cup {item}
      OBVIOUS
    <3> QED BY <3>1, SeqTypes, SeqMonotonic
  <2> HIDE DEF item
  <2> QED BY <1>1, <2>1
<1> HIDE DEF item, n
<1>7. /\ hob'.index = (IF n + 1 = MaxRecords THEN 0 ELSE n + 1)
      /\ hob'.packet = (IF n + 1 = MaxRecords THEN 1 ELSE 0)
      /\ hob'.slots = [hob.slots EXCEPT ![n] = item]
  BY <1>1, <1>4
<1>8. MaxRecordNumber' = n + 1
  BY <1>2, <1>7 DEF MaxRecordNumber
<1>9. \A j \in 0 .. n : hob'.slots[j].id = j + 1
  BY <1>2, <1>3, <1>5, <1>7
<1>10. left'.handoff + (n + 1) <= MaxRecords
  <2>1. left'.handoff = left.handoff - 1
    BY <1>1, <1>2 DEF LeftType
  <2> QED BY <1>2, <1>3, <2>1
<1> QED BY <1>1, <1>2, <1>3, <1>6, <1>8, <1>9, <1>10 DEF HandOff

(* What matters of the hand-off block does not change otherwise.           *)
LEMMA HandOffKept ==
    ASSUME HandOff, UNCHANGED hob,
           Early' => Early /\ UNCHANGED reported,
           phase' = "pei" => phase = "pei" /\ left'.handoff = left.handoff /\ UNCHANGED replayed
    PROVE  HandOff'
<1>1. MaxRecordNumber' = MaxRecordNumber
  BY DEF MaxRecordNumber
<1>2. phase' = "pei" => UNCHANGED reported
  BY DEF Early
<1> QED BY <1>1, <1>2 DEF HandOff

(* Every step keeps what is known of the hand-off block.                   *)
LEMMA HandOffNext ==
    ASSUME TypeInv, PeiOK, HandOff, [Next]_vars
    PROVE  HandOff'
<1>1. CASE UNCHANGED rest /\ HubAction
  BY <1>1, HubPhase, HandOffKept DEF Early
<1>2. ASSUME NEW l \in Tpls, DrainStep(l) PROVE HandOff'
  BY <1>2, DrainPhase, HandOffKept DEF Early
<1>3. ASSUME NEW l \in Tpls, NEW q, Aside(l, q) PROVE HandOff'
  <2>1. CASE code[l].pc = "report" /\ UNCHANGED phase
    <3>1. ~Early /\ ~Early'
      BY <2>1, NoReportEarly DEF Early
    <3> QED BY <3>1 DEF HandOff, Early
  <2>2. CASE phase' \in {"boot", "runtime"}
    BY <2>2 DEF HandOff, Early
  <2>3. CASE phase = "replay" /\ UNCHANGED << phase, hob, reported >>
    BY <2>3, HandOffKept DEF Early
  <2>4. CASE UNCHANGED << phase, hob, replayed, reported >> /\ left'.handoff = left.handoff
    BY <2>4, HandOffKept DEF Early
  <2> QED BY <1>3, <2>1, <2>2, <2>3, <2>4, AsideGoes
<1>4. CASE NotifyLog \/ StartDriver \/ ExitBootServices \/ DataHubInstall \/ UNCHANGED vars
  <2>1. /\ UNCHANGED << hob, replayed, reported, left >>
        /\ \/ phase' = phase
           \/ phase = "pei" /\ phase' = "replay"
           \/ phase = "boot" /\ phase' = "runtime"
    BY <1>4, BootPhase
  <2> QED BY <2>1, HandOffKept DEF Early
<1>5. ASSUME NEW class \in Classes, PeiReport(class) PROVE HandOff'
  BY <1>5, PeiHandOff
<1> QED BY <1>1, <1>2, <1>3, <1>4, <1>5, NextCases

(* The codes that are to join stay newer when the line only flows, ...     *)
LEMMA NewKept ==
    ASSUME NewOK, Known' \subseteq Known,
           Early' => Early /\ replayed' = replayed,
           phase' = "replay" => \A l \in Tpls : Reporting(l)' =>
               report'[l].item.id = replayed',
           \A l \in Tpls : code'[l].pc \in YoungPCs =>
               code[l].pc \in YoungPCs /\ report'[l].item = report[l].item
    PROVE  NewOK'
<1>1. Early' => Older(replayed + 1)'
  BY DEF NewOK, Older
<1>2. ASSUME NEW l \in Tpls, code'[l].pc \in YoungPCs PROVE Older(report[l].item.id)'
  BY <1>2 DEF NewOK, Older
<1> QED BY <1>1, <1>2 DEF NewOK, Reporting

(* ... when a code joins it, ...                                           *)
LEMMA NewJoins ==
    ASSUME TypeInv, ItemsOK, PeiOK, NewOK, NEW l \in Tpls, Joins(l)
    PROVE  NewOK'
<1>1. /\ code[l].pc \in {"acquire", "grow"} /\ Goto(l, "fill")
      /\ UNCHANGED << phase, replayed >>
      /\ \E b : Note(l, [report[l] EXCEPT !.buf = b])
  BY DEF Joins, Acquire, Grow, At, boot
<1>2. code'[l].pc = "fill" /\ \A k \in Tpls : k # l => code'[k] = code[k]
  BY <1>1, CodeEffect
<1>3. /\ report'[l].item = report[l].item /\ \A k \in Tpls : k # l => report'[k] = report[k]
  BY <1>1, SeqTypes DEF Note, ReportType
<1>4. Reporting(l) /\ \A k \in Tpls : Reporting(k) => k = l
  BY <1>1 DEF Reporting, WorkPCs, TypeInv, Levels, NestOK
<1>5. \A n : Older(n) /\ report[l].item.id < n => \A m \in Known' : m < n
  BY JoinsKnown DEF Older
<1>6. Early' => Older(replayed + 1)'
  <2> SUFFICES ASSUME Early' PROVE \A m \in Known' : m < replayed + 1
    BY <1>1 DEF Older
  <2>1. phase = "replay" /\ Early
    BY <1>1, <1>4 DEF Early, PeiOK, Reporting, ReportPCs
  <2>2. report[l].item.id = replayed /\ Older(replayed + 1)
    BY <1>4, <2>1 DEF NewOK
  <2>3. replayed \in Nat
    BY DEF TypeInv, StoreOK, StoreType
  <2> QED BY <1>5, <2>2, <2>3
<1>7. \A k \in Tpls : code'[k].pc \notin YoungPCs
  BY <1>2, <1>4 DEF Reporting, YoungPCs, WorkPCs
<1>8. phase' = "replay" => \A k \in Tpls : Reporting(k)' => report'[k].item.id = replayed'
  <2> SUFFICES ASSUME phase' = "replay", NEW k \in Tpls, Reporting(k)'
               PROVE  report'[k].item.id = replayed
    BY <1>1
  <2>1. k = l
    BY <1>2, <1>4 DEF Reporting
  <2> QED BY <1>1, <1>3, <1>4, <2>1 DEF NewOK
<1> QED BY <1>6, <1>7, <1>8 DEF NewOK

(* ... and when a report begins or a code of the PEI phase is replayed.    *)
LEMMA NewAside ==
    ASSUME TypeInv, ItemsOK, StatusLocal, PeiOK, HandOff, NewOK,
           Known' \subseteq Known,
           NEW l \in Tpls, NEW q, Aside(l, q)
    PROVE  NewOK'
<1>1. \A k \in Tpls : k # l => code'[k] = code[k] /\ report'[k] = report[k]
  BY AsideKeeps
<1>2. CASE ReportBegins(l) /\ code[l].pc = "report" /\ code'[l].pc = "ring"
           /\ report'[l].item = Numbered(report[l].item) /\ UNCHANGED phase
  <2>1. ~Early'
    BY <1>2, NoReportEarly DEF Early
  <2>2. report[l].item \in Items
    BY SeqTypes
  <2>3. report'[l].item.id = Len(reported) + 1
    BY <1>2, <2>2, NumberedType DEF TypeInv, StoreOK
  <2>4. Older(Len(reported) + 1)
    <3>1. \A m \in Known : m \in 1 .. Len(reported)
      BY NumbersAccepted, SeqTypes DEF Known
    <3> QED BY <3>1, SeqTypes DEF Older
  <2>5. Older(report[l].item.id)'
    BY <2>3, <2>4 DEF Older
  <2>6. ASSUME NEW k \in Tpls, k # l, code'[k].pc \in YoungPCs
        PROVE  Older(report[k].item.id)'
    <3>1. Older(report[k].item.id) /\ report'[k] = report[k]
      BY <1>1, <2>6 DEF NewOK
    <3> QED BY <3>1 DEF Older
  <2> QED BY <2>1, <2>5, <2>6 DEF NewOK, Early
<1>3. CASE code'[l].pc = "ring" /\ report'[l].item = hob.slots[replayed]
           /\ replayed < MaxRecordNumber /\ replayed' = replayed + 1 /\ phase = "replay"
           /\ UNCHANGED phase /\ ReplayRecord(l)
  <2>1. replayed \in Nat /\ MaxRecordNumber \in Nat
    BY StatusCodeAssumption DEF TypeInv, StoreOK, StoreType, HobType, MaxRecordNumber
  <2>2. Early
    BY <1>3 DEF Early
  <2>3. hob.slots[replayed].id = replayed + 1
    <3>1. replayed \in 0 .. MaxRecordNumber - 1
      BY <1>3, <2>1
    <3> QED BY <2>2, <3>1 DEF HandOff
  <2>4. \A m \in Known' : m < replayed + 1
    BY <2>2 DEF NewOK, Older
  <2>5. \A m \in Known' : m < replayed + 2
    <3>1. \A m \in Known' : m \in Int
      BY NumbersAccepted, SeqTypes DEF Known
    <3> QED BY <2>1, <2>4, <3>1
  <2>6. \A k \in Tpls : Reporting(k) => k = Application
    BY <1>3, ReplayAlone
  <2>7. l = Application
    BY <1>3, ReplayAlone DEF ReplayRecord, At
  <2>8. \A k \in Tpls : k # l => ~Reporting(k)'
    BY <1>1, <2>6, <2>7 DEF Reporting
  <2>9. \A k \in Tpls : code'[k].pc \in YoungPCs => k = l
    BY <2>8 DEF Reporting, YoungPCs, WorkPCs
  <2>10. Older(replayed + 1)'
    <3>1. (replayed + 1) + 1 = replayed + 2
      BY <2>1
    <3> QED BY <1>3, <2>5, <3>1 DEF Older
  <2>11. Older(report[l].item.id)' /\ report'[l].item.id = replayed'
    BY <1>3, <2>3, <2>4 DEF Older
  <2> QED BY <2>8, <2>9, <2>10, <2>11 DEF NewOK
<1>4. ASSUME Early' => Early /\ replayed' = replayed,
             phase' = "replay" => phase = "replay",
             \/ code'[l].pc \notin WorkPCs
             \/ /\ code[l].pc \in WorkPCs /\ report'[l].item = report[l].item
                /\ code'[l].pc \in YoungPCs => code[l].pc \in YoungPCs
      PROVE  NewOK'
  <2>1. ASSUME phase' = "replay", NEW k \in Tpls, Reporting(k)'
        PROVE  report'[k].item.id = replayed'
    <3>1. replayed' = replayed /\ phase = "replay"
      BY <1>4, <2>1 DEF Early
    <3>2. Reporting(k) /\ report'[k].item = report[k].item
      BY <1>1, <1>4, <2>1 DEF Reporting
    <3> QED BY <3>1, <3>2 DEF NewOK
  <2>2. ASSUME NEW k \in Tpls, code'[k].pc \in YoungPCs
        PROVE  code[k].pc \in YoungPCs /\ report'[k].item = report[k].item
    BY <1>1, <1>4, <2>2 DEF YoungPCs, WorkPCs
  <2> QED BY <1>4, <2>1, <2>2, NewKept
<1>5. CASE code'[l].pc = "report" /\ phase \in {"boot", "runtime"} /\ UNCHANGED phase
  BY <1>4, <1>5 DEF Early, WorkPCs
<1>6. CASE phase' = "boot" /\ code'[l].pc \in Rets
  BY <1>4, <1>6 DEF Early, WorkPCs, Rets
<1>7. CASE /\ UNCHANGED << phase, replayed >>
           /\ \/ code'[l].pc \in Rets
              \/ /\ code[l].pc \in WorkPCs /\ report'[l].item = report[l].item
                 /\ code'[l].pc \in YoungPCs => code[l].pc \in YoungPCs
  BY <1>4, <1>7 DEF Early, WorkPCs, Rets
<1> QED BY <1>2, <1>3, <1>5, <1>6, <1>7, AsideGoes

(* Every step keeps newer what is to join the line.                        *)
LEMMA NewNext ==
    ASSUME TypeInv, TypeInv', Owned, ItemsOK, OrderOK, [Next]_vars
    PROVE  NewOK'
<1>0. StatusLocal /\ PeiOK /\ HandOff /\ NewOK
  BY DEF OrderOK
<1>1. CASE \E l \in Tpls : Joins(l)
  BY <1>0, <1>1, NewJoins
<1>2. CASE Flows
  <2>1. Known' \subseteq Known
    BY <1>2, FlowsKnown
  <2>2. CASE UNCHANGED rest /\ HubAction
    <3>1. /\ UNCHANGED << phase, replayed, report >>
          /\ \A k \in Tpls : \A p \in ReportPCs : code'[k].pc = p <=> code[k].pc = p
      BY <2>2, HubPhase
    <3>2. \A k \in Tpls : /\ Reporting(k)' => Reporting(k)
                          /\ code'[k].pc \in YoungPCs => code[k].pc \in YoungPCs
      BY <3>1 DEF Reporting, YoungPCs, ReportPCs, WorkPCs
    <3> QED BY <2>1, <3>1, <3>2, <1>0, NewKept DEF Early, NewOK
  <2>3. ASSUME NEW l \in Tpls, DrainStep(l) PROVE NewOK'
    <3>1. /\ UNCHANGED << phase, replayed >> /\ code'[l].pc \notin ReportPCs
          /\ \A k \in Tpls : k # l => code'[k] = code[k] /\ report'[k] = report[k]
      BY <2>3, DrainPhase
    <3>2. \A k \in Tpls : Reporting(k)' => k # l /\ Reporting(k)
      BY <3>1 DEF Reporting, ReportPCs
    <3>3. \A k \in Tpls : code'[k].pc \in YoungPCs => k # l /\ code[k].pc \in YoungPCs
      BY <3>1 DEF YoungPCs, ReportPCs, WorkPCs
    <3> QED BY <2>1, <3>1, <3>2, <3>3, <1>0, NewKept DEF Early, NewOK
  <2>4. ASSUME NEW l \in Tpls, NEW q, Aside(l, q) PROVE NewOK'
    BY <1>0, <2>1, <2>4, NewAside
  <2>5. CASE \/ NotifyLog \/ StartDriver \/ ExitBootServices \/ DataHubInstall
             \/ \E class \in Classes : PeiReport(class)
             \/ UNCHANGED vars
    <3>1. /\ UNCHANGED report
          /\ \A k \in Tpls : code'[k] = code[k] \/ code'[k].pc \in {"begin", "replay"}
      BY <2>5, OtherMoves
    <3>2. /\ replayed' = replayed
          /\ Early' => Early
          /\ phase' = "replay" => phase \in {"pei", "replay"}
      <4>1. CASE \E class \in Classes : PeiReport(class)
        BY <4>1 DEF PeiReport, Early
      <4>2. CASE ~ \E class \in Classes : PeiReport(class)
        BY <2>5, <4>2, BootPhase DEF Early
      <4> QED BY <4>1, <4>2
    <3>3. \A k \in Tpls : /\ Reporting(k)' => Reporting(k)
                          /\ code'[k].pc \in YoungPCs => code[k].pc \in YoungPCs
      BY <3>1 DEF Reporting, YoungPCs, WorkPCs
    <3>4. ASSUME phase' = "replay", NEW k \in Tpls, Reporting(k)'
          PROVE  report'[k].item.id = replayed'
      <4>1. Reporting(k)
        BY <3>3, <3>4
      <4>2. phase = "replay"
        BY <1>0, <3>2, <3>4, <4>1 DEF PeiOK, Reporting, ReportPCs
      <4> QED BY <1>0, <3>1, <3>2, <4>1, <4>2 DEF NewOK
    <3>5. \A k \in Tpls : code'[k].pc \in YoungPCs =>
              code[k].pc \in YoungPCs /\ report'[k].item = report[k].item
      BY <3>1, <3>3
    <3> QED BY <2>1, <3>2, <3>4, <3>5, <1>0, NewKept
  <2> QED BY <2>2, <2>3, <2>4, <2>5, NextCases
<1> QED BY <1>0, <1>1, <1>2, StepFlows

(* The invariant of the order of codes is inductive.                       *)
LEMMA OrderNext ==
    ASSUME TypeInv, TypeInv', Owned, ItemsOK, OrderOK, [Next]_vars
    PROVE  OrderOK'
<1>1. StatusLocal' /\ ClassOK' /\ PeiOK' /\ HandOff'
  BY StatusLocalNext, ClassNext, PeiNext, HandOffNext DEF OrderOK
<1>2. NewOK'
  BY NewNext
<1> QED BY <1>1, <1>2 DEF OrderOK

(* At first nothing is under way and nothing is logged.                    *)
LEMMA NothingAtFirst ==
    ASSUME Init
    PROVE  Waiting = << >> /\ Logged = << >>
<1>1. fifo = << >> /\ records = << >> /\ \A l \in Tpls : code[l] = Idle(l)
  BY DEF Init, HubInit, TplInit
<1>2. Callback \in Tpls
  BY DEF Tpls, Application, Callback, High
<1>3. code[Callback].ret = "idle"
  <2>1. code[Callback] = Idle(Callback)
    BY <1>1, <1>2
  <2> QED BY <2>1 DEF Idle
<1>4. Queued = << >>
  BY <1>1, <1>3 DEF Queued, InHand
<1>5. StatusRecords = << >>
  BY <1>1, StatusOfEmpty DEF StatusRecords
<1> QED BY <1>4, <1>5 DEF Waiting, Logged

(* At first the invariant of the order holds.                              *)
LEMMA OrderInit ==
    ASSUME Init, \A b \in Budgets : b.handoff <= MaxRecords
    PROVE  OrderOK
<1>1. \A l \in Tpls : code[l].pc = "idle"
  BY DEF Init, TplInit, Idle
<1>2. StatusLocal /\ PeiOK /\ ClassOK
  BY <1>1 DEF StatusLocal, PeiOK, ClassOK, Logging, ReportPCs, WorkPCs, Init
<1>3. HandOff
  <2>1. /\ phase = "pei" /\ reported = << >> /\ replayed = 0 /\ left \in Budgets
        /\ hob.index = 0 /\ hob.packet = 0
    BY DEF Init, Hob
  <2>2. MaxRecordNumber = 0 /\ Len(reported) = 0
    BY <2>1 DEF MaxRecordNumber
  <2>3. left.handoff \in Nat /\ left.handoff <= MaxRecords
    BY <2>1, StatusCodeAssumption
  <2> QED BY <2>1, <2>2, <2>3 DEF HandOff
<1>4. NewOK
  <2>1. Known = {}
    BY NothingAtFirst DEF Known, Numbers
  <2> QED BY <1>1, <2>1 DEF NewOK, Older, YoungPCs, Reporting, WorkPCs
<1> QED BY <1>2, <1>3, <1>4 DEF OrderOK

-----------------------------------------------------------------------------
(* A code that joins the line is one, and newer than those before it.      *)
LEMMA JoinsIsAccept ==
    ASSUME TypeInv, ItemsOK, OrderOK, NEW l \in Tpls, Joins(l)
    PROVE  Pipe!Accept
<1> DEFINE c == CodeOf(report[l].item)
<1>1. code[l].pc \in {"acquire", "grow"}
  BY DEF Joins, Acquire, Grow, At
<1>2. Same(report[l].item, reported) /\ Older(report[l].item.id)
  BY <1>1 DEF OrderOK, NewOK, YoungPCs, ItemsOK, ReportsOK, Reporting, WorkPCs
<1>3. c \in [id : Nat, class : Classes]
  BY <1>2, SeqTypes DEF Same, OrderOK, ClassOK, CodeOf
<1>4. \A n \in Known : n < c.id
  BY <1>2 DEF Older, CodeOf
<1>5. Waiting' # << >> /\ Waiting'[Len(Waiting')] = c
  BY JoinsKnown
<1>6. Waiting' = Append(Waiting, c) /\ Logged' = Logged
  BY DEF Joins
<1> HIDE DEF c
<1>7. Pipe!Numbers = Known
  BY DEF Pipe!Numbers, Known, Numbers, Waiting, Logged
<1> QED BY <1>3, <1>4, <1>5, <1>6, <1>7 DEF Pipe!Accept, Waiting, Logged

(* Every step of the driver is one of the conduit, or none.                *)
LEMMA StepIsPipe ==
    ASSUME TypeInv, TypeInv', Owned, ItemsOK, OrderOK, [Next]_vars
    PROVE  [Pipe!Next]_<< Waiting, Logged >>
<1>1. ASSUME NEW l \in Tpls, Joins(l) PROVE Pipe!Next
  BY <1>1, JoinsIsAccept DEF Pipe!Next
<1>2. CASE Flows
  <2>1. CASE Waiting # << >> /\ Waiting' = Tail(Waiting) /\ Logged' = Logged
    BY <2>1 DEF Pipe!Next, Pipe!Drop, Waiting, Logged
  <2>2. CASE Waiting # << >> /\ Waiting' = Tail(Waiting)
             /\ Logged' = Append(Logged, Head(Waiting))
    BY <2>2 DEF Pipe!Next, Pipe!Deliver, Waiting, Logged
  <2> QED BY <1>2, <2>1, <2>2 DEF Flows
<1> QED BY <1>1, <1>2, StepFlows DEF OrderOK

(* The status code driver is a conduit of codes into the data hub: in      *)
(* order, at most once, none lost but the oldest for lack of memory; as    *)
(* long as the PEI phase reports no more than its ring holds.              *)
THEOREM ConduitCorrect ==
    ASSUME \A b \in Budgets : b.handoff <= MaxRecords
    PROVE  Spec => InOrderOnce
<1>1. Init => Owned
  BY DEF Init, TplInit, Idle, Owned, Elements, InHands, Held, Tpls, Application, Callback, High
<1>2. TypeInv /\ Owned /\ [Next]_vars => Owned'
  BY OwnedNext
<1>3. TypeInv /\ ItemsOK /\ [Next]_vars => ItemsOK'
  BY ItemsHub, ItemsAside, ItemsDrain, ItemsPei, ItemsBoot, NextCases
<1>4. Init => OrderOK
  BY OrderInit
<1>5. TypeInv /\ TypeInv' /\ Owned /\ ItemsOK /\ OrderOK /\ [Next]_vars => OrderOK'
  BY OrderNext
<1>6. Init => Pipe!Init
  BY NothingAtFirst DEF Pipe!Init, Waiting, Logged
<1>7. TypeInv /\ TypeInv' /\ Owned /\ ItemsOK /\ OrderOK /\ [Next]_vars
      => [Pipe!Next]_<< Waiting, Logged >>
  BY StepIsPipe
<1>8. TypeInv /\ Owned /\ ItemsOK /\ OrderOK /\ [Next]_vars => TypeInv'
  BY TypeInvNext
<1>9. Spec => Pipe!Init /\ [][Pipe!Next]_<< Waiting, Logged >>
  BY <1>1, <1>2, <1>3, <1>4, <1>5, <1>6, <1>7, ItemsInit, TypeInvHolds, PTL DEF Spec
<1> QED BY <1>9, PTL DEF InOrderOnce, Pipe!Spec, Waiting, Logged

(* The ring holds the first n of the codes that were accepted, the last of *)
(* them before i: those up to i, and those that are left of the round      *)
(* before from i on.                                                       *)
RingAt(n, i) ==
    /\ i < MaxRecords /\ i <= n
    /\ n < MaxRecords => i = n
    /\ \A j \in 0 .. i - 1 : ring.slots[j] = reported[(n - i) + (j + 1)]
    /\ n >= MaxRecords =>
         \A j \in i .. MaxRecords - 1 : ring.slots[j] = reported[((n - i) + (j + 1)) - MaxRecords]
(* How many codes were told to the ring, the one of a report that is on    *)
(* its way there included.                                                 *)
Told == IF Early THEN replayed ELSE Len(reported)
(* The ring is filled in order, and the report that is about to write in   *)
(* it brings the next code.                                                *)
RingOK ==
    /\ Told <= Len(reported)
    /\ ~InRing => ring.number = Told /\ RingAt(ring.number, ring.index)
    /\ \A l \in Tpls : code[l].pc \in {"ring", "save"} =>
          ring.number + 1 = Told /\ report[l].item = reported[Told]
    /\ \A l \in Tpls : code[l].pc = "ring" => RingAt(ring.number, ring.index)
    /\ \A l \in Tpls : code[l].pc = "save" =>
          report[l].slot + 1 = ring.index /\ RingAt(ring.number, report[l].slot)

(* The record that is saved completes the next state of the ring.          *)
LEMMA RingFills ==
    ASSUME StoreType, NEW n \in Nat, NEW i \in Nat, NEW x, RingAt(n, i), n < Len(reported),
           UNCHANGED reported, x = reported[n + 1],
           ring'.slots = [ring.slots EXCEPT ![i] = x]
    PROVE  RingAt(n + 1, IF i + 1 = MaxRecords THEN 0 ELSE i + 1)'
<1>1. /\ MaxRecords \in Nat \ {0} /\ i \in 0 .. MaxRecords - 1
      /\ ring.slots \in [0 .. MaxRecords - 1 -> Items]
  BY StatusCodeAssumption DEF StoreType, RingType, SlotsType, RingAt
<1>2. ring'.slots[i] = x /\ \A j \in 0 .. MaxRecords - 1 : j # i => ring'.slots[j] = ring.slots[j]
  BY <1>1
<1>3. \A j \in 0 .. i - 1 : ring'.slots[j] = reported[(n - i) + (j + 1)]
  BY <1>1, <1>2 DEF RingAt
<1>4. n >= MaxRecords => \A j \in i + 1 .. MaxRecords - 1 :
         ring'.slots[j] = reported[((n - i) + (j + 1)) - MaxRecords]
  BY <1>1, <1>2 DEF RingAt
<1>5. ring'.slots[i] = reported[n + 1]
  BY <1>2
<1>6. i <= n /\ i < MaxRecords /\ (n < MaxRecords => i = n)
  BY DEF RingAt
<1> DEFINE s == ring'.slots
           r == reported
<1>7. /\ \A j \in 0 .. i - 1 : s[j] = r[(n - i) + (j + 1)]
      /\ n >= MaxRecords =>
            \A j \in i + 1 .. MaxRecords - 1 : s[j] = r[((n - i) + (j + 1)) - MaxRecords]
      /\ s[i] = r[n + 1]
  BY <1>3, <1>4, <1>5
<1> HIDE DEF s, r
<1>8. CASE i + 1 = MaxRecords
  <2>1. \A j \in 0 .. MaxRecords - 1 : s[j] = r[((n + 1) - 0 + (j + 1)) - MaxRecords]
    <3> TAKE j \in 0 .. MaxRecords - 1
    <3>1. CASE j = i
      <4>1. ((n + 1) - 0 + (j + 1)) - MaxRecords = n + 1
        BY <1>1, <1>8, <3>1
      <4> QED BY <1>7, <3>1, <4>1
    <3>2. CASE j # i
      <4>1. j \in 0 .. i - 1 /\ ((n + 1) - 0 + (j + 1)) - MaxRecords = (n - i) + (j + 1)
        BY <1>1, <1>8, <3>2
      <4> QED BY <1>7, <4>1
    <3> QED BY <3>1, <3>2
  <2>2. n + 1 >= MaxRecords
    BY <1>1, <1>6, <1>8
  <2> QED BY <1>1, <1>8, <2>1, <2>2 DEF RingAt, s, r
<1>9. CASE i + 1 # MaxRecords
  <2>1. \A j \in 0 .. i : s[j] = r[((n + 1) - (i + 1)) + (j + 1)]
    <3> TAKE j \in 0 .. i
    <3>1. ((n + 1) - (i + 1)) + (j + 1) = (n - i) + (j + 1)
      BY <1>1
    <3>2. CASE j = i
      <4>1. (n - i) + (j + 1) = n + 1
        BY <1>1, <3>2
      <4> QED BY <1>7, <3>1, <3>2, <4>1
    <3>3. CASE j # i
      <4>1. j \in 0 .. i - 1
        BY <1>1, <3>3
      <4> QED BY <1>7, <3>1, <4>1
    <3> QED BY <3>2, <3>3
  <2>2. n + 1 >= MaxRecords => n >= MaxRecords /\
           \A j \in i + 1 .. MaxRecords - 1 : s[j] = r[(((n + 1) - (i + 1)) + (j + 1)) - MaxRecords]
    <3> SUFFICES ASSUME n + 1 >= MaxRecords
                 PROVE  n >= MaxRecords /\ \A j \in i + 1 .. MaxRecords - 1 :
                           s[j] = r[(((n + 1) - (i + 1)) + (j + 1)) - MaxRecords]
      OBVIOUS
    <3>1. n >= MaxRecords
      BY <1>1, <1>6, <1>9
    <3>2. ASSUME NEW j \in i + 1 .. MaxRecords - 1
          PROVE  (((n + 1) - (i + 1)) + (j + 1)) - MaxRecords = ((n - i) + (j + 1)) - MaxRecords
      BY <1>1
    <3> QED BY <1>7, <3>1, <3>2
  <2>3. i + 1 < MaxRecords /\ i + 1 <= n + 1 /\ (n + 1 < MaxRecords => i + 1 = n + 1)
        /\ (i + 1) - 1 = i
    BY <1>1, <1>6, <1>9
  <2> QED BY <1>9, <2>1, <2>2, <2>3 DEF RingAt, s, r
<1> QED BY <1>8, <1>9

(* What the ring holds it goes on to hold when more is accepted.           *)
LEMMA RingStays ==
    ASSUME TypeInv, NEW n \in Nat, NEW i \in Nat, RingAt(n, i), n <= Len(reported), UNCHANGED ring,
           \A j \in 1 .. Len(reported) : reported'[j] = reported[j]
    PROVE  RingAt(n, i)'
<1>1. MaxRecords \in Nat \ {0} /\ Len(reported) \in Nat
  BY StatusCodeAssumption, SeqTypes
<1>2. \A j \in 0 .. i - 1 : (n - i) + (j + 1) \in 1 .. Len(reported)
  BY <1>1 DEF RingAt
<1>3. n >= MaxRecords => \A j \in i .. MaxRecords - 1 :
         ((n - i) + (j + 1)) - MaxRecords \in 1 .. Len(reported)
  BY <1>1 DEF RingAt
<1> QED BY <1>2, <1>3 DEF RingAt

(* Steps that leave the ring alone, and who is about to write in it.       *)
LEMMA RingKept ==
    ASSUME TypeInv, RingOK, UNCHANGED << ring, reported >>, Told' = Told,
           \A l \in Tpls : \A p \in {"ring", "save"} :
               /\ code'[l].pc = p <=> code[l].pc = p
               /\ code'[l].pc = p => report'[l] = report[l]
    PROVE  RingOK'
<1>1. InRing' <=> InRing
  BY DEF InRing
<1>2. \A n, i : RingAt(n, i)' <=> RingAt(n, i)
  BY DEF RingAt
<1>3. ASSUME NEW l \in Tpls, code'[l].pc \in {"ring", "save"}
      PROVE  code[l].pc = code'[l].pc /\ report'[l] = report[l]
  BY <1>3
<1> QED BY <1>1, <1>2, <1>3 DEF RingOK

(* Nobody writes in the ring but the one report under way.                 *)
LEMMA OneInRing ==
    ASSUME TypeInv, NEW l \in Tpls, code[l].pc \in {"ring", "save"}
    PROVE  \A k \in Tpls : code[k].pc \in {"ring", "save"} => k = l
  BY DEF TypeInv, Levels, NestOK, Reporting, WorkPCs

(* A report that takes a place in the ring, ...                            *)
LEMMA RingTakesIts ==
    ASSUME TypeInv, RingOK, NEW l \in Tpls, RingTakes(l)
    PROVE  RingOK'
<1> DEFINE r == [report[l] EXCEPT !.slot = ring.index]
<1>1. /\ code[l].pc = "ring" /\ Note(l, r) /\ ring' = [ring EXCEPT !.index = @ + 1]
      /\ Goto(l, "save") /\ UNCHANGED << reported, phase, replayed >>
  BY DEF RingTakes, At, boot
<1>2. code'[l].pc = "save" /\ \A k \in Tpls : k # l => code'[k] = code[k]
  BY <1>1, CodeEffect
<1>3. report[l] \in ReportType /\ ring \in RingType
  BY SeqTypes DEF TypeInv, StoreOK, StoreType
<1>4. r.slot = ring.index /\ r.item = report[l].item
  BY <1>3 DEF ReportType
<1> HIDE DEF r
<1>5. report'[l] = r
  BY <1>1, SeqTypes DEF Note
<1>6. ring'.index = ring.index + 1 /\ ring'.number = ring.number /\ ring'.slots = ring.slots
  BY <1>1, <1>3 DEF RingType
<1>7. \A n, i : RingAt(n, i)' <=> RingAt(n, i)
  BY <1>1, <1>6 DEF RingAt
<1>8. Told' = Told
  BY <1>1 DEF Told, Early
<1>9. \A k \in Tpls : code'[k].pc \in {"ring", "save"} => k = l
  BY <1>1, <1>2, OneInRing
<1>10. InRing'
  BY <1>2 DEF InRing
<1> QED BY <1>1, <1>2, <1>4, <1>5, <1>6, <1>7, <1>8, <1>9, <1>10 DEF RingOK

(* ... and saves its code there.                                           *)
LEMMA RingSavesIts ==
    ASSUME TypeInv, RingOK, NEW l \in Tpls, RingSaves(l)
    PROVE  RingOK'
<1>0. PICK n \in Nat, i \in Nat, x \in Items :
          n = ring.number /\ i = report[l].slot /\ x = report[l].item
  <2>1. ring.number \in Nat /\ report[l].slot \in Nat /\ report[l].item \in Items
    BY SeqTypes, StatusCodeAssumption DEF TypeInv, StoreOK, StoreType, RingType, ReportType
  <2> QED BY <2>1
<1>1. /\ code[l].pc = "save" /\ Goto(l, "check")
      /\ UNCHANGED << reported, phase, replayed, report >>
      /\ ring' = [slots |-> [ring.slots EXCEPT ![i] = x],
                  index |-> IF ring.index = MaxRecords THEN 0 ELSE ring.index, number |-> n + 1]
  BY <1>0 DEF RingSaves, At, boot
<1>2. code'[l].pc = "check" /\ \A k \in Tpls : k # l => code'[k] = code[k]
  BY <1>1, CodeEffect
<1>3. report[l] \in ReportType /\ StoreType
  BY SeqTypes, StatusCodeAssumption DEF TypeInv, StoreOK, StoreType, RingType, ReportType
<1>4. /\ n + 1 = Told /\ x = reported[Told] /\ i + 1 = ring.index /\ RingAt(n, i)
      /\ Told <= Len(reported)
  BY <1>0, <1>1 DEF RingOK
<1>5. n < Len(reported)
  BY <1>3, <1>4, SeqTypes
<1>6. /\ ring'.slots = [ring.slots EXCEPT ![i] = x] /\ ring'.number = n + 1
      /\ ring'.index = IF i + 1 = MaxRecords THEN 0 ELSE i + 1
  BY <1>1, <1>4
<1>7. ~InRing'
  <2>1. \A k \in Tpls : code[k].pc \in {"ring", "save"} => k = l
    BY <1>1, OneInRing
  <2> QED BY <1>2, <2>1 DEF InRing
<1>8. Told' = Told
  BY <1>1 DEF Told, Early
<1>9. RingAt(n + 1, IF i + 1 = MaxRecords THEN 0 ELSE i + 1)'
  BY <1>1, <1>3, <1>4, <1>5, <1>6, RingFills
<1>10. RingAt(ring.number, ring.index)'
  BY <1>6, <1>9
<1>11. \A k \in Tpls : code'[k].pc \notin {"ring", "save"}
  BY <1>7 DEF InRing
<1> QED BY <1>1, <1>4, <1>6, <1>7, <1>8, <1>10, <1>11 DEF RingOK

(* A report begins, or a code of the PEI phase is replayed: its code is    *)
(* the next one for the ring.                                              *)
LEMMA RingTold ==
    ASSUME TypeInv, RingOK, NEW l \in Tpls, \A k \in Tpls : code[k].pc \notin {"ring", "save"},
           code'[l].pc = "ring", \A k \in Tpls : k # l => code'[k] = code[k],
           UNCHANGED ring, Told' = Told + 1, Told' <= Len(reported'),
           report'[l].item = reported'[Told'],
           \A j \in 1 .. Len(reported) : reported'[j] = reported[j]
    PROVE  RingOK'
<1>1. ~InRing /\ InRing'
  BY DEF InRing
<1>2. PICK n \in Nat, i \in Nat : n = ring.number /\ i = ring.index
  <2>1. ring.number \in Nat /\ ring.index \in Nat
    BY StatusCodeAssumption DEF TypeInv, StoreOK, StoreType, RingType
  <2> QED BY <2>1
<1>3. n = Told /\ RingAt(n, i) /\ n <= Len(reported)
  BY <1>1, <1>2 DEF RingOK
<1>4. RingAt(n, i)'
  BY <1>3, RingStays
<1>5. RingAt(ring.number, ring.index)'
  BY <1>2, <1>4
<1>6. ring'.number + 1 = Told'
  BY <1>2, <1>3
<1>7. \A k \in Tpls : code'[k].pc \in {"ring", "save"} => k = l
  OBVIOUS
<1> QED BY <1>1, <1>5, <1>6, <1>7 DEF RingOK

(* A report that begins brings the next code.                              *)
LEMMA RingBegins ==
    ASSUME TypeInv, PeiOK, RingOK, NEW l \in Tpls, ReportBegins(l),
           code[l].pc = "report", code'[l].pc = "ring", \A k \in Tpls : k # l => code'[k] = code[k],
           report'[l].item = Numbered(report[l].item),
           reported' = Append(reported, Numbered(report[l].item)),
           UNCHANGED phase
    PROVE  RingOK'
<1>1. ~Early /\ ~Early' /\ phase # "replay"
  BY NoReportEarly DEF Early
<1>2. nest = 0 /\ UNCHANGED ring
  BY DEF ReportBegins
<1>3. \A k \in Tpls : code[k].pc \notin {"ring", "save"}
  BY <1>1, <1>2 DEF TypeInv, Levels, NestOK, Reporting, WorkPCs
<1>4. /\ Len(reported') = Len(reported) + 1
      /\ reported'[Len(reported) + 1] = Numbered(report[l].item)
      /\ \A j \in 1 .. Len(reported) : reported'[j] = reported[j]
  <2>1. Numbered(report[l].item) \in Items
    BY SeqTypes, NumberedType DEF TypeInv, StoreOK
  <2> QED BY <2>1, SeqTypes
<1>5. Told' = Told + 1 /\ Told' = Len(reported')
  BY <1>1, <1>4 DEF Told
<1>6. Told' <= Len(reported') /\ report'[l].item = reported'[Told']
  BY <1>4, <1>5, SeqTypes
<1> QED BY <1>2, <1>3, <1>4, <1>5, <1>6, RingTold

(* A record that is replayed is the next code.                             *)
LEMMA RingReplays ==
    ASSUME TypeInv, ItemsOK, HandOff, RingOK, NEW l \in Tpls, ReplayRecord(l),
           code'[l].pc = "ring", \A k \in Tpls : k # l => code'[k] = code[k],
           report'[l].item = hob.slots[replayed],
           replayed < MaxRecordNumber, replayed' = replayed + 1, phase = "replay",
           UNCHANGED << phase, reported >>
    PROVE  RingOK'
<1>1. Early /\ Early' /\ UNCHANGED ring /\ code[l].pc = "replay"
  BY DEF Early, ReplayRecord, At
<1>2. \A k \in Tpls : code[k].pc \notin {"ring", "save"}
  <2>1. ASSUME NEW k \in Tpls, code[k].pc \in {"ring", "save"} PROVE FALSE
    <3>1. Reporting(k)
      BY <2>1 DEF Reporting, WorkPCs
    <3>2. k = Application /\ l = Application
      BY <1>1, <3>1, ReplayAlone
    <3> QED BY <1>1, <2>1, <3>2
  <2> QED BY <2>1
<1>3. replayed \in Nat /\ MaxRecordNumber \in Nat
  BY StatusCodeAssumption DEF TypeInv, StoreOK, StoreType, HobType, MaxRecordNumber
<1>4. /\ hob.slots[replayed].id = replayed + 1 /\ Same(hob.slots[replayed], reported)
      /\ MaxRecordNumber = Len(reported)
  <2>1. replayed \in 0 .. MaxRecordNumber - 1
    BY <1>3
  <2> QED BY <1>1, <2>1 DEF HandOff, ItemsOK, HandedOK
<1>5. Told' = Told + 1 /\ Told' = replayed + 1
  BY <1>1 DEF Told
<1>6. Told' <= Len(reported') /\ report'[l].item = reported'[Told']
  BY <1>3, <1>4, <1>5 DEF Same
<1> QED BY <1>1, <1>2, <1>5, <1>6, RingTold

(* The replay is over when all codes of the PEI phase were told.           *)
LEMMA RingReplayed ==
    ASSUME TypeInv, HandOff, RingOK, NEW l \in Tpls, ReplayEnds(l)
    PROVE  RingOK'
<1>1. /\ code[l].pc = "replay" /\ replayed >= MaxRecordNumber /\ phase' = "boot" /\ Back(l)
      /\ UNCHANGED << ring, reported, report >>
  BY DEF ReplayEnds, At
<1>2. phase = "replay" /\ Early /\ ~Early'
  BY <1>1 DEF Early, TypeInv, Levels, PhaseOK
<1>3. MaxRecordNumber = Len(reported) /\ Told = replayed /\ Told <= Len(reported)
  BY <1>2 DEF HandOff, Told, RingOK
<1>4. Told' = Told
  <2>1. replayed \in Nat /\ Len(reported) \in Nat
    BY SeqTypes DEF TypeInv, StoreOK, StoreType
  <2> QED BY <1>1, <1>2, <1>3, <2>1 DEF Told
<1>5. code'[l].pc \in Rets /\ \A k \in Tpls : k # l => code'[k] = code[k]
  <2>1. code[l].ret \in Rets
    BY DEF TypeInv, Levels, Frames, CodeType, Rets
  <2> QED BY <1>1, <2>1, CodeEffect
<1>6. \A k \in Tpls : \A p \in {"ring", "save"} :
          /\ code'[k].pc = p <=> code[k].pc = p
          /\ code'[k].pc = p => report'[k] = report[k]
  BY <1>1, <1>5 DEF Rets
<1> QED BY <1>1, <1>4, <1>6, RingKept

(* A code of the PEI phase does not go to the ring yet.                    *)
LEMMA RingPei ==
    ASSUME TypeInv, PeiOK, RingOK, NEW class \in Classes, PeiReport(class)
    PROVE  RingOK'
<1>1. phase = "pei" /\ UNCHANGED << phase, replayed, code, ring, report >>
      /\ \E x : reported' = Append(reported, x)
  BY DEF PeiReport
<1>2. Told = replayed /\ Told' = Told
  BY <1>1 DEF Told, Early
<1>3. /\ Len(reported') = Len(reported) + 1
      /\ \A j \in 1 .. Len(reported) : reported'[j] = reported[j]
  <2>1. PICK x : reported' = Append(reported, x)
    BY <1>1
  <2>2. Items \subseteq Items \cup {x} /\ x \in Items \cup {x}
    OBVIOUS
  <2>3. reported \in Seq(Items \cup {x})
    BY <2>2, SeqTypes, SeqMonotonic
  <2> QED BY <2>1, <2>2, <2>3
<1>4. \A k \in Tpls : code[k].pc \notin {"ring", "save"} /\ code'[k].pc \notin {"ring", "save"}
  BY <1>1 DEF PeiOK, ReportPCs, WorkPCs
<1>5. ~InRing /\ ~InRing'
  BY <1>4 DEF InRing
<1>6. PICK n \in Nat, i \in Nat : n = ring.number /\ i = ring.index
  <2>1. ring.number \in Nat /\ ring.index \in Nat
    BY StatusCodeAssumption DEF TypeInv, StoreOK, StoreType, RingType
  <2> QED BY <2>1
<1>7. n = Told /\ RingAt(n, i) /\ n <= Len(reported)
  BY <1>5, <1>6 DEF RingOK
<1>8. RingAt(n, i)'
  BY <1>1, <1>3, <1>7, RingStays
<1>9. ring'.number = Told' /\ RingAt(ring.number, ring.index)'
  BY <1>1, <1>2, <1>6, <1>7, <1>8
<1>10. Told' <= Len(reported')
  BY <1>2, <1>3, <1>6, <1>7, SeqTypes
<1> QED BY <1>4, <1>5, <1>9, <1>10 DEF RingOK

(* What the steps of reports do to the ring.                               *)
LEMMA AsideRing ==
    ASSUME TypeInv, NEW l \in Tpls, NEW q, Aside(l, q),
           ~ReportBegins(l), ~ReplayRecord(l), ~ReplayEnds(l), ~RingTakes(l), ~RingSaves(l)
    PROVE  /\ UNCHANGED << ring, phase, replayed, reported >>
           /\ \A k \in Tpls : \A p \in {"ring", "save"} :
                 /\ code'[k].pc = p <=> code[k].pc = p
                 /\ code'[k].pc = p => report'[k] = report[k]
<1>1. UNCHANGED << ring, phase, replayed, reported >>
  BY DEF Aside, ReportStep, ReportNested, HubRefuses, HubTakes, Acquire, AcquireRefused, GrowFails,
     Grow, Fill, SignalLog, ReportEnds, AskReport, HandlerReports, rest, boot
<1>2. \A k \in Tpls : k # l => code'[k] = code[k] /\ report'[k] = report[k]
  BY AsideKeeps
<1>3. code[l].pc \notin {"ring", "save"}
  BY DEF Aside, ReportStep, ReportNested, HubRefuses, HubTakes, Acquire, AcquireRefused, GrowFails,
     Grow, Fill, SignalLog, ReportEnds, AskReport, HandlerReports, At, CanStart, Below, Active, Tpls
<1>4. code'[l].pc \notin {"ring", "save"}
  <2>1. ASSUME NEW p \in {"acquire", "grow", "fill", "signal", "done"}, Goto(l, p)
        PROVE  code'[l].pc \notin {"ring", "save"}
    BY <2>1, CodeEffect
  <2>2. CASE HubRefuses(l) \/ HubTakes(l) \/ Acquire(l) \/ AcquireRefused(l) \/ GrowFails(l)
             \/ Grow(l) \/ Fill(l) \/ SignalLog(l)
    BY <2>1, <2>2 DEF HubRefuses, HubTakes, Acquire, AcquireRefused, GrowFails, Grow, Fill,
       SignalLog
  <2>3. CASE ReportNested(l) \/ ReportEnds(l)
    <3>1. Back(l) /\ code[l].ret \in Rets
      BY <2>3 DEF ReportNested, ReportEnds, TypeInv, Levels, Frames, CodeType, Rets
    <3> QED BY <3>1, CodeEffect DEF Rets
  <2>4. CASE AskReport(l, q) \/ HandlerReports(l, q)
    <3>1. Start(l, "report") \/ Call(l, "report", "got")
      BY <2>4 DEF AskReport, HandlerReports
    <3>2. code'[l].pc = "report"
      BY <3>1, CodeEffect, CallTurns DEF Turns, TypeInv, Levels, PCs, Rets
    <3> QED BY <3>2
  <2> QED BY <2>2, <2>3, <2>4 DEF Aside, ReportStep
<1> QED BY <1>1, <1>2, <1>3, <1>4

(* The invariant of the ring is inductive.                                 *)
LEMMA RingNext ==
    ASSUME TypeInv, ItemsOK, PeiOK, HandOff, RingOK, [Next]_vars
    PROVE  RingOK'
<1>1. CASE UNCHANGED rest /\ HubAction
  <2>1. /\ UNCHANGED << ring, phase, replayed, reported, report >>
        /\ \A k \in Tpls : \A p \in {"ring", "save"} : code'[k].pc = p <=> code[k].pc = p
    BY <1>1, HubPhase DEF rest, ReportPCs, WorkPCs
  <2>2. Told' = Told
    BY <2>1 DEF Told, Early
  <2> QED BY <2>1, <2>2, RingKept
<1>2. ASSUME NEW l \in Tpls, DrainStep(l) PROVE RingOK'
  <2>1. /\ UNCHANGED << ring, phase, replayed, reported >> /\ code'[l].pc \notin ReportPCs
        /\ \A k \in Tpls : k # l => code'[k] = code[k] /\ report'[k] = report[k]
        /\ code[l].pc \notin {"ring", "save"}
    BY <1>2, DrainPhase DEF DrainStep, DrainBegins, DrainRetrieves, DrainReleases, DrainEmpty,
       DrainEnds, rest, At
  <2>2. Told' = Told
    BY <2>1 DEF Told, Early
  <2>3. \A k \in Tpls : \A p \in {"ring", "save"} :
            /\ code'[k].pc = p <=> code[k].pc = p
            /\ code'[k].pc = p => report'[k] = report[k]
    BY <2>1 DEF ReportPCs, WorkPCs
  <2> QED BY <2>1, <2>2, <2>3, RingKept
<1>3. ASSUME NEW l \in Tpls, NEW q, Aside(l, q) PROVE RingOK'
  <2>0. \A k \in Tpls : k # l => code'[k] = code[k]
    BY <1>3, AsideKeeps
  <2>1. CASE ReportBegins(l)
    <3>1. /\ code[l].pc = "report" /\ Goto(l, "ring") /\ UNCHANGED phase
          /\ reported' = Append(reported, Numbered(report[l].item))
          /\ Note(l, [report[l] EXCEPT !.item = Numbered(report[l].item)])
      BY <2>1 DEF ReportBegins, At, boot
    <3>2. report'[l].item = Numbered(report[l].item)
      BY <3>1, SeqTypes DEF Note, ReportType
    <3> QED BY <2>0, <2>1, <3>1, <3>2, CodeEffect, RingBegins
  <2>2. CASE ReplayRecord(l)
    <3>1. /\ code[l].pc = "replay" /\ Call(l, "ring", "replay") /\ UNCHANGED << phase, reported >>
          /\ replayed < MaxRecordNumber /\ replayed' = replayed + 1
          /\ Note(l, [NoReport EXCEPT !.item = hob.slots[replayed]])
      BY <2>2 DEF ReplayRecord, At
    <3>2. report'[l].item = hob.slots[replayed]
      BY <3>1, SeqTypes DEF Note, NoReport
    <3>3. code'[l].pc = "ring"
      BY <3>1, CallTurns DEF Turns, TypeInv, Levels, PCs, Rets
    <3>4. phase = "replay"
      BY <3>1 DEF TypeInv, Levels, PhaseOK
    <3> QED BY <2>0, <2>2, <3>1, <3>2, <3>3, <3>4, RingReplays
  <2>3. CASE ReplayEnds(l)
    BY <2>3, RingReplayed
  <2>4. CASE RingTakes(l) \/ RingSaves(l)
    BY <2>4, RingTakesIts, RingSavesIts
  <2>5. CASE ~(ReportBegins(l) \/ ReplayRecord(l) \/ ReplayEnds(l) \/ RingTakes(l) \/ RingSaves(l))
    <3>1. /\ UNCHANGED << ring, phase, replayed, reported >>
          /\ \A k \in Tpls : \A p \in {"ring", "save"} :
                 /\ code'[k].pc = p <=> code[k].pc = p
                 /\ code'[k].pc = p => report'[k] = report[k]
      BY <1>3, <2>5, AsideRing
    <3>2. Told' = Told
      BY <3>1 DEF Told, Early
    <3> QED BY <3>1, <3>2, RingKept
  <2> QED BY <2>1, <2>2, <2>3, <2>4, <2>5
<1>4. CASE NotifyLog \/ StartDriver \/ ExitBootServices \/ DataHubInstall \/ UNCHANGED vars
  <2>1. UNCHANGED << reported, replayed, ring, report >>
    BY <1>4 DEF NotifyLog, StartDriver, ExitBootServices, DataHubInstall, vars, rest, boot
  <2>4. Early' <=> Early
    BY <1>4, BootPhase DEF Early
  <2>2. \A k \in Tpls : \/ code[k].pc = "idle" /\ code'[k].pc \in {"begin", "replay"}
                        \/ code'[k] = code[k]
    BY <1>4, OtherMoves
  <2>3. Told' = Told
    BY <2>1, <2>4 DEF Told
  <2> QED BY <2>1, <2>2, <2>3, RingKept
<1>5. ASSUME NEW class \in Classes, PeiReport(class) PROVE RingOK'
  BY <1>5, RingPei
<1> QED BY <1>1, <1>2, <1>3, <1>4, <1>5, NextCases

(* At first the ring is empty.                                             *)
LEMMA RingInit ==
    ASSUME Init
    PROVE  RingOK
<1>1. /\ \A l \in Tpls : code[l].pc = "idle"
      /\ phase = "pei" /\ reported = << >> /\ replayed = 0
      /\ ring.index = 0 /\ ring.number = 0
  BY DEF Init, TplInit, Idle, Ring
<1>2. ~InRing /\ Told = 0 /\ Len(reported) = 0
  BY <1>1 DEF InRing, Told, Early
<1>3. RingAt(0, 0)
  BY StatusCodeAssumption DEF RingAt
<1> QED BY <1>1, <1>2, <1>3 DEF RingOK

(* The remainder of a number that goes round once at most.                 *)
LEMMA RoundOnce ==
    ASSUME NEW m \in Nat \ {0}, NEW a \in 0 .. 2 * m - 1
    PROVE  a % m = IF a < m THEN a ELSE a - m
  OBVIOUS

(* Who reads the table finds the last codes, in the order they had.        *)
LEMMA ReadBackIs ==
    ASSUME StoreType, NEW n \in Nat, NEW i \in Nat, RingAt(n, i), n = ring.number, i = ring.index
    PROVE  \E m \in 0 .. n :
              /\ m = 0 => n = 0
              /\ ReadBack(ring) = [j \in 1 .. m |-> reported[(n - m) + j]]
<1>0. MaxRecords \in Nat \ {0}
  BY StatusCodeAssumption
<1>1. CASE n < MaxRecords
  <2>1. ASSUME NEW j \in 1 .. n PROVE ring.slots[j - 1] = reported[(n - n) + j]
    <3>1. i = n /\ j - 1 \in 0 .. i - 1 /\ (n - i) + ((j - 1) + 1) = (n - n) + j
      BY <1>1 DEF RingAt
    <3>2. ring.slots[j - 1] = reported[(n - i) + ((j - 1) + 1)]
      BY <3>1 DEF RingAt
    <3> QED BY <3>1, <3>2
  <2>2. ReadBack(ring) = [j \in 1 .. n |-> reported[(n - n) + j]]
    BY <1>1, <2>1 DEF ReadBack
  <2> QED BY <2>2
<1>2. CASE n >= MaxRecords
  <2>1. ASSUME NEW j \in 1 .. MaxRecords
        PROVE  ring.slots[(i + j - 1) % MaxRecords] = reported[(n - MaxRecords) + j]
    <3>1. i + j - 1 \in 0 .. 2 * MaxRecords - 1 /\ i < MaxRecords
      BY <1>0 DEF RingAt
    <3>2. (i + j - 1) % MaxRecords
          = IF i + j - 1 < MaxRecords THEN i + j - 1 ELSE (i + j - 1) - MaxRecords
      BY <1>0, <3>1, RoundOnce
    <3>3. CASE i + j - 1 < MaxRecords
      <4>1. i + j - 1 \in i .. MaxRecords - 1
        BY <1>0, <3>3
      <4>2. ring.slots[i + j - 1] = reported[((n - i) + ((i + j - 1) + 1)) - MaxRecords]
        BY <1>2, <4>1 DEF RingAt
      <4>3. ((n - i) + ((i + j - 1) + 1)) - MaxRecords = (n - MaxRecords) + j
        BY <1>0
      <4> QED BY <3>2, <3>3, <4>2, <4>3
    <3>4. CASE ~(i + j - 1 < MaxRecords)
      <4>1. (i + j - 1) - MaxRecords \in 0 .. i - 1
        BY <1>0, <3>4
      <4>2. ring.slots[(i + j - 1) - MaxRecords]
            = reported[(n - i) + (((i + j - 1) - MaxRecords) + 1)]
        BY <4>1 DEF RingAt
      <4>3. (n - i) + (((i + j - 1) - MaxRecords) + 1) = (n - MaxRecords) + j
        BY <1>0
      <4> QED BY <3>2, <3>4, <4>2, <4>3
    <3> QED BY <3>3, <3>4
  <2>2. ReadBack(ring) = [j \in 1 .. MaxRecords |-> reported[(n - MaxRecords) + j]]
    <3>1. ReadBack(ring) = [j \in 1 .. MaxRecords |-> ring.slots[(i + j - 1) % MaxRecords]]
      BY <1>0, <1>2 DEF ReadBack
    <3> QED BY <2>1, <3>1
  <2>3. MaxRecords \in 0 .. n /\ MaxRecords # 0
    BY <1>0, <1>2
  <2> QED BY <2>2, <2>3
<1> QED BY <1>0, <1>1, <1>2

(* Before runtime and after, the table in runtime memory holds the last    *)
(* records that fit, in the order of the reports; as long as the PEI phase *)
(* reports no more than its ring holds.                                    *)
THEOREM RingCorrect ==
    ASSUME \A b \in Budgets : b.handoff <= MaxRecords
    PROVE  Spec => []RingKeepsLast
<1>1. Init => Owned
  BY DEF Init, TplInit, Idle, Owned, Elements, InHands, Held, Tpls, Application, Callback, High
<1>2. TypeInv /\ Owned /\ [Next]_vars => Owned'
  BY OwnedNext
<1>3. TypeInv /\ ItemsOK /\ [Next]_vars => ItemsOK'
  BY ItemsHub, ItemsAside, ItemsDrain, ItemsPei, ItemsBoot, NextCases
<1>4. Init => OrderOK /\ RingOK
  BY OrderInit, RingInit
<1>5. TypeInv /\ TypeInv' /\ Owned /\ ItemsOK /\ OrderOK /\ [Next]_vars => OrderOK'
  BY OrderNext
<1>6. TypeInv /\ ItemsOK /\ OrderOK /\ RingOK /\ [Next]_vars => RingOK'
  BY RingNext DEF OrderOK
<1>7. TypeInv /\ ItemsOK /\ RingOK => RingKeepsLast
  <2> SUFFICES ASSUME TypeInv, ItemsOK, RingOK, phase \in {"boot", "runtime"}, ~InRing
               PROVE  LET back == ReadBack(ring)
                      IN  /\ \A j \in 1 .. Len(back) - 1 : back[j].id + 1 = back[j + 1].id
                          /\ reported # << >> =>
                                back # << >> /\ back[Len(back)] = reported[Len(reported)]
    BY DEF RingKeepsLast
  <2>1. PICK n \in Nat, i \in Nat : n = ring.number /\ i = ring.index
    <3>1. ring.number \in Nat /\ ring.index \in Nat
      BY StatusCodeAssumption DEF TypeInv, StoreOK, StoreType, RingType
    <3> QED BY <3>1
  <2>2. n = Len(reported) /\ RingAt(n, i)
    BY <2>1 DEF RingOK, Told, Early
  <2>3. PICK m \in 0 .. n : /\ m = 0 => n = 0
                            /\ ReadBack(ring) = [j \in 1 .. m |-> reported[(n - m) + j]]
    BY <2>1, <2>2, ReadBackIs DEF TypeInv, StoreOK
  <2> DEFINE back == ReadBack(ring)
  <2>4. Len(back) = m /\ \A j \in 1 .. m : back[j] = reported[(n - m) + j]
    BY <2>3
  <2>5. \A j \in 1 .. m : (n - m) + j \in DOMAIN reported
    BY <2>2, SeqTypes
  <2>6. \A j \in 1 .. m : back[j].id = (n - m) + j
    BY <2>4, <2>5 DEF ItemsOK, NumbersOK
  <2>7. \A j \in 1 .. m - 1 : back[j].id + 1 = back[j + 1].id
    BY <2>6
  <2>8. reported # << >> => m # 0
    BY <2>2, <2>3, SeqTypes
  <2>9. m # 0 => back # << >> /\ back[m] = reported[n]
    BY <2>4
  <2> QED BY <2>2, <2>4, <2>7, <2>8, <2>9
<1> QED BY <1>1, <1>2, <1>3, <1>4, <1>5, <1>6, <1>7, ItemsInit, TypeInvHolds, TypeInvNext, PTL
        DEF Spec

=============================================================================
