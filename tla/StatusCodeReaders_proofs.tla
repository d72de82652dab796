---------------------- MODULE StatusCodeReaders_proofs ----------------------
(***************************************************************************)
(* The readers of the data hub: a filter is returned its records without a *)
(* gap, and when all is quiet it has been returned every one of them. The  *)
(* proofs are in three layers, each an inductive invariant that rests on   *)
(* the ones below: the list of filters and who may change it (ListInv),    *)
(* the counts that readers and nodes keep (CountsInv), and who has yet to  *)
(* bring a filter a record it was not returned (SignalsInv).               *)
(***************************************************************************)
EXTENDS StatusCode_proofs

(* Where level l is in the functions of the data hub: the report of a      *)
(* handler that reads is a part of its reading.                            *)
Spot(l) == IF code[l].ret = "got" THEN "got" ELSE code[l].pc
ReadPCs == {"read", "store", "got"}
OwnPCs == {"register", "link", "announce", "unregister", "unlink"}
Spots == ReadPCs \cup OwnPCs \cup {"next", "walk"}

(* The data hub keeps its lists. *)
Still == UNCHANGED << nodes, filters, records, seen >>
(* Every level but l stays where it is. *)
Others(l) == \A k \in Tpls : k # l => Spot(k)' = Spot(k) /\ call'[k] = call[k]
(* A step that is no concern of the readers. *)
Elsewhere ==
    /\ Still /\ pending \cap Filters \subseteq pending'
    /\ \A k \in Tpls : \/ Spot(k)' = Spot(k) /\ call'[k] = call[k]
                       \/ Spot(k) \notin Spots /\ Spot(k)' \notin Spots

(* A function of the data hub is where its program counter is, ...         *)
LEMMA SpotIsPc ==
    ASSUME TypeInv, NEW l \in Tpls, code[l].pc \in HubPCs \cup DrainPCs \cup {"idle", "replay"}
    PROVE  Spot(l) = code[l].pc /\ code[l].ret # "got"
  BY DEF TypeInv, Levels, Frames, FrameOK, Spot, HubPCs, LogPCs, DrainPCs, ReportPCs, WorkPCs

(* ... it goes on to another place, ...                                    *)
LEMMA GoesSpot ==
    ASSUME TypeInv, NEW l \in Tpls, NEW p \in HubPCs, code[l].pc \in HubPCs,
           Goto(l, p) \/ Lock(l, p) \/ Unlock(l, p)
    PROVE  Spot(l)' = p /\ \A k \in Tpls : k # l => Spot(k)' = Spot(k)
<1>1. code[l].ret # "got" /\ Frames /\ p \in PCs
  BY SpotIsPc DEF TypeInv, Levels, HubPCs, LogPCs, PCs
<1>2. \E t : Turns(l, p, code[l].ret, t)
  <2>1. CASE Goto(l, p)
    BY <1>1, <2>1, GotoTurns
  <2>2. CASE Lock(l, p)
    <3>1. Notify \in Tpls
      BY DEF Notify, Tpls, Application, High
    <3> QED BY <1>1, <2>2, <3>1, LockTurns DEF Lock
  <2>3. CASE Unlock(l, p)
    BY <1>1, <2>3, LockTurns DEF Unlock
  <2> QED BY <2>1, <2>2, <2>3
<1> QED BY <1>1, <1>2 DEF Turns, Spot

(* ... it ends, to the notify function of the log or to nothing, ...       *)
LEMMA EndSpot ==
    ASSUME TypeInv, NEW l \in Tpls, code[l].pc \in HubPCs, End(l)
    PROVE  /\ Spot(l)' \in {"idle", "release"} /\ call'[l] = NoCall
           /\ Others(l)
<1>1. HubTurns(l, code[l].ret, "idle", l) /\ code[l].ret \in {"idle", "release"}
  BY HubBack DEF TypeInv, End
<1>2. call'[l] = NoCall /\ \A k \in Tpls : k # l => call'[k] = call[k]
  BY LocalsEffect DEF End, Locals
<1> QED BY <1>1, <1>2 DEF HubTurns, Turns, Spot, Others

(* ... and it starts where nothing was.                                    *)
LEMMA StartSpot ==
    ASSUME TypeInv, NEW l \in Tpls, NEW p \in PCs, Below(l), Start(l, p)
    PROVE  Spot(l) = "idle" /\ Spot(l)' = p /\ \A k \in Tpls : k # l => Spot(k)' = Spot(k)
<1>1. code[l].pc = "idle"
  BY DEF Below, Active, Tpls
<1>2. Spot(l) = "idle"
  BY <1>1, SpotIsPc
<1>3. Turns(l, p, "idle", l)
  BY StartTurns DEF TypeInv, Levels
<1> QED BY <1>2, <1>3 DEF Turns, Spot

(* The status code driver is no concern of the readers.                    *)
LEMMA StatusElsewhere ==
    ASSUME TypeInv, Next, ~HubAction
    PROVE  Elsewhere
<1> USE DEF At
<1>0. Frames /\ \A k \in Tpls : code[k].ret \in Rets
  BY DEF TypeInv, Levels, Frames, CodeType, Rets
<1>1. ASSUME NEW l \in Tpls, NEW p \in PCs \ Spots, code[l].pc \notin Spots, Goto(l, p)
      PROVE  \A k \in Tpls : Spot(k)' = Spot(k) \/ (Spot(k) \notin Spots /\ Spot(k)' \notin Spots)
  <2>1. Turns(l, p, code[l].ret, code[l].tpl)
    BY <1>0, <1>1, GotoTurns
  <2> QED BY <1>1, <2>1 DEF Turns, Spot
<1>2. ASSUME NEW l \in Tpls, code[l].pc \notin Spots, Back(l)
      PROVE  \A k \in Tpls : Spot(k)' = Spot(k) \/ (Spot(k) \notin Spots /\ Spot(k)' \notin Spots)
  <2>1. Turns(l, code[l].ret, "idle", l)
    BY <1>0, <1>2, BackTurns
  <2>2. code[l].ret \in Rets
    BY <1>0
  <2> QED BY <1>2, <2>1, <2>2 DEF Turns, Spot, Rets, Spots, ReadPCs, OwnPCs
<1>3. ASSUME NEW l \in Tpls, NEW p \in PCs \ Spots, Below(l), Start(l, p)
      PROVE  \A k \in Tpls : Spot(k)' = Spot(k) \/ (Spot(k) \notin Spots /\ Spot(k)' \notin Spots)
  BY <1>3, StartSpot DEF Spots, ReadPCs, OwnPCs
<1>4. ASSUME NEW l \in Tpls, Plain(l) \/ GrowFails(l)
      PROVE  Elsewhere
  <2>1. UNCHANGED << hub, call >>
    BY <1>4, PlainSteps DEF GrowFails
  <2>2. pending \subseteq pending'
    BY <1>4, PlainPending DEF GrowFails
  <2>3. \A k \in Tpls : Spot(k)' = Spot(k) \/ (Spot(k) \notin Spots /\ Spot(k)' \notin Spots)
    <3>1. CASE \/ ReportBegins(l) \/ RingTakes(l) \/ RingSaves(l) \/ HubRefuses(l) \/ HubTakes(l)
               \/ Acquire(l) \/ AcquireRefused(l) \/ GrowFails(l) \/ Grow(l) \/ Fill(l)
               \/ SignalLog(l)
      <4>1. code[l].pc \in ReportPCs /\ \E p \in WorkPCs : Goto(l, p)
        BY <3>1 DEF ReportBegins, RingTakes, RingSaves, HubRefuses, HubTakes, Acquire,
           AcquireRefused, GrowFails, Grow, Fill, SignalLog, ReportPCs, WorkPCs
      <4> QED BY <1>1, <4>1 DEF ReportPCs, WorkPCs, PCs, Spots, ReadPCs, OwnPCs
    <3>2. CASE DrainBegins(l) \/ DrainReleases(l) \/ DrainEmpty(l)
      <4>1. code[l].pc \in DrainPCs /\ (Back(l) \/ \E p \in {"drain", "end"} : Goto(l, p))
        BY <3>2 DEF DrainBegins, DrainReleases, DrainEmpty, DrainPCs
      <4> QED BY <1>1, <1>2, <4>1 DEF DrainPCs, PCs, Spots, ReadPCs, OwnPCs
    <3>3. CASE ReportNested(l) \/ ReportEnds(l) \/ DrainEnds(l) \/ ReplayEnds(l)
      BY <1>2, <3>3 DEF ReportNested, ReportEnds, DrainEnds, ReplayEnds, Spots, ReadPCs, OwnPCs
    <3>4. CASE ReplayRecord(l)
      <4>1. code[l].pc = "replay" /\ Call(l, "ring", "replay")
        BY <3>4 DEF ReplayRecord
      <4>2. Turns(l, "ring", "replay", code[l].tpl) /\ Spot(l) = "replay"
        BY <1>0, <4>1, CallTurns, SpotIsPc DEF PCs, Rets
      <4> QED BY <4>2 DEF Turns, Spot, Spots, ReadPCs, OwnPCs
    <3> QED BY <1>4, <3>1, <3>2, <3>3, <3>4 DEF Plain
  <2> QED BY <2>1, <2>2, <2>3 DEF Elsewhere, Still, hub
<1>5. ASSUME NEW l \in Tpls, NEW q \in Reports, AskReport(l, q) PROVE Elsewhere
  <2>1. Below(l) /\ Start(l, "report") /\ UNCHANGED << pending, hub, call >>
    BY <1>5 DEF AskReport, CanStart
  <2> QED BY <1>3, <2>1 DEF Elsewhere, Still, hub, PCs, Spots, ReadPCs, OwnPCs
<1>6. ASSUME NEW l \in Tpls, NEW q \in Reports, HandlerReports(l, q) PROVE Elsewhere
  <2>1. code[l].pc = "got" /\ Call(l, "report", "got") /\ UNCHANGED << pending, hub, call >>
    BY <1>6 DEF HandlerReports
  <2>2. Turns(l, "report", "got", code[l].tpl) /\ Spot(l) = "got"
    BY <1>0, <2>1, CallTurns, SpotIsPc DEF PCs, Rets, HubPCs
  <2> QED BY <2>1, <2>2 DEF Elsewhere, Still, hub, Turns, Spot
<1>7. CASE NotifyLog \/ StartDriver
  <2>1. PICK l \in Tpls, p \in {"begin", "replay"} : Below(l) /\ Start(l, p)
    BY <1>7 DEF NotifyLog, StartDriver, CanStart, Tpls, Application, Callback, High
  <2>2. UNCHANGED << hub, call >> /\ pending \cap Filters \subseteq pending'
    BY <1>7, StatusCodeAssumption DEF NotifyLog, StartDriver
  <2> QED BY <1>3, <2>1, <2>2 DEF Elsewhere, Still, hub, PCs, Spots, ReadPCs, OwnPCs
<1>8. CASE ExitBootServices \/ DataHubInstall \/ \E class \in Classes : PeiReport(class)
  BY <1>8 DEF ExitBootServices, DataHubInstall, PeiReport, Elsewhere, Still, hub, Spot
<1>9. ASSUME NEW l \in Tpls, DrainRetrieves(l) PROVE Elsewhere
  <2>1. code[l].pc = "drain" /\ Call(l, "log", "release") /\ UNCHANGED << pending, hub >>
    BY <1>9 DEF DrainRetrieves
  <2>2. Turns(l, "log", "release", code[l].tpl) /\ Spot(l) = "drain"
    BY <1>0, <2>1, CallTurns, SpotIsPc DEF PCs, Rets, DrainPCs
  <2>3. \A k \in Tpls : k # l => call'[k] = call[k]
    BY <1>9 DEF DrainRetrieves, Locals, TypeInv, HubOK, HubType
  <2> QED BY <2>1, <2>2, <2>3 DEF Elsewhere, Still, hub, Turns, Spot, Spots, ReadPCs, OwnPCs
<1> QED BY <1>4, <1>5, <1>6, <1>7, <1>8, <1>9, Steps

(* Neither is a step that changes nothing.                                 *)
LEMMA StutterElsewhere == UNCHANGED vars => Elsewhere
  BY DEF vars, hub, Elsewhere, Still, Spot
-----------------------------------------------------------------------------
(* What each step of the data hub does, as the readers see it. *)

(* The end of a function leaves the data hub. *)
LEMMA EndGone ==
    ASSUME TypeInv, NEW l \in Tpls, code[l].pc \in HubPCs, End(l)
    PROVE  Spot(l)' \notin Spots /\ Others(l)
  BY EndSpot DEF Spots, ReadPCs, OwnPCs

(* A record is numbered, or logging fails or begins. *)
LEMMA LogElsewhere ==
    ASSUME TypeInv, NEW l \in Tpls, NEW class,
           LogAcquire(l) \/ LogNoMemory(l) \/ LogNumber(l) \/ AskLog(l, class)
    PROVE  Elsewhere
<1> USE DEF At, HubPCs, LogPCs, Spots, ReadPCs, OwnPCs
<1>1. Still /\ pending' = pending
  BY DEF LogAcquire, LogNoMemory, LogNumber, AskLog, Still, hub
<1>2. CASE AskLog(l, class)
  <2>1. Spot(l) = "idle" /\ Spot(l)' = "log" /\ \A k \in Tpls : k # l => Spot(k)' = Spot(k)
    BY <1>2, StartSpot DEF AskLog, CanStart, PCs
  <2>2. \A k \in Tpls : k # l => call'[k] = call[k]
    BY <1>2, LocalsEffect DEF AskLog
  <2> QED BY <1>1, <2>1, <2>2 DEF Elsewhere
<1>3. CASE LogAcquire(l) \/ LogNoMemory(l) \/ LogNumber(l)
  <2>1. code[l].pc \in {"log", "number"}
    BY <1>3 DEF LogAcquire, LogNoMemory, LogNumber
  <2>2. Spot(l) = code[l].pc
    BY <2>1, SpotIsPc
  <2>3. CASE End(l)
    <3>1. Spot(l)' \notin Spots /\ Others(l)
      BY <2>1, <2>3, EndGone
    <3> QED BY <1>1, <2>1, <2>2, <3>1 DEF Elsewhere, Others
  <2>4. CASE ~End(l)
    <3>1. PICK p \in {"number", "insert"} : Goto(l, p) \/ Lock(l, p)
      BY <1>3, <2>4 DEF LogAcquire, LogNoMemory, LogNumber
    <3>2. Spot(l)' = p /\ \A k \in Tpls : k # l => Spot(k)' = Spot(k)
      BY <2>1, <3>1, GoesSpot
    <3>3. \A k \in Tpls : k # l => call'[k] = call[k]
      BY <1>3, <2>4, LocalsEffect DEF LogAcquire, LogNoMemory, LogNumber
    <3> QED BY <1>1, <2>1, <2>2, <3>1, <3>2, <3>3 DEF Elsewhere
  <2> QED BY <2>3, <2>4
<1> QED BY <1>2, <1>3

(* What a level keeps, field by field. *)
LEMMA CallFields ==
    ASSUME TypeInv, NEW l \in Tpls
    PROVE  /\ call[l] \in CallType /\ call[l].mtc \in Nat /\ call[l].rec \in Nat
           /\ call[l].at \in Nat /\ call[l].at \in 0 .. Len(nodes)
           /\ call[l].again \in BOOLEAN
<1>1. call[l] \in CallType /\ call[l].at \in 0 .. Len(nodes)
  BY DEF TypeInv, HubOK, HubType, CallOK
<1> QED BY <1>1 DEF CallType

(* The record is inserted, and the walk over the filters begins.           *)
LEMMA InsertEffect ==
    ASSUME TypeInv, NEW l \in Tpls, LogInsert(l)
    PROVE  /\ Spot(l) = "insert" /\ Spot(l)' = "next" /\ Others(l)
           /\ call'[l].at = 0 /\ LogRecord(l)' = LogRecord(l)
           /\ UNCHANGED << nodes, filters, seen, pending >>
<1> DEFINE c == [call[l] EXCEPT !.at = 0]
<1>1. code[l].pc = "insert" /\ Unlock(l, "next") /\ Locals(l, c)
      /\ UNCHANGED << nodes, filters, seen, pending >>
  BY DEF LogInsert, At
<1>2. c.at = 0 /\ c.mtc = call[l].mtc /\ c.status = call[l].status /\ c.item = call[l].item
  BY CallFields DEF CallType
<1> HIDE DEF c
<1>3. call'[l] = c /\ \A k \in Tpls : k # l => call'[k] = call[k]
  BY <1>1, LocalsEffect
<1>4. Spot(l) = "insert" /\ Spot(l)' = "next" /\ \A k \in Tpls : k # l => Spot(k)' = Spot(k)
  BY <1>1, SpotIsPc, GoesSpot DEF HubPCs, LogPCs
<1> QED BY <1>1, <1>2, <1>3, <1>4 DEF Others, LogRecord

(* The walk goes on to the next node, or ends.                             *)
LEMMA NextEffect ==
    ASSUME TypeInv, NEW l \in Tpls, LogNext(l)
    PROVE  /\ Spot(l) = "next" /\ Others(l) /\ Still /\ pending' = pending
           /\ \/ ForwardLink(call[l].at) = 0 /\ Spot(l)' \notin Spots
              \/ /\ Spot(l)' = "walk" /\ call'[l].at = ForwardLink(call[l].at)
                 /\ LogRecord(l)' = LogRecord(l)
<1> DEFINE n == ForwardLink(call[l].at)
           c == [call[l] EXCEPT !.at = n]
<1>1. code[l].pc = "next" /\ Still /\ pending' = pending
      /\ ((n = 0 /\ End(l)) \/ (Locals(l, c) /\ Goto(l, "walk")))
  BY DEF LogNext, At, Still, hub
<1>2. c.at = n /\ c.mtc = call[l].mtc /\ c.status = call[l].status /\ c.item = call[l].item
  BY CallFields DEF CallType
<1> HIDE DEF c, n
<1>3. Spot(l) = "next"
  BY <1>1, SpotIsPc DEF HubPCs, LogPCs
<1>4. CASE n = 0 /\ End(l)
  BY <1>1, <1>3, <1>4, EndGone DEF HubPCs, LogPCs, n
<1>5. CASE Locals(l, c) /\ Goto(l, "walk")
  <2>1. call'[l] = c /\ \A k \in Tpls : k # l => call'[k] = call[k]
    BY <1>5, LocalsEffect
  <2>2. Spot(l)' = "walk" /\ \A k \in Tpls : k # l => Spot(k)' = Spot(k)
    BY <1>1, <1>5, GoesSpot DEF HubPCs, LogPCs
  <2> QED BY <1>1, <1>2, <1>3, <2>1, <2>2 DEF Others, LogRecord, n
<1> QED BY <1>1, <1>4, <1>5

(* The filter of the node is signaled, if the record is for it.            *)
LEMMA SignalEffect ==
    ASSUME TypeInv, NEW l \in Tpls, LogSignal(l)
    PROVE  /\ Spot(l) = "walk" /\ Spot(l)' = "next" /\ call' = call /\ Others(l) /\ Still
           /\ pending \subseteq pending'
           /\ Interested(call[l].at, LogRecord(l)) => nodes[call[l].at].event \in pending'
<1>1. code[l].pc = "walk" /\ Goto(l, "next") /\ call' = call /\ Still
  BY DEF LogSignal, At, Still, hub
<1>2. Spot(l) = "walk" /\ Spot(l)' = "next" /\ \A k \in Tpls : k # l => Spot(k)' = Spot(k)
  BY <1>1, SpotIsPc, GoesSpot DEF HubPCs, LogPCs
<1>3. /\ pending \subseteq pending'
      /\ Interested(call[l].at, LogRecord(l)) => nodes[call[l].at].event \in pending'
  BY DEF LogSignal, Signal
<1> QED BY <1>1, <1>2, <1>3 DEF Others

(* A filter asks for a record that is not there, ...                       *)
LEMMA FailsEffect ==
    ASSUME TypeInv, NEW l \in Tpls, ReadFails(l)
    PROVE  /\ Spot(l) = "read" /\ Spot(l)' \notin Spots /\ Others(l) /\ Still /\ pending' = pending
           /\ Found(l, FindFilterDriverByEvent(call[l].ev)).rec = 0
<1>1. code[l].pc = "read" /\ End(l) /\ Still /\ pending' = pending
      /\ Found(l, FindFilterDriverByEvent(call[l].ev)).rec = 0
  BY DEF ReadFails, Reading, At, Still, hub
<1> QED BY <1>1, SpotIsPc, EndGone DEF HubPCs

(* ... or for one that is, ...                                             *)
LEMMA FindsEffect ==
    ASSUME TypeInv, NEW l \in Tpls, ReadFinds(l)
    PROVE  LET n == FindFilterDriverByEvent(call[l].ev)
           IN  /\ Spot(l) = "read" /\ Spot(l)' = "store" /\ Others(l) /\ Still /\ pending' = pending
               /\ Found(l, n).rec # 0
               /\ call'[l].at = n /\ call'[l].ev = call[l].ev
               /\ call'[l].rec = Found(l, n).rec /\ call'[l].mtc = Found(l, n).next
               /\ call'[l].again <=> call[l].mtc = 0 /\ nodes[n].next # 0
<1> DEFINE n == FindFilterDriverByEvent(call[l].ev)
           again == call[l].mtc = 0 /\ nodes[n].next # 0
           c == [call[l] EXCEPT !.at = n, !.rec = Found(l, n).rec, !.mtc = Found(l, n).next,
                                !.again = again]
<1>1. code[l].pc = "read" /\ Goto(l, "store") /\ Locals(l, c) /\ Still /\ pending' = pending
      /\ Found(l, n).rec # 0
  BY DEF ReadFinds, Reading, At, Still, hub
<1>2. c.at = n /\ c.rec = Found(l, n).rec /\ c.mtc = Found(l, n).next /\ c.ev = call[l].ev
      /\ (c.again <=> again)
  <2> HIDE DEF n, again
  <2> QED BY CallFields DEF CallType
<1> HIDE DEF c
<1>3. call'[l] = c /\ \A k \in Tpls : k # l => call'[k] = call[k]
  BY <1>1, LocalsEffect
<1>4. Spot(l) = "read" /\ Spot(l)' = "store" /\ \A k \in Tpls : k # l => Spot(k)' = Spot(k)
  BY <1>1, SpotIsPc, GoesSpot DEF HubPCs
<1> QED BY <1>1, <1>2, <1>3, <1>4 DEF Others

(* ... which it is returned.                                               *)
LEMMA StoresEffect ==
    ASSUME TypeInv, NEW l \in Tpls, ReadStores(l)
    PROVE  LET c == call[l]
               after == GetNextDataRecord(ClassesOf[c.ev], c.mtc)
               moved == c.again /\ c.mtc # 0
               returned == IF moved THEN after.rec ELSE c.rec
               next == IF c.mtc # 0 THEN c.mtc ELSE IF c.again THEN nodes[c.at].next ELSE c.rec
           IN  /\ Spot(l) = "store" /\ Spot(l)' = "got" /\ Others(l)
               /\ UNCHANGED << pending, records, filters >>
               /\ nodes' = [nodes EXCEPT ![c.at].next = next]
               /\ seen' = [seen EXCEPT ![c.ev] = @ \cup {returned}]
               /\ call'[l].ev = c.ev
               /\ call'[l].mtc = IF moved THEN after.next ELSE c.mtc
<1> DEFINE b == call[l]
           after == GetNextDataRecord(ClassesOf[b.ev], b.mtc)
           moved == b.again /\ b.mtc # 0
           returned == IF moved THEN after.rec ELSE b.rec
           mtc == IF moved THEN after.next ELSE b.mtc
           c == [b EXCEPT !.rec = returned, !.mtc = mtc]
           next == IF b.mtc # 0 THEN b.mtc ELSE IF b.again THEN nodes[b.at].next ELSE b.rec
<1>1. /\ code[l].pc = "store" /\ Goto(l, "got")
      /\ nodes' = [nodes EXCEPT ![b.at].next = next]
      /\ seen' = [seen EXCEPT ![b.ev] = @ \cup {returned}]
      /\ UNCHANGED << pending, records, filters >>
  BY DEF ReadStores, At
<1>2. Locals(l, c)
  BY DEF ReadStores
<1>3. c.ev = b.ev /\ c.mtc = mtc
  <2> HIDE DEF returned, mtc
  <2> QED BY CallFields DEF CallType
<1> HIDE DEF c
<1>4. call'[l] = c /\ \A k \in Tpls : k # l => call'[k] = call[k]
  BY <1>2, LocalsEffect
<1>5. Spot(l) = "store" /\ Spot(l)' = "got" /\ \A k \in Tpls : k # l => Spot(k)' = Spot(k)
  BY <1>1, SpotIsPc, GoesSpot DEF HubPCs
<1> QED BY <1>1, <1>3, <1>4, <1>5 DEF Others

(* It asks for the next one, or is done.                                   *)
LEMMA ReadsOnEffect ==
    ASSUME TypeInv, NEW l \in Tpls, ReadGoesOn(l)
    PROVE  /\ Spot(l) = "got" /\ Others(l) /\ Still /\ pending' = pending
           /\ \/ call[l].mtc # 0 /\ Spot(l)' = "read" /\ call' = call
              \/ call[l].mtc = 0 /\ Spot(l)' \notin Spots
<1>1. code[l].pc = "got" /\ Still /\ pending' = pending
      /\ (\/ call[l].mtc # 0 /\ Goto(l, "read") /\ call' = call
          \/ call[l].mtc = 0 /\ End(l))
  BY DEF ReadGoesOn, At, Still, hub
<1>2. Spot(l) = "got"
  BY <1>1, SpotIsPc DEF HubPCs
<1>3. CASE call[l].mtc = 0 /\ End(l)
  BY <1>1, <1>2, <1>3, EndGone DEF HubPCs
<1>4. CASE call[l].mtc # 0 /\ Goto(l, "read") /\ call' = call
  BY <1>1, <1>2, <1>4, GoesSpot DEF HubPCs, Others
<1> QED BY <1>1, <1>3, <1>4

(* Registering: the search, the link, the signal.                          *)
LEMMA RegisterEffect ==
    ASSUME TypeInv, NEW l \in Tpls
    PROVE  /\ RegisterFinds(l) =>
                 /\ Spot(l) = "register" /\ Others(l) /\ Still /\ pending' = pending
                 /\ \/ Spot(l)' \notin Spots
                    \/ FindFilterDriverByEvent(call[l].ev) = 0 /\ Spot(l)' = "link" /\ call' = call
           /\ RegisterLinks(l) =>
                 /\ Spot(l) = "link" /\ Spot(l)' = "announce" /\ Others(l) /\ call' = call
                 /\ UNCHANGED << pending, records, seen >>
                 /\ nodes' = Append(nodes, [event |-> call[l].ev, next |-> 0, link |-> 0])
                 /\ filters' = Append(filters, Len(nodes) + 1)
           /\ RegisterSignals(l) =>
                 /\ Spot(l) = "announce" /\ Spot(l)' \notin Spots /\ Others(l) /\ Still
                 /\ pending' = pending \cup {call[l].ev}
<1>1. ASSUME RegisterFinds(l)
      PROVE  /\ Spot(l) = "register" /\ Others(l) /\ Still /\ pending' = pending
             /\ \/ Spot(l)' \notin Spots
                \/ FindFilterDriverByEvent(call[l].ev) = 0 /\ Spot(l)' = "link" /\ call' = call
  <2>1. code[l].pc = "register" /\ Still /\ pending' = pending
        /\ (\/ End(l)
            \/ FindFilterDriverByEvent(call[l].ev) = 0 /\ Goto(l, "link") /\ call' = call)
    BY <1>1 DEF RegisterFinds, At, Still, hub
  <2>2. Spot(l) = "register"
    BY <2>1, SpotIsPc DEF HubPCs
  <2>3. CASE End(l)
    BY <2>1, <2>2, <2>3, EndGone DEF HubPCs
  <2>4. CASE FindFilterDriverByEvent(call[l].ev) = 0 /\ Goto(l, "link") /\ call' = call
    BY <2>1, <2>2, <2>4, GoesSpot DEF HubPCs, Others
  <2> QED BY <2>1, <2>3, <2>4
<1>2. ASSUME RegisterLinks(l)
      PROVE  /\ Spot(l) = "link" /\ Spot(l)' = "announce" /\ Others(l) /\ call' = call
             /\ UNCHANGED << pending, records, seen >>
             /\ nodes' = Append(nodes, [event |-> call[l].ev, next |-> 0, link |-> 0])
             /\ filters' = Append(filters, Len(nodes) + 1)
  <2>1. /\ code[l].pc = "link" /\ Goto(l, "announce") /\ call' = call
        /\ UNCHANGED << pending, records, seen >>
        /\ nodes' = Append(nodes, [event |-> call[l].ev, next |-> 0, link |-> 0])
        /\ filters' = Append(filters, Len(nodes) + 1)
    BY <1>2 DEF RegisterLinks, At
  <2> QED BY <2>1, SpotIsPc, GoesSpot DEF HubPCs, Others
<1>3. ASSUME RegisterSignals(l)
      PROVE  /\ Spot(l) = "announce" /\ Spot(l)' \notin Spots /\ Others(l) /\ Still
             /\ pending' = pending \cup {call[l].ev}
  <2>1. code[l].pc = "announce" /\ End(l) /\ Still /\ pending' = pending \cup {call[l].ev}
    BY <1>3 DEF RegisterSignals, At, Signal, Still, hub
  <2> QED BY <2>1, SpotIsPc, EndGone DEF HubPCs
<1> QED BY <1>1, <1>2, <1>3

(* Unregistering: the search, the removal, and who asks for it.            *)
LEMMA UnregisterEffect ==
    ASSUME TypeInv, NEW l \in Tpls
    PROVE  /\ UnregisterFinds(l) =>
                 /\ Spot(l) = "unregister" /\ Others(l) /\ Still /\ pending' = pending
                 /\ \/ FindFilterDriverByEvent(call[l].ev) = 0 /\ Spot(l)' \notin Spots
                    \/ /\ FindFilterDriverByEvent(call[l].ev) # 0 /\ Spot(l)' = "unlink"
                       /\ call'[l].at = FindFilterDriverByEvent(call[l].ev)
                       /\ call'[l].ev = call[l].ev
           /\ UnregisterUnlinks(l) =>
                 /\ Spot(l) = "unlink" /\ Spot(l)' \notin Spots /\ Others(l)
                 /\ UNCHANGED << pending, records, seen >>
                 /\ nodes' = [nodes EXCEPT ![call[l].at].link = ForwardLink(call[l].at)]
                 /\ filters' = Removed(call[l].at)
           /\ HandlerUnregisters(l) =>
                 /\ Spot(l) = "got" /\ Spot(l)' = "unregister" /\ Others(l) /\ call' = call
                 /\ Still /\ pending' = pending /\ Owner(call[l].ev)
<1>1. ASSUME UnregisterFinds(l)
      PROVE  /\ Spot(l) = "unregister" /\ Others(l) /\ Still /\ pending' = pending
             /\ \/ FindFilterDriverByEvent(call[l].ev) = 0 /\ Spot(l)' \notin Spots
                \/ /\ FindFilterDriverByEvent(call[l].ev) # 0 /\ Spot(l)' = "unlink"
                   /\ call'[l].at = FindFilterDriverByEvent(call[l].ev)
                   /\ call'[l].ev = call[l].ev
  <2> DEFINE n == FindFilterDriverByEvent(call[l].ev)
             c == [call[l] EXCEPT !.at = n]
  <2>1. code[l].pc = "unregister" /\ Still /\ pending' = pending
        /\ ((n = 0 /\ End(l)) \/ (n # 0 /\ Locals(l, c) /\ Goto(l, "unlink")))
    BY <1>1 DEF UnregisterFinds, At, Still, hub
  <2>2. Spot(l) = "unregister"
    BY <2>1, SpotIsPc DEF HubPCs
  <2>3. CASE n = 0 /\ End(l)
    BY <2>1, <2>2, <2>3, EndGone DEF HubPCs
  <2>4. CASE n # 0 /\ Locals(l, c) /\ Goto(l, "unlink")
    <3>1. c.at = n /\ c.ev = call[l].ev
      <4> HIDE DEF n
      <4> QED BY CallFields DEF CallType
    <3> HIDE DEF c
    <3>2. call'[l] = c /\ \A k \in Tpls : k # l => call'[k] = call[k]
      BY <2>4, LocalsEffect
    <3>3. Spot(l)' = "unlink" /\ \A k \in Tpls : k # l => Spot(k)' = Spot(k)
      BY <2>1, <2>4, GoesSpot DEF HubPCs
    <3> QED BY <2>1, <2>2, <2>4, <3>1, <3>2, <3>3 DEF Others
  <2> QED BY <2>1, <2>3, <2>4
<1>2. ASSUME UnregisterUnlinks(l)
      PROVE  /\ Spot(l) = "unlink" /\ Spot(l)' \notin Spots /\ Others(l)
             /\ UNCHANGED << pending, records, seen >>
             /\ nodes' = [nodes EXCEPT ![call[l].at].link = ForwardLink(call[l].at)]
             /\ filters' = Removed(call[l].at)
  <2>1. /\ code[l].pc = "unlink" /\ End(l) /\ UNCHANGED << pending, records, seen >>
        /\ nodes' = [nodes EXCEPT ![call[l].at].link = ForwardLink(call[l].at)]
        /\ filters' = Removed(call[l].at)
    BY <1>2 DEF UnregisterUnlinks, At
  <2> QED BY <2>1, SpotIsPc, EndGone DEF HubPCs
<1>3. ASSUME HandlerUnregisters(l)
      PROVE  /\ Spot(l) = "got" /\ Spot(l)' = "unregister" /\ Others(l) /\ call' = call
             /\ Still /\ pending' = pending /\ Owner(call[l].ev)
  <2>1. /\ code[l].pc = "got" /\ Goto(l, "unregister")
        /\ call' = call /\ Still /\ pending' = pending
        /\ Owner(call[l].ev)
    BY <1>3 DEF HandlerUnregisters, At, Still, hub
  <2> QED BY <2>1, SpotIsPc, GoesSpot DEF HubPCs, Others
<1> QED BY <1>1, <1>2, <1>3

(* What is begun for event e: to register, unregister or read.             *)
LEMMA BeginEffect ==
    ASSUME TypeInv, NEW l \in Tpls, NEW e
    PROVE  /\ AskRegister(l, e) =>
                 /\ Spot(l) = "idle" /\ Spot(l)' = "register" /\ Others(l) /\ call'[l].ev = e
                 /\ Still /\ pending' = pending /\ Owner(e)
           /\ AskUnregister(l, e) =>
                 /\ Spot(l) = "idle" /\ Spot(l)' = "unregister" /\ Others(l) /\ call'[l].ev = e
                 /\ Still /\ pending' = pending /\ Owner(e)
           /\ NotifyFilter(e) /\ l = EventTpl[e] =>
                 /\ Spot(l) = "idle" /\ Spot(l)' = "read" /\ Others(l)
                 /\ call'[l].ev = e /\ call'[l].mtc = 0
                 /\ Still /\ pending' = pending \ {e}
<1> DEFINE c == [NoCall EXCEPT !.ev = e]
<1>1. c.ev = e /\ c.mtc = 0
  BY DEF NoCall
<1> HIDE DEF c
<1>2. ASSUME NEW p \in {"register", "unregister", "read"}, Below(l), Start(l, p), Locals(l, c)
      PROVE  /\ Spot(l) = "idle" /\ Spot(l)' = p /\ Others(l) /\ call'[l].ev = e
             /\ call'[l].mtc = 0
  <2>1. Spot(l) = "idle" /\ Spot(l)' = p /\ \A k \in Tpls : k # l => Spot(k)' = Spot(k)
    BY <1>2, StartSpot DEF PCs
  <2>2. call'[l] = c /\ \A k \in Tpls : k # l => call'[k] = call[k]
    BY <1>2, LocalsEffect
  <2> QED BY <1>1, <2>1, <2>2 DEF Others
<1>3. AskRegister(l, e) =>
          /\ Below(l) /\ Start(l, "register") /\ Locals(l, c) /\ Still /\ pending' = pending
          /\ Owner(e)
  BY DEF AskRegister, CanStart, Still, hub, c
<1>4. AskUnregister(l, e) =>
          /\ Below(l) /\ Start(l, "unregister") /\ Locals(l, c) /\ Still /\ pending' = pending
          /\ Owner(e)
  BY DEF AskUnregister, CanStart, Still, hub, c
<1>5. NotifyFilter(e) /\ l = EventTpl[e] =>
          /\ Below(l) /\ Start(l, "read") /\ Locals(l, c) /\ Still /\ pending' = pending \ {e}
  BY DEF NotifyFilter, Still, hub, c
<1> QED BY <1>2, <1>3, <1>4, <1>5
-----------------------------------------------------------------------------
(* The list of filters is in the order of its nodes, which are numbered as *)
(* they are made; and there is one node for an event.                      *)
Sorted == \A j, k \in DOMAIN filters : j < k => filters[j] < filters[k]
OneEach == \A m, n \in Listed : nodes[m].event = nodes[n].event => m = n
(* One level at a time registers and unregisters a filter: so the one that *)
(* found none may add one, and the one that found a node may remove it.    *)
OneOwner ==
    \A k, l \in Tpls :
        Spot(k) \in OwnPCs /\ Spot(l) \in OwnPCs /\ call[k].ev = call[l].ev => k = l
OwnerAt(l) ==
    /\ Spot(l) = "link" => \A n \in Listed : nodes[n].event # call[l].ev
    /\ Spot(l) = "unlink" => call[l].at \in Listed /\ nodes[call[l].at].event = call[l].ev

(* The invariant of the list, which the others rest on.                    *)
ListInv == Sorted /\ OneEach /\ OneOwner /\ \A l \in Tpls : OwnerAt(l)

(* The types of the list and of its nodes. *)
LEMMA ListTypes ==
    ASSUME TypeInv
    PROVE  /\ nodes \in Seq(NodeType) /\ Len(nodes) \in Nat /\ DOMAIN nodes = 1 .. Len(nodes)
           /\ filters \in Seq(DOMAIN nodes) /\ Len(filters) \in Nat
           /\ DOMAIN filters = 1 .. Len(filters)
           /\ \A j \in DOMAIN filters : filters[j] \in DOMAIN nodes
           /\ Listed \subseteq DOMAIN nodes
           /\ \A n \in DOMAIN nodes : nodes[n] \in NodeType /\ nodes[n].event \in Filters
                                      /\ nodes[n].next \in Nat /\ nodes[n].link \in Nat
<1>1. nodes \in Seq(NodeType) /\ filters \in Seq(DOMAIN nodes)
  BY DEF TypeInv, HubOK, HubType
<1>2. \A n \in DOMAIN nodes : nodes[n] \in NodeType
  BY <1>1
<1>3. \A j \in DOMAIN filters : filters[j] \in DOMAIN nodes
  BY <1>1
<1>4. \A n \in DOMAIN nodes : nodes[n].event \in Filters /\ nodes[n].next \in Nat
                              /\ nodes[n].link \in Nat
  BY <1>2 DEF NodeType
<1> QED BY <1>1, <1>2, <1>3, <1>4 DEF Listed

(* The search finds the node of the event that is in the list, if any.     *)
LEMMA FindsListed ==
    ASSUME TypeInv, NEW e
    PROVE  LET n == FindFilterDriverByEvent(e)
           IN  /\ n # 0 => n \in Listed /\ nodes[n].event = e
               /\ n = 0 => \A m \in Listed : nodes[m].event # e
<1> DEFINE found == {j \in DOMAIN filters : nodes[filters[j]].event = e}
<1>1. found \in SUBSET Nat /\ found \subseteq DOMAIN filters
  BY ListTypes
<1>2. found # {} => Min(found) \in found
  BY <1>1, MinIsIn
<1>3. found # {} => filters[Min(found)] \in Listed /\ nodes[filters[Min(found)]].event = e
      /\ filters[Min(found)] # 0
  <2>1. found # {} => Min(found) \in DOMAIN filters /\ nodes[filters[Min(found)]].event = e
    BY <1>2
  <2> HIDE DEF found
  <2> QED BY <2>1, ListTypes DEF Listed
<1>4. found = {} => \A m \in Listed : nodes[m].event # e
  BY DEF Listed
<1>5. FindFilterDriverByEvent(e) = IF found = {} THEN 0 ELSE filters[Min(found)]
  BY DEF FindFilterDriverByEvent
<1> HIDE DEF found
<1> QED BY <1>3, <1>4, <1>5

(* A new node is put at the tail.                                          *)
LEMMA ListAppends ==
    ASSUME TypeInv, Sorted, NEW m \in Nat, \A x \in Listed : x < m,
           filters' = Append(filters, m)
    PROVE  Listed' = Listed \cup {m} /\ Sorted'
<1>1. /\ DOMAIN filters' = 1 .. Len(filters) + 1 /\ filters'[Len(filters) + 1] = m
      /\ \A j \in DOMAIN filters : filters'[j] = filters[j]
  BY ListTypes
<1>2. Listed' = Listed \cup {m}
  BY <1>1, ListTypes DEF Listed
<1>3. \A j \in DOMAIN filters : filters[j] < m
  BY DEF Listed
<1>4. Sorted'
  BY <1>1, <1>3, ListTypes DEF Sorted
<1> QED BY <1>2, <1>4

(* A node of the list is in one place.                                     *)
LEMMA PositionOf ==
    ASSUME TypeInv, Sorted, NEW n \in Listed
    PROVE  /\ Position(n) \in DOMAIN filters /\ filters[Position(n)] = n
           /\ \A j \in DOMAIN filters : filters[j] = n => j = Position(n)
<1>1. \E j \in DOMAIN filters : filters[j] = n
  BY DEF Listed
<1>2. Position(n) \in DOMAIN filters /\ filters[Position(n)] = n
  BY <1>1 DEF Position
<1>3. \A j, k \in DOMAIN filters : filters[j] = filters[k] => j = k
  <2> SUFFICES ASSUME NEW j \in DOMAIN filters, NEW k \in DOMAIN filters, j < k
               PROVE  filters[j] # filters[k]
    BY ListTypes
  <2>1. filters[j] < filters[k] /\ filters[j] \in Nat
    BY ListTypes DEF Sorted
  <2> QED BY <2>1
<1> QED BY <1>2, <1>3

(* The node that is removed is gone, and the rest stays in its order.      *)
LEMMA ListRemoves ==
    ASSUME TypeInv, Sorted, NEW n \in Listed, filters' = Removed(n)
    PROVE  Listed' = Listed \ {n} /\ Sorted'
<1> DEFINE p == Position(n)
           i(j) == IF j < p THEN j ELSE j + 1
<1>1. p \in 1 .. Len(filters) /\ filters[p] = n /\ Len(filters) \in Nat
      /\ \A j \in 1 .. Len(filters) : filters[j] = n => j = p
  BY PositionOf, ListTypes
<1>2. DOMAIN filters' = 1 .. Len(filters) - 1
      /\ \A j \in 1 .. Len(filters) - 1 : filters'[j] = filters[i(j)]
  BY DEF Removed
<1> HIDE DEF p
<1>3. \A j \in 1 .. Len(filters) - 1 : i(j) \in 1 .. Len(filters) /\ i(j) # p
  BY <1>1
<1>4. \A x \in 1 .. Len(filters) : x # p => \E j \in 1 .. Len(filters) - 1 : i(j) = x
  <2> SUFFICES ASSUME NEW x \in 1 .. Len(filters), x # p
               PROVE  \E j \in 1 .. Len(filters) - 1 : i(j) = x
    OBVIOUS
  <2>1. CASE x < p
    <3>1. x \in 1 .. Len(filters) - 1 /\ i(x) = x
      BY <1>1, <2>1
    <3> QED BY <3>1
  <2>2. CASE x > p
    <3>1. x - 1 \in 1 .. Len(filters) - 1 /\ i(x - 1) = x
      BY <1>1, <2>2
    <3> QED BY <3>1
  <2> QED BY <1>1, <2>1, <2>2
<1>5. \A j, k \in 1 .. Len(filters) - 1 : j < k => i(j) < i(k)
  BY <1>1
<1> HIDE DEF i
<1>6. Sorted'
  <2> SUFFICES ASSUME NEW j \in 1 .. Len(filters) - 1, NEW k \in 1 .. Len(filters) - 1, j < k
               PROVE  filters'[j] < filters'[k]
    BY <1>2 DEF Sorted
  <2>1. i(j) \in DOMAIN filters /\ i(k) \in DOMAIN filters /\ i(j) < i(k)
    BY <1>3, <1>5, ListTypes
  <2>2. filters[i(j)] < filters[i(k)]
    BY <2>1 DEF Sorted
  <2> QED BY <1>2, <2>2
<1>7. Listed' \subseteq Listed \ {n}
  <2> SUFFICES ASSUME NEW j \in 1 .. Len(filters) - 1 PROVE filters'[j] \in Listed \ {n}
    BY <1>2 DEF Listed
  <2>1. i(j) \in DOMAIN filters /\ filters[i(j)] # n
    BY <1>1, <1>3, ListTypes
  <2> QED BY <1>2, <2>1 DEF Listed
<1>8. Listed \ {n} \subseteq Listed'
  <2> SUFFICES ASSUME NEW x \in 1 .. Len(filters), filters[x] # n PROVE filters[x] \in Listed'
    BY ListTypes DEF Listed
  <2>1. PICK j \in 1 .. Len(filters) - 1 : i(j) = x
    BY <1>1, <1>4
  <2> QED BY <1>2, <2>1 DEF Listed
<1> QED BY <1>6, <1>7, <1>8

(* A step of level l that leaves the list alone.                           *)
LEMMA ListKept ==
    ASSUME ListInv, NEW l \in Tpls, Others(l), filters' = filters, DOMAIN nodes' = DOMAIN nodes,
           Listed \subseteq DOMAIN nodes,
           \A n \in DOMAIN nodes : nodes'[n].event = nodes[n].event,
           Spot(l)' \in OwnPCs =>
              \/ Spot(l) \in OwnPCs /\ call'[l].ev = call[l].ev
              \/ \A k \in Tpls : Spot(k) \in OwnPCs => call[k].ev # call'[l].ev,
           OwnerAt(l)'
    PROVE  ListInv'
<1>1. Listed' = Listed /\ \A n \in Listed : nodes'[n].event = nodes[n].event
  BY DEF Listed
<1>2. Sorted' /\ OneEach'
  BY <1>1 DEF ListInv, Sorted, OneEach
<1>3. OneOwner'
  BY DEF ListInv, OneOwner, Others
<1>4. ASSUME NEW k \in Tpls, k # l PROVE OwnerAt(k)'
  BY <1>1, <1>4 DEF ListInv, OwnerAt, Others
<1> QED BY <1>2, <1>3, <1>4 DEF ListInv

(* ... is of no concern to it when its level has no filter to register or  *)
(* unregister afterwards.                                                  *)
LEMMA ListAside ==
    ASSUME TypeInv, ListInv, NEW l \in Tpls, Others(l), Still, Spot(l)' \notin OwnPCs
    PROVE  ListInv'
<1>1. OwnerAt(l)'
  BY DEF OwnerAt, OwnPCs
<1> QED BY <1>1, ListKept, ListTypes DEF Still

(* A step that is no concern of the readers is none of the list.          *)
LEMMA ListElsewhere ==
    ASSUME ListInv, Elsewhere
    PROVE  ListInv'
<1>1. Listed' = Listed /\ Sorted' /\ OneEach'
  BY DEF Elsewhere, Still, Listed, ListInv, Sorted, OneEach
<1>2. \A k \in Tpls : Spot(k)' \in OwnPCs => Spot(k)' = Spot(k) /\ call'[k] = call[k]
  BY DEF Elsewhere, Spots
<1>3. OneOwner'
  BY <1>2 DEF ListInv, OneOwner
<1>4. ASSUME NEW k \in Tpls PROVE OwnerAt(k)'
  BY <1>1, <1>2 DEF ListInv, OwnerAt, Elsewhere, Still, OwnPCs
<1> QED BY <1>1, <1>3, <1>4 DEF ListInv

(* The owner of a registration.                                            *)
LEMMA OwnerSpot ==
    ASSUME TypeInv, NEW e, Owner(e), NEW k \in Tpls, Spot(k) \in OwnPCs
    PROVE  call[k].ev # e
  BY DEF Owner, Spot, OwnPCs

(* A filter's node is linked.                                              *)
LEMMA ListLinks ==
    ASSUME TypeInv, ListInv, NEW l \in Tpls, RegisterLinks(l)
    PROVE  ListInv' /\ Listed' = Listed \cup {Len(nodes) + 1}
<1> DEFINE m == Len(nodes) + 1
<1>1. /\ Spot(l) = "link" /\ Spot(l)' = "announce" /\ Others(l) /\ call' = call
      /\ nodes' = Append(nodes, [event |-> call[l].ev, next |-> 0, link |-> 0])
      /\ filters' = Append(filters, m)
  BY RegisterEffect
<1>2. m \in Nat /\ \A x \in Listed : x < m
  BY ListTypes
<1>3. nodes'[m].event = call[l].ev /\ \A n \in DOMAIN nodes : nodes'[n] = nodes[n]
  BY <1>1, ListTypes
<1> HIDE DEF m
<1>4. Listed' = Listed \cup {m} /\ Sorted'
  BY <1>1, <1>2, ListAppends DEF ListInv
<1>5. OneEach'
  <2>1. \A n \in Listed : nodes[n].event # call[l].ev
    BY <1>1 DEF ListInv, OwnerAt
  <2>2. \A n \in Listed : nodes'[n].event = nodes[n].event
    BY <1>3, ListTypes
  <2>3. \A x, y \in Listed \cup {m} : nodes'[x].event = nodes'[y].event => x = y
    BY <1>3, <2>1, <2>2 DEF ListInv, OneEach
  <2> QED BY <1>4, <2>3 DEF OneEach
<1>6. OneOwner'
  BY <1>1 DEF ListInv, OneOwner, Others, OwnPCs
<1>7. ASSUME NEW k \in Tpls PROVE OwnerAt(k)'
  <2>1. CASE k = l
    BY <1>1, <2>1 DEF OwnerAt
  <2>2. CASE k # l
    <3>1. Spot(k)' = Spot(k) /\ call'[k] = call[k] /\ OwnerAt(k)
      BY <1>1, <2>2 DEF Others, ListInv
    <3>2. Spot(k) \in OwnPCs => call[k].ev # call[l].ev
      BY <1>1, <2>2 DEF ListInv, OneOwner, OwnPCs
    <3> QED BY <1>3, <1>4, <3>1, <3>2, ListTypes DEF OwnerAt, OwnPCs
  <2> QED BY <2>1, <2>2
<1> QED BY <1>4, <1>5, <1>6, <1>7 DEF ListInv, m

(* A node changes in one of its parts. *)
LEMMA UnlinkNodes ==
    ASSUME TypeInv, NEW l \in Tpls, UnregisterUnlinks(l)
    PROVE  LET n == call[l].at
           IN  /\ n \in DOMAIN nodes /\ DOMAIN nodes' = DOMAIN nodes
               /\ nodes'[n].link = ForwardLink(n) /\ nodes'[n].event = nodes[n].event
               /\ nodes'[n].next = nodes[n].next
               /\ \A x \in DOMAIN nodes : x # n => nodes'[x] = nodes[x]
<1> DEFINE n == call[l].at
           v == ForwardLink(n)
<1>1. nodes' = [nodes EXCEPT ![n].link = v] /\ code[l].pc = "unlink"
  BY DEF UnregisterUnlinks, At
<1>2. n \in DOMAIN nodes
  BY <1>1, ListTypes DEF TypeInv, HubOK, CallOK
<1> HIDE DEF n, v
<1>3. nodes[n] \in NodeType
  BY <1>2, ListTypes
<1>4. DOMAIN nodes' = DOMAIN nodes /\ \A x \in DOMAIN nodes : x # n => nodes'[x] = nodes[x]
  BY <1>1, ListTypes
<1>5. nodes'[n] = [nodes[n] EXCEPT !.link = v]
  BY <1>1, <1>2, ListTypes
<1>6. nodes'[n].link = v /\ nodes'[n].event = nodes[n].event /\ nodes'[n].next = nodes[n].next
  BY <1>3, <1>5 DEF NodeType
<1> QED BY <1>2, <1>4, <1>6 DEF n, v

(* A filter's node is taken out.                                           *)
LEMMA ListUnlinks ==
    ASSUME TypeInv, ListInv, NEW l \in Tpls, UnregisterUnlinks(l)
    PROVE  ListInv' /\ Listed' = Listed \ {call[l].at} /\ call[l].at \in Listed
<1> DEFINE n == call[l].at
<1>1. /\ Spot(l) = "unlink" /\ Spot(l)' \notin OwnPCs /\ Others(l) /\ filters' = Removed(n)
  BY UnregisterEffect DEF Spots
<1>2. n \in Listed /\ nodes[n].event = call[l].ev
  BY <1>1 DEF ListInv, OwnerAt
<1>3. \A x \in DOMAIN nodes : nodes'[x].event = nodes[x].event
  BY UnlinkNodes
<1> HIDE DEF n
<1>4. Listed' = Listed \ {n} /\ Sorted'
  BY <1>1, <1>2, ListRemoves DEF ListInv
<1>5. OneEach'
  BY <1>3, <1>4, ListTypes DEF ListInv, OneEach
<1>6. OneOwner'
  BY <1>1 DEF ListInv, OneOwner, Others
<1>7. ASSUME NEW k \in Tpls PROVE OwnerAt(k)'
  <2>1. CASE k = l
    BY <1>1, <2>1 DEF OwnerAt, OwnPCs
  <2>2. CASE k # l
    <3>1. Spot(k)' = Spot(k) /\ call'[k] = call[k] /\ OwnerAt(k)
      BY <1>1, <2>2 DEF Others, ListInv
    <3>2. Spot(k) \in OwnPCs => call[k].ev # call[l].ev
      BY <1>1, <2>2 DEF ListInv, OneOwner, OwnPCs
    <3> QED BY <1>2, <1>3, <1>4, <3>1, <3>2, ListTypes DEF OwnerAt, OwnPCs
  <2> QED BY <2>1, <2>2
<1> QED BY <1>2, <1>4, <1>5, <1>6, <1>7 DEF ListInv, n

(* A reader's node keeps its event.                                        *)
LEMMA StoresNodes ==
    ASSUME TypeInv, NEW l \in Tpls, ReadStores(l)
    PROVE  LET c == call[l]
               next == IF c.mtc # 0 THEN c.mtc ELSE IF c.again THEN nodes[c.at].next ELSE c.rec
           IN  /\ c.at \in DOMAIN nodes /\ DOMAIN nodes' = DOMAIN nodes
               /\ nodes'[c.at].next = next /\ nodes'[c.at].event = nodes[c.at].event
               /\ nodes'[c.at].link = nodes[c.at].link
               /\ \A x \in DOMAIN nodes : x # c.at => nodes'[x] = nodes[x]
<1> DEFINE b == call[l]
           next == IF b.mtc # 0 THEN b.mtc ELSE IF b.again THEN nodes[b.at].next ELSE b.rec
<1>1. nodes' = [nodes EXCEPT ![b.at].next = next] /\ code[l].pc = "store"
  BY StoresEffect DEF ReadStores, At
<1>2. b.at \in DOMAIN nodes
  BY <1>1, ListTypes DEF TypeInv, HubOK, CallOK
<1> HIDE DEF next
<1>3. nodes[b.at] \in NodeType
  BY <1>2, ListTypes
<1>4. DOMAIN nodes' = DOMAIN nodes /\ \A x \in DOMAIN nodes : x # b.at => nodes'[x] = nodes[x]
  BY <1>1, ListTypes
<1>5. nodes'[b.at] = [nodes[b.at] EXCEPT !.next = next]
  BY <1>1, <1>2, ListTypes
<1>6. /\ nodes'[b.at].link = nodes[b.at].link /\ nodes'[b.at].event = nodes[b.at].event
      /\ nodes'[b.at].next = next
  BY <1>3, <1>5 DEF NodeType
<1> QED BY <1>2, <1>4, <1>6 DEF next

(* The steps of the data hub keep the invariant of the list. *)
LEMMA ListHub ==
    ASSUME TypeInv, ListInv, NEW l \in Tpls, HubActionAt(l)
    PROVE  ListInv'
<1> USE DEF OwnPCs
<1>1. ASSUME NEW class, LogAcquire(l) \/ LogNoMemory(l) \/ LogNumber(l) \/ AskLog(l, class)
      PROVE  ListInv'
  BY <1>1, LogElsewhere, ListElsewhere
<1>2. CASE LogInsert(l)
  <2>1. Spot(l)' = "next" /\ Others(l) /\ UNCHANGED << nodes, filters >>
    BY <1>2, InsertEffect
  <2>2. OwnerAt(l)'
    BY <2>1 DEF OwnerAt
  <2> QED BY <2>1, <2>2, ListKept, ListTypes
<1>3. CASE LogNext(l) \/ LogSignal(l) \/ ReadFails(l) \/ ReadFinds(l) \/ ReadGoesOn(l)
  BY <1>3, NextEffect, SignalEffect, FailsEffect, FindsEffect, ReadsOnEffect, ListAside DEF Spots
<1>4. CASE ReadStores(l)
  <2>1. Spot(l)' = "got" /\ Others(l) /\ filters' = filters
    BY <1>4, StoresEffect
  <2>2. DOMAIN nodes' = DOMAIN nodes /\ \A n \in DOMAIN nodes : nodes'[n].event = nodes[n].event
    BY <1>4, StoresNodes
  <2>3. OwnerAt(l)'
    BY <2>1 DEF OwnerAt
  <2> QED BY <2>1, <2>2, <2>3, ListKept, ListTypes
<1>5. CASE RegisterFinds(l)
  <2>1. /\ Spot(l) = "register" /\ Others(l) /\ Still
        /\ \/ Spot(l)' \notin Spots
           \/ FindFilterDriverByEvent(call[l].ev) = 0 /\ Spot(l)' = "link" /\ call' = call
    BY <1>5, RegisterEffect
  <2>2. CASE Spot(l)' \notin Spots
    BY <2>1, <2>2, ListAside DEF Spots
  <2>3. CASE FindFilterDriverByEvent(call[l].ev) = 0 /\ Spot(l)' = "link" /\ call' = call
    <3>1. OwnerAt(l)'
      BY <2>1, <2>3, FindsListed DEF OwnerAt, Still, Listed
    <3> QED BY <2>1, <2>3, <3>1, ListKept, ListTypes DEF Still
  <2> QED BY <2>1, <2>2, <2>3
<1>6. CASE RegisterSignals(l)
  BY <1>6, RegisterEffect, ListAside DEF Spots
<1>7. CASE UnregisterFinds(l)
  <2> DEFINE n == FindFilterDriverByEvent(call[l].ev)
  <2>1. /\ Spot(l) = "unregister" /\ Others(l) /\ Still
        /\ \/ Spot(l)' \notin Spots
           \/ n # 0 /\ Spot(l)' = "unlink" /\ call'[l].at = n /\ call'[l].ev = call[l].ev
    BY <1>7, UnregisterEffect
  <2>2. n # 0 => n \in Listed /\ nodes[n].event = call[l].ev
    BY FindsListed
  <2> HIDE DEF n
  <2>3. CASE Spot(l)' \notin Spots
    BY <2>1, <2>3, ListAside DEF Spots
  <2>4. CASE n # 0 /\ Spot(l)' = "unlink" /\ call'[l].at = n /\ call'[l].ev = call[l].ev
    <3>1. OwnerAt(l)'
      BY <2>1, <2>2, <2>4 DEF OwnerAt, Still, Listed
    <3> QED BY <2>1, <2>4, <3>1, ListKept, ListTypes DEF Still
  <2> QED BY <2>1, <2>3, <2>4
<1>8. ASSUME NEW e, AskRegister(l, e) \/ AskUnregister(l, e) \/ HandlerUnregisters(l)
      PROVE  ListInv'
  <2>1. /\ Spot(l)' \in {"register", "unregister"} /\ Others(l) /\ Still
        /\ Owner(call'[l].ev)
    BY <1>8, BeginEffect, UnregisterEffect
  <2>2. OwnerAt(l)'
    BY <2>1 DEF OwnerAt
  <2>3. \A k \in Tpls : Spot(k) \in OwnPCs => call[k].ev # call'[l].ev
    BY <2>1, OwnerSpot
  <2> QED BY <2>1, <2>2, <2>3, ListKept, ListTypes DEF Still
<1>9. ASSUME NEW e \in Filters, l = EventTpl[e], NotifyFilter(e) PROVE ListInv'
  BY <1>9, BeginEffect, ListAside
<1>10. CASE RegisterLinks(l) \/ UnregisterUnlinks(l)
  BY <1>10, ListLinks, ListUnlinks
<1> QED BY <1>1, <1>2, <1>3, <1>4, <1>5, <1>6, <1>7, <1>8, <1>9, <1>10 DEF HubActionAt, HubStep

(* The list of filters is in order and has one owner per event.           *)
LEMMA ListHolds == Spec => []ListInv
<1>1. Init => ListInv
  <2> SUFFICES ASSUME Init PROVE ListInv
    OBVIOUS
  <2>1. filters = << >> /\ Listed = {}
    BY DEF Init, HubInit, Listed
  <2>2. \A l \in Tpls : Spot(l) = "idle"
    BY DEF Init, TplInit, Idle, Spot
  <2> QED BY <2>1, <2>2 DEF ListInv, Sorted, OneEach, OneOwner, OwnerAt, OwnPCs
<1>2. TypeInv /\ ListInv /\ [Next]_vars => ListInv'
  <2> SUFFICES ASSUME TypeInv, ListInv, [Next]_vars PROVE ListInv'
    OBVIOUS
  <2>1. CASE HubAction
    BY <2>1, HubEffects, ListHub
  <2>2. CASE ~HubAction
    BY <2>2, StatusElsewhere, StutterElsewhere, ListElsewhere
  <2> QED BY <2>1, <2>2
<1> QED BY <1>1, <1>2, TypeInvHolds, PTL DEF Spec
-----------------------------------------------------------------------------
(* The counts of the records of filter e's classes; that it was returned   *)
(* all of them that are below m; and a count that is kept to read on from. *)
Mine(e) == {records[j].mtc : j \in {i \in DOMAIN records : records[i].item.class \in ClassesOf[e]}}
Before(e, m) == \A x \in Mine(e) : x < m => x \in seen[e]
Ready(e, m) == m # 0 => m \in Mine(e) /\ Before(e, m)

(* 0 is the count of no record.                                            *)
Positive ==
    /\ \A j \in DOMAIN records : records[j].mtc # 0
    /\ \A l \in Tpls : code[l].pc = "insert" => call[l].mtc # 0
(* What the counts of readers rest on. *)
Base == TypeInv /\ CountOK /\ Positive /\ ListInv
(* A filter was returned the records of its classes up to some record.     *)
SeenOK == \A e \in Filters : seen[e] \subseteq Mine(e) /\ \A m \in seen[e] : Before(e, m)
(* GetNextMonotonicCount is a count to read on from.                       *)
NextOK == \A n \in DOMAIN nodes : Ready(nodes[n].event, nodes[n].next)
(* So is the count that a reader keeps, at the level of its event.         *)
ReadsAt(l) ==
    /\ Spot(l) \in ReadPCs => EventTpl[call[l].ev] = l
    /\ Spot(l) \in {"read", "got"} => Ready(call[l].ev, call[l].mtc)
(* The record a reader has found, and the count of the one after it.  The  *)
(* reader's node may be out of the list by then; the one in the list, if   *)
(* any, was not read from.                                                 *)
StoresAt(l) ==
    Spot(l) = "store" =>
        LET c == call[l]
        IN  /\ nodes[c.at].event = c.ev
            /\ \A n \in Listed : nodes[n].event = c.ev /\ n # c.at => nodes[n].next = 0
            /\ c.rec \in Mine(c.ev) /\ Before(c.ev, c.rec)
            /\ c.mtc # 0 => c.mtc \in Mine(c.ev) /\ \A x \in Mine(c.ev) : x < c.mtc => x <= c.rec
            /\ c.again => c.rec \in seen[c.ev]
(* A reader of e is at work that is going to return the record its node    *)
(* is at, or to take the node out.                                         *)
Going(e) ==
    LET l == EventTpl[e]
    IN  /\ call[l].ev = e
        /\ \/ Spot(l) \in {"read", "got"} /\ call[l].mtc # 0
           \/ Spot(l) = "store" /\ ~call[l].again
           \/ Spot(l) \in {"unregister", "unlink"}
(* Otherwise that record was returned: the search for the one after it     *)
(* does not skip it.                                                       *)
TurnAt(n) ==
    LET e == nodes[n].event
    IN  nodes[n].next # 0 /\ nodes[n].next \notin seen[e] => Going(e)

(* The invariant of the counts that readers keep.                          *)
CountsInv ==
    /\ SeenOK /\ NextOK
    /\ \A l \in Tpls : ReadsAt(l) /\ StoresAt(l)
    /\ \A n \in Listed : TurnAt(n)

(* The types of what readers keep. *)
LEMMA ReaderTypes ==
    ASSUME TypeInv
    PROVE  /\ \A e \in Filters : Mine(e) \subseteq Nat /\ seen[e] \subseteq Nat
                                 /\ EventTpl[e] \in Tpls
           /\ \A l \in Tpls : Spot(l) \in ReadPCs \cup (OwnPCs \ {"unlink"}) =>
                 call[l].ev \in Filters
           /\ \A l \in Tpls : Spot(l) = "store" => call[l].at \in DOMAIN nodes
<1>1. \A e \in Filters : Mine(e) \subseteq Nat
  BY RecordsNat DEF Mine
<1>2. \A e \in Filters : seen[e] \subseteq Nat
  BY DEF TypeInv, HubOK, HubType
<1>3. \A e \in Filters : EventTpl[e] \in Tpls
  BY EventTplAssumption, FiltersAssumption DEF Tpls, Application, Callback, Notify, High
<1>4. \A l \in Tpls : Spot(l) \in ReadPCs \cup (OwnPCs \ {"unlink"}) => call[l].ev \in Filters
  BY DEF TypeInv, HubOK, CallOK, Spot, ReadPCs, OwnPCs
<1>5. \A l \in Tpls : Spot(l) = "store" => call[l].at \in DOMAIN nodes
  BY ListTypes DEF TypeInv, HubOK, CallOK, Spot
<1> QED BY <1>1, <1>2, <1>3, <1>4, <1>5

(* GetNextDataRecord finds the record that is asked for, or the first one, *)
(* and the one after it.                                                   *)
LEMMA NextRecord ==
    ASSUME TypeInv, CountsAscend, Positive, NEW e \in Filters, NEW m \in Nat
    PROVE  LET r == GetNextDataRecord(ClassesOf[e], m)
           IN  /\ r.rec = 0 => IF m = 0 THEN Mine(e) = {} ELSE m \notin Mine(e)
               /\ r.rec # 0 =>
                     /\ r.rec \in Mine(e)
                     /\ IF m # 0 THEN r.rec = m ELSE \A x \in Mine(e) : r.rec <= x
                     /\ r.next # 0 => r.next \in Mine(e) /\ r.rec < r.next
                     /\ \A x \in Mine(e) : r.next = 0 \/ x < r.next => x <= r.rec
<1> DEFINE mine == {j \in DOMAIN records : records[j].item.class \in ClassesOf[e]}
           found == {j \in mine : m = 0 \/ records[j].mtc = m}
           f == Min(found)
           later == {j \in mine : j > f}
           r == GetNextDataRecord(ClassesOf[e], m)
<1>1. mine \in SUBSET Nat /\ mine \subseteq DOMAIN records
      /\ \A x : x \in Mine(e) <=> \E j \in mine : x = records[j].mtc
  BY RecordsNat DEF Mine
<1>2. found \in SUBSET mine /\ (found # {} => f \in found /\ \A j \in found : f <= j)
  BY <1>1, MinIsIn
<1>3. later \in SUBSET mine
      /\ (later # {} => Min(later) \in later /\ \A j \in later : Min(later) <= j)
  BY <1>1, MinIsIn
<1>4. r = IF found = {} THEN NoRecord
          ELSE [rec |-> records[f].mtc, next |-> IF later = {} THEN 0 ELSE records[Min(later)].mtc]
  BY DEF GetNextDataRecord
<1>5. \A j, k \in mine : records[j].mtc \in Nat /\ records[j].mtc # 0
                         /\ (j < k => records[j].mtc < records[k].mtc)
  BY <1>1, RecordsNat DEF CountsAscend, Positive
<1>6. ASSUME NEW j \in mine, NEW k \in mine, j = k \/ j < k
       PROVE  records[j].mtc <= records[k].mtc
  <2>1. records[j].mtc \in Nat /\ records[k].mtc \in Nat
    BY <1>5
  <2>2. j < k => records[j].mtc < records[k].mtc
    BY <1>5
  <2> QED BY <1>6, <2>1, <2>2
<1>7. \A j \in mine : j \in found <=> m = 0 \/ records[j].mtc = m
  OBVIOUS
<1>8. \A j \in mine : j \in later <=> j > f
  OBVIOUS
<1> HIDE DEF mine, found, f, later, r
<1>9. CASE found = {}
  <2>1. r.rec = 0
    BY <1>4, <1>9 DEF NoRecord
  <2>2. IF m = 0 THEN Mine(e) = {} ELSE m \notin Mine(e)
    BY <1>1, <1>7, <1>9
  <2> QED BY <2>1, <2>2 DEF r
<1>10. CASE found # {}
  <2>1. f \in mine /\ f \in Nat /\ \A j \in mine : j \in Nat
    BY <1>1, <1>2, <1>10
  <2>2. r.rec = records[f].mtc /\ r.rec # 0 /\ r.rec \in Mine(e) /\ r.rec \in Nat
    BY <1>1, <1>4, <1>5, <1>10, <2>1
  <2>3. IF m # 0 THEN r.rec = m ELSE \A x \in Mine(e) : r.rec <= x
    <3>1. m # 0 => r.rec = m
      BY <1>2, <1>7, <1>10, <2>1, <2>2
    <3>2. ASSUME m = 0, NEW j \in mine PROVE r.rec <= records[j].mtc
      <4>1. f <= j
        BY <1>2, <1>7, <1>10, <3>2
      <4>2. f = j \/ f < j
        BY <2>1, <4>1
      <4> QED BY <1>6, <2>1, <2>2, <4>2
    <3> QED BY <1>1, <3>1, <3>2
  <2>4. CASE later = {}
    <3>1. r.next = 0
      BY <1>4, <1>10, <2>4
    <3>2. ASSUME NEW j \in mine PROVE records[j].mtc <= r.rec
      <4>1. j = f \/ j < f
        BY <1>8, <2>1, <2>4
      <4> QED BY <1>6, <2>1, <2>2, <4>1
    <3> QED BY <1>1, <2>2, <2>3, <3>1, <3>2 DEF r
  <2>5. CASE later # {}
    <3> DEFINE g == Min(later)
    <3>1. g \in mine /\ g > f /\ \A j \in later : g <= j
      BY <1>3, <1>8, <2>5
    <3>2. r.next = records[g].mtc
      BY <1>4, <1>10, <2>5
    <3> HIDE DEF g
    <3>3. r.next \in Mine(e) /\ r.rec < r.next /\ r.next # 0
      BY <1>1, <1>5, <2>1, <2>2, <3>1, <3>2
    <3>4. ASSUME NEW j \in mine, records[j].mtc < r.next PROVE records[j].mtc <= r.rec
      <4>1. ~(j > g) /\ j # g
        BY <1>5, <3>1, <3>2, <3>4
      <4>2. j <= f
        BY <1>8, <2>1, <3>1, <4>1
      <4>3. j = f \/ j < f
        BY <2>1, <4>2
      <4> QED BY <1>6, <2>1, <2>2, <4>3
    <3> QED BY <1>1, <2>2, <2>3, <3>3, <3>4 DEF r
  <2> QED BY <2>4, <2>5
<1> QED BY <1>9, <1>10

(* Records are counted from 1.                                             *)
LEMMA PositiveHolds == Spec => []Positive
<1>1. Init => Positive
  BY DEF Init, HubInit, TplInit, Idle, Positive
<1>2. TypeInv /\ Positive /\ [Next]_vars => Positive'
  <2> SUFFICES ASSUME TypeInv, Positive, [Next]_vars PROVE Positive'
    OBVIOUS
  <2>1. ASSUME NEW l \in Tpls, HubEffect(l) PROVE Positive'
    <3>1. \A k \in Tpls : k # l => (code'[k].pc = "insert" => call'[k].mtc # 0)
      BY <2>1 DEF HubEffect, Positive
    <3>2. CASE LogNumber(l) /\ code'[l].pc = "insert" /\ call'[l].mtc = count'
      <4>1. records' = records /\ count' = count + 1
        BY <3>2 DEF LogNumber
      <4> QED BY <3>1, <3>2, <4>1, RecordsNat DEF Positive
    <3>3. CASE LogInsert(l) /\ code'[l].pc # "insert"
      <4>1. LogRecord(l).mtc # 0
        BY <3>3 DEF LogInsert, At, Positive, LogRecord
      <4>2. \A j \in DOMAIN records' : records'[j].mtc # 0
        BY <3>3, <4>1, InsertAppends, RecordsNat DEF Positive
      <4> QED BY <3>1, <3>3, <4>2 DEF Positive
    <3>4. CASE records' = records /\ count' = count /\ code'[l].pc # "insert"
      BY <3>1, <3>4 DEF Positive
    <3> QED BY <2>1, <3>2, <3>3, <3>4 DEF HubEffect
  <2>2. CASE HubAction
    BY <2>1, <2>2, HubEffects
  <2>3. CASE Next /\ ~HubAction
    BY <2>3, StatusEffect DEF LogPCs, Positive
  <2>4. CASE UNCHANGED vars
    BY <2>4 DEF vars, hub, Positive
  <2> QED BY <2>2, <2>3, <2>4
<1> QED BY <1>1, <1>2, TypeInvHolds, PTL DEF Spec
-----------------------------------------------------------------------------
(* The log grows at its tail, and filters are returned more of it. *)
Grows ==
    \A e \in Filters :
        /\ Mine(e) \subseteq Mine(e)' /\ seen[e] \subseteq seen'[e]
        /\ \A x \in Mine(e)', m \in Mine(e) : x < m => x \in Mine(e)

(* What was returned up to a record stays so.                              *)
LEMMA GrowsKeeps ==
    ASSUME Grows, NEW e \in Filters
    PROVE  /\ \A m \in Mine(e) : Before(e, m) => Before(e, m)'
           /\ \A m : Ready(e, m) => Ready(e, m)'
<1>1. ASSUME NEW m \in Mine(e), Before(e, m) PROVE Before(e, m)'
  <2> SUFFICES ASSUME NEW x \in Mine(e)', x < m PROVE x \in seen'[e]
    BY DEF Before
  <2>1. x \in Mine(e)
    BY DEF Grows
  <2> QED BY <1>1, <2>1 DEF Before, Grows
<1>2. ASSUME NEW m, Ready(e, m) PROVE Ready(e, m)'
  <2>1. m # 0 => m \in Mine(e) /\ m \in Mine(e)' /\ Before(e, m)
    BY <1>2 DEF Ready, Grows
  <2>2. m # 0 => Before(e, m)'
    BY <1>1, <2>1
  <2> QED BY <2>1, <2>2 DEF Ready
<1> QED BY <1>1, <1>2

(* A list and a log that do not change do not shrink.                      *)
LEMMA StillGrows ==
    ASSUME Still
    PROVE  /\ Grows /\ Listed' = Listed
           /\ \A e \in Filters : Mine(e)' = Mine(e) /\ seen'[e] = seen[e]
  BY DEF Still, Grows, Listed, Mine, Interested
(* A step of level l keeps what the other levels keep count of.            *)
LEMMA CountsKeep ==
    ASSUME TypeInv, CountsInv, NEW l \in Tpls, Others(l), Grows, SeenOK', NextOK',
           DOMAIN nodes \subseteq DOMAIN nodes',
           \A n \in DOMAIN nodes : nodes'[n].event = nodes[n].event,
           \A n \in Listed' : /\ nodes'[n].event \in Filters
                              /\ \/ n \in Listed /\ nodes'[n].next = nodes[n].next
                                 \/ nodes'[n].next = 0
                                 \/ EventTpl[nodes'[n].event] = l /\ TurnAt(n)',
           \A n \in Listed' : EventTpl[nodes'[n].event] = l => TurnAt(n)',
           ReadsAt(l)', StoresAt(l)'
    PROVE  CountsInv'
<1>1. ASSUME NEW k \in Tpls, k # l PROVE ReadsAt(k)' /\ StoresAt(k)'
  <2>1. Spot(k)' = Spot(k) /\ call'[k] = call[k] /\ ReadsAt(k) /\ StoresAt(k)
    BY <1>1 DEF Others, CountsInv
  <2>2. CASE Spot(k) \in {"read", "got"}
    <3>1. call[k].ev \in Filters /\ EventTpl[call[k].ev] = k /\ Ready(call[k].ev, call[k].mtc)
      BY <2>1, <2>2, ReaderTypes DEF ReadsAt, ReadPCs
    <3>2. Ready(call[k].ev, call[k].mtc)'
      BY <2>1, <3>1, GrowsKeeps
    <3> QED BY <2>1, <2>2, <3>1, <3>2 DEF ReadsAt, StoresAt
  <2>3. CASE Spot(k) = "store"
    <3>0. PICK c : c = call[k]
      OBVIOUS
    <3>1. c.ev \in Filters /\ EventTpl[c.ev] = k /\ c.at \in DOMAIN nodes
      BY <3>0, <2>1, <2>3, ReaderTypes DEF ReadsAt, ReadPCs
    <3>2. /\ nodes[c.at].event = c.ev
          /\ \A n \in Listed : nodes[n].event = c.ev /\ n # c.at => nodes[n].next = 0
          /\ c.rec \in Mine(c.ev) /\ Before(c.ev, c.rec)
          /\ c.mtc # 0 => c.mtc \in Mine(c.ev) /\ \A x \in Mine(c.ev) : x < c.mtc => x <= c.rec
          /\ c.again => c.rec \in seen[c.ev]
      BY <3>0, <2>1, <2>3 DEF StoresAt
    <3>3. nodes'[c.at].event = c.ev
      BY <3>1, <3>2
    <3>4. ASSUME NEW n \in Listed', nodes'[n].event = c.ev, n # c.at PROVE nodes'[n].next = 0
      <4>1. EventTpl[nodes'[n].event] # l
        BY <1>1, <3>1, <3>4
      <4>2. CASE n \in Listed /\ nodes'[n].next = nodes[n].next
        BY <3>2, <3>4, <4>2, ListTypes
      <4> QED BY <4>1, <4>2
    <3>5. c.rec \in Mine(c.ev)' /\ Before(c.ev, c.rec)'
      BY <3>1, <3>2, GrowsKeeps DEF Grows
    <3>6. c.mtc # 0 => c.mtc \in Mine(c.ev)' /\ \A x \in Mine(c.ev)' : x < c.mtc => x <= c.rec
      BY <3>1, <3>2 DEF Grows
    <3>7. c.again => c.rec \in seen'[c.ev]
      BY <3>1, <3>2 DEF Grows
    <3>8. call'[k] = c /\ Spot(k)' = "store"
      BY <3>0, <2>1, <2>3
    <3>9. StoresAt(k)'
      BY <3>3, <3>4, <3>5, <3>6, <3>7, <3>8 DEF StoresAt
    <3> QED BY <3>1, <3>8, <3>9 DEF ReadsAt
  <2> QED BY <2>1, <2>2, <2>3 DEF ReadsAt, StoresAt, ReadPCs
<1>2. ASSUME NEW n \in Listed' PROVE TurnAt(n)'
  <2>0. PICK e \in Filters : e = nodes'[n].event
    OBVIOUS
  <2>1. CASE EventTpl[e] = l
    BY <2>0, <2>1
  <2>2. CASE EventTpl[e] # l /\ nodes'[n].next = 0
    BY <2>2 DEF TurnAt
  <2>3. CASE EventTpl[e] # l /\ n \in Listed /\ nodes'[n].next = nodes[n].next
    <3>1. n \in DOMAIN nodes /\ nodes[n].event = e /\ TurnAt(n)
      BY <2>0, <2>3, ListTypes DEF CountsInv
    <3>2. EventTpl[e] \in Tpls
      BY <3>1, ReaderTypes
    <3>3. Going(e) => Going(e)'
      BY <2>3, <3>2 DEF Going, Others
    <3>4. seen[e] \subseteq seen'[e]
      BY <3>1 DEF Grows
    <3>5. nodes[n].next # 0 /\ nodes[n].next \notin seen[e] => Going(e)
      BY <3>1 DEF TurnAt
    <3>6. nodes'[n].next # 0 /\ nodes'[n].next \notin seen'[e] => Going(e)'
      BY <2>3, <3>3, <3>4, <3>5
    <3> QED BY <2>0, <3>6 DEF TurnAt
  <2> QED BY <2>0, <2>1, <2>2, <2>3
<1> QED BY <1>1, <1>2 DEF CountsInv

(* A step of level l that leaves log and list alone.                       *)
LEMMA CountsStill ==
    ASSUME TypeInv, CountsInv, NEW l \in Tpls, Others(l), Still,
           \A n \in Listed : EventTpl[nodes[n].event] = l => TurnAt(n)',
           ReadsAt(l)', StoresAt(l)'
    PROVE  CountsInv'
<1>1. Grows /\ Listed' = Listed /\ nodes' = nodes
      /\ \A e \in Filters : Mine(e)' = Mine(e) /\ seen'[e] = seen[e]
  BY StillGrows DEF Still
<1>2. SeenOK'
  BY <1>1 DEF CountsInv, SeenOK, Before
<1>3. NextOK'
  BY <1>1, ListTypes DEF CountsInv, NextOK, Ready, Before
<1> QED BY <1>1, <1>2, <1>3, ListTypes, CountsKeep

(* A step of level l that is not a reader's: nor was it one before, or     *)
(* there was nothing left for it to return.                                *)
LEMMA CountsAside ==
    ASSUME TypeInv, CountsInv, NEW l \in Tpls, Others(l), Still, Spot(l)' \notin ReadPCs,
           \A n \in Listed : EventTpl[nodes[n].event] = l /\ Going(nodes[n].event) => TurnAt(n)'
    PROVE  CountsInv'
<1>1. ReadsAt(l)' /\ StoresAt(l)'
  BY DEF ReadsAt, StoresAt, ReadPCs
<1>2. ASSUME NEW n \in Listed, EventTpl[nodes[n].event] = l PROVE TurnAt(n)'
  <2>1. CASE Going(nodes[n].event)
    BY <1>2, <2>1
  <2>2. CASE ~Going(nodes[n].event)
    BY <2>2 DEF CountsInv, TurnAt, Still
  <2> QED BY <2>1, <2>2
<1> QED BY <1>1, <1>2, CountsStill

(* A step that is no concern of the readers keeps their counts.            *)
LEMMA CountsElsewhere ==
    ASSUME TypeInv, CountsInv, Elsewhere
    PROVE  CountsInv'
<1>1. Listed' = Listed /\ nodes' = nodes /\ seen' = seen
      /\ \A e : Mine(e)' = Mine(e) /\ \A m : Before(e, m)' <=> Before(e, m)
  BY DEF Elsewhere, Still, Listed, Mine, Before
<1>2. SeenOK' /\ NextOK'
  BY <1>1 DEF CountsInv, SeenOK, NextOK, Ready
<1>3. ASSUME NEW k \in Tpls PROVE ReadsAt(k)' /\ StoresAt(k)'
  <2>1. CASE Spot(k)' = Spot(k) /\ call'[k] = call[k]
    BY <1>1, <2>1 DEF CountsInv, ReadsAt, StoresAt, Ready
  <2>2. CASE Spot(k)' \notin Spots
    BY <2>2 DEF ReadsAt, StoresAt, Spots, ReadPCs
  <2> QED BY <2>1, <2>2 DEF Elsewhere
<1>4. ASSUME NEW n \in Listed PROVE TurnAt(n)'
  <2>0. PICK e \in Filters : e = nodes[n].event
    BY <1>4, ListTypes
  <2>1. EventTpl[e] \in Tpls
    BY ReaderTypes
  <2>2. Going(e) => Going(e)'
    BY <2>1 DEF Elsewhere, Going, Spots, ReadPCs, OwnPCs
  <2> QED BY <1>1, <1>4, <2>0, <2>2 DEF CountsInv, TurnAt
<1> QED BY <1>1, <1>2, <1>3, <1>4 DEF CountsInv
(* A record is inserted above all others, and below those that follow.     *)
LEMMA CountsInsert ==
    ASSUME Base, CountsInv, NEW l \in Tpls, LogInsert(l)
    PROVE  CountsInv'
<1>0. TypeInv /\ CountOK
  BY DEF Base
<1>1. /\ Spot(l) = "insert" /\ Spot(l)' = "next" /\ Others(l)
      /\ UNCHANGED << nodes, filters, seen >>
  BY <1>0, InsertEffect
<1>2. PICK m \in Nat : m = call[l].mtc /\ \A j \in DOMAIN records : records[j].mtc < m
  BY <1>0, RecordsNat DEF LogInsert, At, CountOK
<1>3. ASSUME NEW e \in Filters
      PROVE  /\ Mine(e) \subseteq Mine(e)' /\ \A x \in Mine(e)' : x \in Mine(e) \/ x = m
             /\ \A x \in Mine(e) : x < m /\ x \in Nat
  <2>0. LogRecord(l).mtc = m
    BY <1>2 DEF LogRecord
  <2>1. /\ DOMAIN records = 1 .. Len(records) /\ Len(records) \in Nat
        /\ DOMAIN records' = 1 .. Len(records) + 1
        /\ records'[Len(records) + 1].mtc = m
        /\ \A j \in DOMAIN records : records'[j] = records[j]
    BY <1>0, <2>0, InsertAppends, RecordsNat
  <2>2. Mine(e) \subseteq Mine(e)'
    BY <2>1 DEF Mine
  <2>3. \A x \in Mine(e)' : x \in Mine(e) \/ x = m
    BY <2>1 DEF Mine
  <2>4. \A x \in Mine(e) : x < m /\ x \in Nat
    BY <1>0, <1>2, RecordsNat DEF Mine
  <2> QED BY <2>2, <2>3, <2>4
<1>4. Grows
  <2> SUFFICES ASSUME NEW e \in Filters, NEW x \in Mine(e)', NEW y \in Mine(e), x < y
               PROVE  x \in Mine(e)
    BY <1>1, <1>3 DEF Grows
  <2> QED BY <1>3
<1>5. SeenOK'
  <2> SUFFICES ASSUME NEW e \in Filters
               PROVE  seen[e] \subseteq Mine(e)' /\ \A y \in seen[e] : Before(e, y)'
    BY <1>1 DEF SeenOK
  <2>1. seen[e] \subseteq Mine(e) /\ \A y \in seen[e] : Before(e, y)
    BY DEF CountsInv, SeenOK
  <2> QED BY <1>3, <1>4, <2>1, GrowsKeeps
<1>6. NextOK'
  <2> SUFFICES ASSUME NEW n \in DOMAIN nodes PROVE Ready(nodes[n].event, nodes[n].next)'
    BY <1>1 DEF NextOK
  <2>0. PICK e \in Filters, y \in Nat : e = nodes[n].event /\ y = nodes[n].next
    BY <1>0, ListTypes
  <2>1. Ready(e, y)'
    BY <1>4, <2>0, GrowsKeeps DEF CountsInv, NextOK
  <2> QED BY <1>1, <2>0, <2>1
<1>7. ReadsAt(l)' /\ StoresAt(l)'
  BY <1>1 DEF ReadsAt, StoresAt, ReadPCs
<1>8. ASSUME NEW n \in Listed, EventTpl[nodes[n].event] = l PROVE TurnAt(n)'
  <2>1. ~Going(nodes[n].event)
    BY <1>1, <1>8 DEF Going
  <2> QED BY <1>1, <2>1 DEF CountsInv, TurnAt
<1>9. Listed' = Listed
  BY <1>1 DEF Listed
<1> QED BY <1>0, <1>1, <1>4, <1>5, <1>6, <1>7, <1>8, <1>9, ListTypes, CountsKeep

(* A reader finds no record: its node is not in the list, or it was        *)
(* returned the record its node is at.                                     *)
LEMMA CountsFails ==
    ASSUME Base, CountsInv, NEW l \in Tpls, ReadFails(l)
    PROVE  CountsInv'
<1>0. TypeInv /\ Positive /\ CountsAscend
  BY DEF Base, CountOK
<1> DEFINE node == FindFilterDriverByEvent(call[l].ev)
<1>1. Spot(l) = "read" /\ Spot(l)' \notin Spots /\ Others(l) /\ Still /\ Found(l, node).rec = 0
  BY <1>0, FailsEffect
<1>2. ASSUME NEW n \in Listed, EventTpl[nodes[n].event] = l, Going(nodes[n].event)
      PROVE  FALSE
  <2>1. PICK e \in Filters : e = call[l].ev
    BY <1>0, <1>1, ReaderTypes DEF ReadPCs
  <2>2. nodes[n].event = e /\ call[l].mtc # 0
    BY <1>1, <1>2, <2>1 DEF Going
  <2>3. node # 0
    BY <1>0, <2>1, <2>2, FindsListed
  <2>4. call[l].mtc \in Mine(e)
    BY <1>1, <2>1, <2>2 DEF CountsInv, ReadsAt, Ready
  <2>5. Found(l, node) = GetNextDataRecord(ClassesOf[e], call[l].mtc)
    BY <2>1, <2>2, <2>3 DEF Found, CountWanted
  <2>6. call[l].mtc \in Nat
    BY <1>0, CallFields
  <2> QED BY <1>0, <1>1, <2>2, <2>4, <2>5, <2>6, NextRecord
<1> QED BY <1>0, <1>1, <1>2, CountsAside DEF Spots

(* A reader finds the record it asks for; or the one its node is at, which *)
(* it was returned; or, at first, the first one.                           *)
LEMMA CountsFinds ==
    ASSUME Base, CountsInv, NEW l \in Tpls, ReadFinds(l)
    PROVE  CountsInv'
<1>0. TypeInv /\ Positive /\ CountsAscend /\ ListInv
  BY DEF Base, CountOK
<1>1. PICK n \in Nat : n = FindFilterDriverByEvent(call[l].ev)
  <2>1. FindFilterDriverByEvent(call[l].ev) \in {0} \cup Listed
    BY <1>0, FindsListed
  <2> QED BY <1>0, <2>1, ListTypes
<1>2. /\ Spot(l) = "read" /\ Spot(l)' = "store" /\ Others(l) /\ Still /\ Found(l, n).rec # 0
      /\ call'[l].at = n /\ call'[l].ev = call[l].ev
      /\ call'[l].rec = Found(l, n).rec /\ call'[l].mtc = Found(l, n).next
      /\ call'[l].again <=> call[l].mtc = 0 /\ nodes[n].next # 0
  BY <1>0, <1>1, FindsEffect
<1>3. PICK e \in Filters, m \in Nat : e = call[l].ev /\ m = call[l].mtc
  BY <1>0, <1>2, ReaderTypes, CallFields DEF ReadPCs
<1>4. n \in Listed /\ nodes[n].event = e /\ n \in DOMAIN nodes /\ nodes[n].next \in Nat
  <2>1. n # 0
    BY <1>2 DEF Found, NoRecord
  <2> QED BY <1>0, <1>1, <1>3, <2>1, FindsListed, ListTypes
<1>5. PICK w \in Nat : w = IF m # 0 THEN m ELSE nodes[n].next
  BY <1>4
<1> DEFINE r == GetNextDataRecord(ClassesOf[e], w)
<1>6. call'[l].rec = r.rec /\ call'[l].mtc = r.next /\ r.rec # 0
  <2>1. n # 0
    BY <1>0, <1>4, ListTypes
  <2>2. Found(l, n) = r
    BY <1>3, <1>5, <2>1 DEF Found, CountWanted
  <2> QED BY <1>2, <2>2
<1>7. /\ r.rec \in Mine(e)
      /\ IF w # 0 THEN r.rec = w ELSE \A x \in Mine(e) : r.rec <= x
      /\ r.next # 0 => r.next \in Mine(e)
      /\ \A x \in Mine(e) : r.next = 0 \/ x < r.next => x <= r.rec
  BY <1>0, <1>6, NextRecord
<1>8. PICK rec, next : rec = r.rec /\ next = r.next
  OBVIOUS
<1> HIDE DEF r
<1>9. Before(e, rec)
  <2>1. CASE w # 0
    <3>1. Ready(e, w)
      BY <1>2, <1>3, <1>4, <1>5 DEF CountsInv, ReadsAt, NextOK
    <3> QED BY <1>7, <1>8, <2>1, <3>1 DEF Ready
  <2>2. CASE w = 0
    BY <1>0, <1>7, <1>8, <2>2, ReaderTypes DEF Before
  <2> QED BY <2>1, <2>2
<1>10. ~Going(e) => TurnAt(n)' /\ (nodes[n].next # 0 => nodes[n].next \in seen[e])
  BY <1>2, <1>4 DEF CountsInv, TurnAt, Still
<1>11. call'[l].again => rec \in seen[e]
  <2> SUFFICES ASSUME m = 0, nodes[n].next # 0 PROVE rec \in seen[e]
    BY <1>2, <1>3
  <2>1. ~Going(e)
    <3>1. EventTpl[e] = l
      BY <1>2, <1>3 DEF CountsInv, ReadsAt, ReadPCs
    <3> QED BY <1>2, <1>3, <3>1 DEF Going
  <2> QED BY <1>5, <1>7, <1>8, <1>10, <2>1
<1>12. Listed' = Listed /\ nodes' = nodes /\ seen' = seen /\ Mine(e)' = Mine(e)
       /\ (Before(e, rec)' <=> Before(e, rec))
  BY <1>2 DEF Still, Listed, Mine, Before
<1>13. EventTpl[e] = l
  BY <1>2, <1>3 DEF CountsInv, ReadsAt, ReadPCs
<1>14. ReadsAt(l)'
  BY <1>2, <1>3, <1>13 DEF ReadsAt
<1>15. PICK c : c = call'[l]
  OBVIOUS
<1>16. c.ev = e /\ c.at = n /\ c.rec = rec /\ c.mtc = next /\ (c.again => rec \in seen[e])
       /\ (c.again <=> m = 0 /\ nodes[n].next # 0)
  BY <1>2, <1>3, <1>6, <1>8, <1>11, <1>15
<1>17. \A x \in Listed : nodes[x].event = e /\ x # n => nodes[x].next = 0
  BY <1>0, <1>4 DEF ListInv, OneEach
<1>18. StoresAt(l)'
  BY <1>4, <1>7, <1>8, <1>9, <1>12, <1>15, <1>16, <1>17 DEF StoresAt
<1>19. ASSUME NEW x \in Listed, EventTpl[nodes[x].event] = l PROVE TurnAt(x)'
  <2>1. CASE nodes[x].event # e
    <3>1. ~Going(nodes[x].event)
      BY <1>3, <1>19, <2>1 DEF Going
    <3> QED BY <1>12, <3>1 DEF CountsInv, TurnAt
  <2>2. CASE nodes[x].event = e
    <3>1. x = n
      BY <1>0, <1>4, <2>2 DEF ListInv, OneEach
    <3>2. CASE Going(e)
      <4>1. m # 0 /\ ~c.again
        BY <1>2, <1>3, <1>13, <1>16, <3>2 DEF Going
      <4>2. Going(e)'
        BY <1>2, <1>13, <1>15, <1>16, <4>1 DEF Going
      <4> QED BY <1>4, <1>12, <3>1, <4>2 DEF TurnAt
    <3>3. CASE ~Going(e)
      BY <1>10, <3>1, <3>3
    <3> QED BY <3>2, <3>3
  <2> QED BY <2>1, <2>2
<1> QED BY <1>0, <1>2, <1>14, <1>18, <1>19, CountsStill
(* A reader is returned a record: the one it found, or, when that was      *)
(* returned to it before, the one after it.                                *)
LEMMA CountsStores ==
    ASSUME Base, CountsInv, NEW l \in Tpls, ReadStores(l)
    PROVE  CountsInv'
<1>0. TypeInv /\ Positive /\ CountsAscend /\ ListInv
  BY DEF Base, CountOK
<1>1. PICK c : c = call[l]
  OBVIOUS
<1>2. PICK after : after = GetNextDataRecord(ClassesOf[c.ev], c.mtc)
  OBVIOUS
<1>3. PICK moved \in BOOLEAN : moved <=> c.again /\ c.mtc # 0
  OBVIOUS
<1>4. PICK returned, kept, next :
          /\ returned = IF moved THEN after.rec ELSE c.rec
          /\ kept = IF moved THEN after.next ELSE c.mtc
          /\ next = IF c.mtc # 0 THEN c.mtc ELSE IF c.again THEN nodes[c.at].next ELSE c.rec
  OBVIOUS
<1>5. /\ Spot(l) = "store" /\ Spot(l)' = "got" /\ Others(l)
      /\ UNCHANGED << records, filters >>
      /\ seen' = [seen EXCEPT ![c.ev] = @ \cup {returned}]
      /\ call'[l].ev = c.ev /\ call'[l].mtc = kept
  BY <1>0, <1>1, <1>2, <1>3, <1>4, StoresEffect
<1>6. /\ c.at \in DOMAIN nodes /\ DOMAIN nodes' = DOMAIN nodes
      /\ nodes'[c.at].next = next /\ nodes'[c.at].event = nodes[c.at].event
      /\ \A x \in DOMAIN nodes : x # c.at => nodes'[x] = nodes[x]
  BY <1>0, <1>1, <1>4, StoresNodes
<1>7. PICK e \in Filters : e = c.ev
  BY <1>0, <1>1, <1>5, ReaderTypes DEF ReadPCs
<1>8. EventTpl[e] = l
  BY <1>1, <1>5, <1>7 DEF CountsInv, ReadsAt, ReadPCs
<1>9. /\ nodes[c.at].event = e
      /\ \A n \in Listed : nodes[n].event = e /\ n # c.at => nodes[n].next = 0
      /\ c.rec \in Mine(e) /\ Before(e, c.rec)
      /\ c.mtc # 0 => c.mtc \in Mine(e) /\ \A x \in Mine(e) : x < c.mtc => x <= c.rec
      /\ c.again => c.rec \in seen[e]
  BY <1>1, <1>5, <1>7 DEF CountsInv, StoresAt
<1>10. Mine(e) \subseteq Nat /\ c.mtc \in Nat
  BY <1>0, <1>1, CallFields, ReaderTypes
<1>11. moved => /\ returned = c.mtc /\ c.mtc \in Mine(e)
                /\ kept # 0 => kept \in Mine(e) /\ \A x \in Mine(e) : x < kept => x <= returned
  <2> SUFFICES ASSUME moved
               PROVE  /\ returned = c.mtc /\ c.mtc \in Mine(e)
                      /\ kept # 0 => kept \in Mine(e)
                                     /\ \A x \in Mine(e) : x < kept => x <= returned
    OBVIOUS
  <2>1. after = GetNextDataRecord(ClassesOf[e], c.mtc) /\ c.mtc # 0 /\ c.mtc \in Mine(e)
    BY <1>2, <1>3, <1>7, <1>9
  <2>2. /\ after.rec = c.mtc
        /\ after.next # 0 => after.next \in Mine(e)
        /\ \A x \in Mine(e) : after.next = 0 \/ x < after.next => x <= after.rec
    BY <1>0, <1>10, <2>1, NextRecord
  <2> QED BY <1>4, <2>1, <2>2
<1>12. returned \in Mine(e) /\ Before(e, returned)
  <2>1. CASE ~moved
    BY <1>4, <1>9, <2>1
  <2>2. CASE moved
    <3>1. ASSUME NEW x \in Mine(e), x < c.mtc PROVE x \in seen[e]
      <4>1. c.rec \in seen[e] /\ x <= c.rec
        BY <1>3, <1>9, <2>2, <3>1
      <4>2. x = c.rec \/ x < c.rec
        BY <1>9, <1>10, <4>1
      <4> QED BY <1>9, <4>1, <4>2 DEF Before
    <3> QED BY <1>11, <2>2, <3>1 DEF Before
  <2> QED BY <2>1, <2>2
<1>13. /\ seen'[e] = seen[e] \cup {returned}
       /\ \A f \in Filters : f # e => seen'[f] = seen[f]
       /\ \A f \in Filters : Mine(f)' = Mine(f)
  BY <1>0, <1>5, <1>7 DEF Mine, TypeInv, HubOK, HubType
<1>14. Grows
  BY <1>13 DEF Grows
<1>15. SeenOK'
  <2>1. ASSUME NEW f \in Filters, NEW m \in seen[f] PROVE m \in Mine(f) /\ Before(f, m)'
    <3>1. m \in Mine(f) /\ Before(f, m)
      BY <2>1 DEF CountsInv, SeenOK
    <3> QED BY <1>14, <3>1, GrowsKeeps
  <2>2. Before(e, returned)'
    BY <1>12, <1>14, GrowsKeeps
  <2> QED BY <1>12, <1>13, <2>1, <2>2 DEF SeenOK
<1>16. ASSUME NEW m \in Mine(e), \A x \in Mine(e) : x < m => x <= returned
       PROVE  Ready(e, m)'
  <2>1. ASSUME NEW x \in Mine(e), x < m PROVE x \in seen'[e]
    <3>1. x = returned \/ x < returned
      BY <1>10, <1>12, <1>16, <2>1
    <3> QED BY <1>12, <1>13, <3>1 DEF Before
  <2> QED BY <1>13, <1>16, <2>1 DEF Ready, Before
<1>17. Ready(e, kept)' /\ Ready(e, next)'
  <2>1. Ready(e, returned)'
    BY <1>12, <1>13, <1>14, GrowsKeeps DEF Ready
  <2>2. Ready(e, 0)'
    BY DEF Ready
  <2>3. CASE moved
    <3>1. next = returned
      BY <1>3, <1>4, <1>11, <2>3
    <3>2. kept # 0 => Ready(e, kept)'
      BY <1>11, <1>16, <2>3
    <3>3. kept = 0 => Ready(e, kept)'
      BY <2>2
    <3> QED BY <2>1, <3>1, <3>2, <3>3
  <2>4. CASE ~moved /\ c.mtc # 0
    <3>1. kept = c.mtc /\ next = c.mtc /\ returned = c.rec
      BY <1>4, <2>4
    <3> QED BY <1>9, <1>16, <2>4, <3>1
  <2>5. CASE ~moved /\ c.mtc = 0 /\ c.again
    <3>1. kept = 0 /\ next = nodes[c.at].next
      BY <1>4, <2>5
    <3>2. Ready(e, next)
      BY <1>6, <1>9, <3>1 DEF CountsInv, NextOK
    <3> QED BY <1>14, <2>2, <3>1, <3>2, GrowsKeeps
  <2>6. CASE ~moved /\ c.mtc = 0 /\ ~c.again
    <3>1. kept = 0 /\ next = returned
      BY <1>4, <2>6
    <3> QED BY <2>1, <2>2, <3>1
  <2> QED BY <2>3, <2>4, <2>5, <2>6
<1>18. \A n \in DOMAIN nodes : nodes'[n].event = nodes[n].event
  BY <1>6
<1>19. NextOK'
  <2> SUFFICES ASSUME NEW n \in DOMAIN nodes PROVE Ready(nodes[n].event, nodes[n].next)'
    BY <1>6 DEF NextOK
  <2>1. CASE n = c.at
    BY <1>6, <1>9, <1>17, <2>1
  <2>2. CASE n # c.at
    <3>1. PICK f \in Filters, y \in Nat : f = nodes[n].event /\ y = nodes[n].next
      BY <1>0, ListTypes
    <3>2. Ready(f, y)'
      BY <1>14, <3>1, GrowsKeeps DEF CountsInv, NextOK
    <3> QED BY <1>6, <2>2, <3>1, <3>2
  <2> QED BY <2>1, <2>2
<1>20. ReadsAt(l)' /\ StoresAt(l)'
  BY <1>5, <1>7, <1>8, <1>17 DEF ReadsAt, StoresAt
<1>21. Listed' = Listed /\ Listed \subseteq DOMAIN nodes
  BY <1>0, <1>5, ListTypes DEF Listed
<1>22. ASSUME NEW n \in Listed, EventTpl[nodes'[n].event] = l PROVE TurnAt(n)'
  <2>1. PICK f \in Filters : f = nodes[n].event /\ f = nodes'[n].event
    BY <1>0, <1>18, <1>21, ListTypes
  <2>2. CASE f # e
    <3>1. ~Going(f)
      BY <1>1, <1>7, <1>22, <2>1, <2>2 DEF Going
    <3>2. nodes'[n] = nodes[n]
      BY <1>6, <1>9, <1>21, <2>1, <2>2
    <3> QED BY <1>13, <2>1, <2>2, <3>1, <3>2 DEF CountsInv, TurnAt
  <2>3. CASE f = e /\ n # c.at
    <3>1. nodes'[n].next = 0
      BY <1>6, <1>9, <1>21, <2>1, <2>3
    <3> QED BY <3>1 DEF TurnAt
  <2>4. CASE f = e /\ n = c.at
    <3>1. nodes'[n].next = next
      BY <1>6, <2>4
    <3>2. CASE moved \/ (c.mtc = 0 /\ ~c.again)
      <4>1. next = returned
        BY <1>3, <1>4, <1>11, <3>2
      <4> QED BY <1>13, <2>1, <2>4, <3>1, <4>1 DEF TurnAt
    <3>3. CASE ~moved /\ c.mtc # 0
      <4>1. Going(e)'
        BY <1>4, <1>5, <1>7, <1>8, <3>3 DEF Going
      <4> QED BY <2>1, <2>4, <4>1 DEF TurnAt
    <3>4. CASE c.mtc = 0 /\ c.again
      <4>1. next = nodes[n].next
        BY <1>4, <2>4, <3>4
      <4>2. ~Going(e)
        BY <1>1, <1>5, <1>8, <3>4 DEF Going
      <4>3. next = 0 \/ next \in seen[e]
        BY <2>1, <2>4, <4>1, <4>2 DEF CountsInv, TurnAt
      <4> QED BY <1>13, <2>1, <2>4, <3>1, <4>3 DEF TurnAt
    <3> QED BY <3>2, <3>3, <3>4
  <2> QED BY <2>2, <2>3, <2>4
<1>23. ASSUME NEW n \in Listed
       PROVE  /\ nodes'[n].event \in Filters
              /\ \/ n \in Listed /\ nodes'[n].next = nodes[n].next
                 \/ nodes'[n].next = 0
                 \/ EventTpl[nodes'[n].event] = l /\ TurnAt(n)'
  <2>1. nodes'[n].event \in Filters
    BY <1>0, <1>18, <1>21, ListTypes
  <2>2. CASE n = c.at
    BY <1>6, <1>8, <1>9, <1>22, <2>1, <2>2
  <2>3. CASE n # c.at
    BY <1>6, <1>21, <2>1, <2>3
  <2> QED BY <2>2, <2>3
<1> QED BY <1>0, <1>5, <1>6, <1>14, <1>15, <1>18, <1>19, <1>20, <1>21, <1>22, <1>23, CountsKeep
(* A reader goes on, ends, or takes its filter out.                        *)
LEMMA CountsReadsOn ==
    ASSUME Base, CountsInv, NEW l \in Tpls, ReadGoesOn(l) \/ HandlerUnregisters(l)
    PROVE  CountsInv'
<1>0. TypeInv
  BY DEF Base
<1>1. Spot(l) = "got" /\ Others(l) /\ Still
      /\ \/ call[l].mtc # 0 /\ Spot(l)' = "read" /\ call' = call
         \/ call[l].mtc = 0 /\ Spot(l)' \notin Spots
         \/ Spot(l)' = "unregister" /\ call' = call
  BY <1>0, ReadsOnEffect, UnregisterEffect
<1>2. \A e : Mine(e)' = Mine(e) /\ \A m : Before(e, m)' <=> Before(e, m)
  BY <1>1 DEF Still, Mine, Before
<1>3. ReadsAt(l) /\ EventTpl[call[l].ev] = l
  BY <1>1 DEF CountsInv, ReadsAt, ReadPCs
<1>4. ReadsAt(l)' /\ StoresAt(l)'
  BY <1>1, <1>2, <1>3 DEF ReadsAt, StoresAt, Spots, ReadPCs, Ready
<1>5. ASSUME NEW n \in Listed, EventTpl[nodes[n].event] = l PROVE TurnAt(n)'
  <2>0. PICK e : e = nodes[n].event
    OBVIOUS
  <2>1. Going(e) => Going(e)'
    BY <1>1, <1>5, <2>0 DEF Going
  <2> QED BY <1>1, <2>0, <2>1 DEF CountsInv, TurnAt, Still
<1> QED BY <1>0, <1>1, <1>4, <1>5, CountsStill

(* A filter's node is linked: it is at the start of the log.               *)
LEMMA CountsLinks ==
    ASSUME Base, CountsInv, NEW l \in Tpls, RegisterLinks(l)
    PROVE  CountsInv'
<1>0. TypeInv /\ ListInv
  BY DEF Base
<1>1. PICK m \in Nat, e \in Filters : m = Len(nodes) + 1 /\ e = call[l].ev
  <2>1. Spot(l) = "link"
    BY <1>0, RegisterEffect
  <2> QED BY <1>0, <2>1, ListTypes, ReaderTypes DEF OwnPCs
<1>2. /\ Spot(l) = "link" /\ Spot(l)' = "announce" /\ Others(l) /\ call' = call
      /\ UNCHANGED << pending, records, seen >>
      /\ nodes' = Append(nodes, [event |-> e, next |-> 0, link |-> 0])
  BY <1>0, <1>1, RegisterEffect
<1>3. /\ DOMAIN nodes' = DOMAIN nodes \cup {m}
      /\ nodes'[m].event = e /\ nodes'[m].next = 0
      /\ \A n \in DOMAIN nodes : nodes'[n] = nodes[n]
  BY <1>0, <1>1, <1>2, ListTypes
<1>4. Listed' = Listed \cup {m} /\ Listed \subseteq DOMAIN nodes
  BY <1>0, <1>1, ListLinks, ListTypes
<1>5. /\ \A f \in Filters : Mine(f)' = Mine(f) /\ seen'[f] = seen[f]
      /\ \A f, x : Before(f, x)' <=> Before(f, x)
      /\ \A f, x : Ready(f, x)' <=> Ready(f, x)
  BY <1>2 DEF Mine, Before, Ready
<1>6. Grows /\ SeenOK'
  BY <1>2, <1>5 DEF Grows, SeenOK, CountsInv
<1>7. NextOK'
  <2> SUFFICES ASSUME NEW n \in DOMAIN nodes' PROVE Ready(nodes'[n].event, nodes'[n].next)
    BY <1>5 DEF NextOK
  <2>1. CASE n \in DOMAIN nodes
    BY <1>3, <2>1 DEF CountsInv, NextOK
  <2>2. CASE n = m
    BY <1>3, <2>2 DEF Ready
  <2> QED BY <1>3, <2>1, <2>2
<1>8. ReadsAt(l)' /\ StoresAt(l)'
  BY <1>2 DEF ReadsAt, StoresAt, ReadPCs
<1>9. ASSUME NEW n \in Listed' PROVE nodes'[n].next = 0 \/ (n \in Listed /\ nodes'[n] = nodes[n])
  BY <1>3, <1>4
<1>10. ASSUME NEW n \in Listed', EventTpl[nodes'[n].event] = l PROVE TurnAt(n)'
  <2>1. CASE nodes'[n].next = 0
    BY <2>1 DEF TurnAt
  <2>2. CASE n \in Listed /\ nodes'[n] = nodes[n]
    <3>1. ~Going(nodes[n].event)
      BY <1>2, <1>10, <2>2 DEF Going
    <3> QED BY <1>2, <2>2, <3>1 DEF CountsInv, TurnAt
  <2> QED BY <1>9, <2>1, <2>2
<1>11. \A n \in Listed' : nodes'[n].event \in Filters
  BY <1>0, <1>3, <1>4, ListTypes
<1> QED BY <1>0, <1>2, <1>3, <1>6, <1>7, <1>8, <1>9, <1>10, <1>11, CountsKeep

(* A filter's node is taken out, wherever in the log it was.               *)
LEMMA CountsUnlinks ==
    ASSUME Base, CountsInv, NEW l \in Tpls, UnregisterUnlinks(l)
    PROVE  CountsInv'
<1>0. TypeInv /\ ListInv
  BY DEF Base
<1>1. PICK m : m = call[l].at
  OBVIOUS
<1>2. /\ Spot(l) = "unlink" /\ Spot(l)' \notin Spots /\ Others(l)
      /\ UNCHANGED << pending, records, seen >>
  BY <1>0, UnregisterEffect
<1>3. /\ m \in DOMAIN nodes /\ DOMAIN nodes' = DOMAIN nodes
      /\ \A n \in DOMAIN nodes : nodes'[n].event = nodes[n].event /\ nodes'[n].next = nodes[n].next
  BY <1>0, <1>1, UnlinkNodes
<1>4. Listed' = Listed \ {m} /\ m \in Listed /\ Listed \subseteq DOMAIN nodes
  BY <1>0, <1>1, ListUnlinks, ListTypes
<1>5. /\ \A f \in Filters : Mine(f)' = Mine(f) /\ seen'[f] = seen[f]
      /\ \A f, x : Before(f, x)' <=> Before(f, x)
      /\ \A f, x : Ready(f, x)' <=> Ready(f, x)
  BY <1>2 DEF Mine, Before, Ready
<1>6. Grows /\ SeenOK'
  BY <1>2, <1>5 DEF Grows, SeenOK, CountsInv
<1>7. NextOK'
  BY <1>3, <1>5 DEF CountsInv, NextOK
<1>8. ReadsAt(l)' /\ StoresAt(l)'
  BY <1>2 DEF ReadsAt, StoresAt, ReadPCs, Spots
<1>9. nodes[m].event = call[l].ev
  BY <1>1, <1>2, <1>0 DEF ListInv, OwnerAt
<1>10. ASSUME NEW n \in Listed', EventTpl[nodes'[n].event] = l PROVE TurnAt(n)'
  <2>1. n \in Listed /\ n # m /\ nodes'[n].event = nodes[n].event /\ nodes'[n].next = nodes[n].next
    BY <1>3, <1>4, <1>10
  <2>2. nodes[n].event # call[l].ev
    BY <1>0, <1>4, <1>9, <2>1 DEF ListInv, OneEach
  <2>3. ~Going(nodes[n].event)
    BY <1>10, <2>1, <2>2 DEF Going
  <2> QED BY <1>2, <2>1, <2>3 DEF CountsInv, TurnAt
<1>11. \A n \in Listed' : nodes'[n].event \in Filters /\ n \in Listed
                          /\ nodes'[n].next = nodes[n].next
  BY <1>0, <1>3, <1>4, ListTypes
<1> QED BY <1>0, <1>2, <1>3, <1>6, <1>7, <1>8, <1>10, <1>11, CountsKeep

(* What begins for a filter begins with no record.                         *)
LEMMA CountsBegin ==
    ASSUME Base, CountsInv, NEW l \in Tpls, NEW e,
           \/ AskRegister(l, e) \/ AskUnregister(l, e)
           \/ NotifyFilter(e) /\ l = EventTpl[e]
    PROVE  CountsInv'
<1>0. TypeInv
  BY DEF Base
<1>1. /\ Spot(l) = "idle" /\ Spot(l)' \in {"register", "unregister", "read"} /\ Others(l) /\ Still
      /\ Spot(l)' = "read" => call'[l].ev = e /\ call'[l].mtc = 0 /\ l = EventTpl[e]
  BY <1>0, BeginEffect
<1>2. ReadsAt(l)' /\ StoresAt(l)'
  BY <1>1 DEF ReadsAt, StoresAt, ReadPCs, Ready
<1>3. ASSUME NEW n \in Listed, EventTpl[nodes[n].event] = l PROVE TurnAt(n)'
  <2>1. ~Going(nodes[n].event)
    BY <1>1, <1>3 DEF Going
  <2> QED BY <1>1, <2>1 DEF CountsInv, TurnAt, Still
<1> QED BY <1>0, <1>1, <1>2, <1>3, CountsStill

(* A search, for the node to link or to unlink, or a step of the walk.     *)
LEMMA CountsSearch ==
    ASSUME Base, CountsInv, NEW l \in Tpls,
           \/ LogNext(l) \/ LogSignal(l) \/ RegisterFinds(l) \/ RegisterSignals(l)
           \/ UnregisterFinds(l)
    PROVE  CountsInv'
<1>0. TypeInv
  BY DEF Base
<1>1. /\ Spot(l) \in {"next", "walk", "register", "announce", "unregister"}
      /\ Spot(l)' \notin ReadPCs /\ Others(l) /\ Still
  BY <1>0, NextEffect, SignalEffect, RegisterEffect, UnregisterEffect DEF Spots, ReadPCs
<1>2. ASSUME NEW n \in Listed, EventTpl[nodes[n].event] = l, Going(nodes[n].event)
      PROVE  TurnAt(n)'
  <2>0. PICK e : e = nodes[n].event
    OBVIOUS
  <2>1. call[l].ev = e /\ Spot(l) = "unregister"
    BY <1>1, <1>2, <2>0 DEF Going
  <2>2. UnregisterFinds(l)
    <3>1. ~LogNext(l) /\ ~LogSignal(l) /\ ~RegisterFinds(l) /\ ~RegisterSignals(l)
      BY <1>0, <2>1, NextEffect, SignalEffect, RegisterEffect
    <3> QED BY <3>1
  <2>3. FindFilterDriverByEvent(e) # 0
    BY <1>0, <2>0, FindsListed
  <2>4. Spot(l)' = "unlink" /\ call'[l].ev = e
    BY <1>0, <2>1, <2>2, <2>3, UnregisterEffect
  <2>5. Going(e)'
    BY <1>2, <2>0, <2>4 DEF Going
  <2> QED BY <1>1, <2>0, <2>5 DEF TurnAt, Still
<1> QED BY <1>0, <1>1, <1>2, CountsAside

(* Readers keep the counts sound, whatever the data hub does.              *)
LEMMA CountsHold == Spec => []CountsInv
<1>1. Init => CountsInv
  <2> SUFFICES ASSUME Init PROVE CountsInv
    OBVIOUS
  <2>1. nodes = << >> /\ filters = << >> /\ Listed = {} /\ \A e \in Filters : seen[e] = {}
    BY DEF Init, HubInit, Listed
  <2>2. \A l \in Tpls : Spot(l) = "idle"
    BY DEF Init, TplInit, Idle, Spot
  <2> QED BY <2>1, <2>2 DEF CountsInv, SeenOK, NextOK, ReadsAt, StoresAt, ReadPCs
<1>2. Base /\ CountsInv /\ [Next]_vars => CountsInv'
  <2> SUFFICES ASSUME Base, CountsInv, [Next]_vars PROVE CountsInv'
    OBVIOUS
  <2>0. TypeInv
    BY DEF Base
  <2>1. CASE HubAction
    <3>1. PICK l \in Tpls : HubActionAt(l)
      BY <2>0, <2>1, HubEffects
    <3>2. ASSUME NEW class, LogAcquire(l) \/ LogNoMemory(l) \/ LogNumber(l) \/ AskLog(l, class)
          PROVE  CountsInv'
      BY <2>0, <3>2, LogElsewhere, CountsElsewhere
    <3> QED BY <3>1, <3>2, CountsInsert, CountsFails, CountsFinds, CountsStores, CountsReadsOn,
               CountsLinks, CountsUnlinks, CountsBegin, CountsSearch DEF HubActionAt, HubStep
  <2>2. CASE ~HubAction
    BY <2>0, <2>2, StatusElsewhere, StutterElsewhere, CountsElsewhere
  <2> QED BY <2>1, <2>2
<1> QED BY <1>1, <1>2, TypeInvHolds, CountHolds, PositiveHolds, ListHolds, PTL DEF Spec, Base

(* A filter is returned the records of its classes without a gap, for      *)
(* every number of filters, records and interruptions: DataHubGetNextRecord *)
(* reads on from the record that was read last.                            *)
THEOREM GapsCorrect == Spec => []NoGaps
<1>1. TypeInv /\ CountOK /\ CountsInv => NoGaps
  <2> SUFFICES ASSUME TypeInv, CountOK, CountsInv, NEW e \in Filters,
                      NEW j \in DOMAIN records, NEW k \in DOMAIN records, j < k,
                      records[j].item.class \in ClassesOf[e], records[k].mtc \in seen[e]
               PROVE  records[j].mtc \in seen[e]
    BY DEF NoGaps
  <2>1. records[j].mtc \in Mine(e)
    BY DEF Mine
  <2>2. records[j].mtc < records[k].mtc
    BY DEF CountOK, CountsAscend
  <2> QED BY <2>1, <2>2 DEF CountsInv, SeenOK, Before
<1> QED BY <1>1, TypeInvHolds, CountHolds, CountsHold, PTL
-----------------------------------------------------------------------------
(* The records in the data hub; and one that filter n is to be returned    *)
(* and was not.                                                            *)
Logged == {records[j] : j \in DOMAIN records}
Owes(n, r) == Interested(n, r) /\ r.mtc \notin seen[nodes[n].event]

(* Whoever follows the links from a node of S comes by node n.             *)
Leads(S, n) == \A y \in S \ {n} : ForwardLink(y) \in S /\ y < ForwardLink(y)
(* Level l has logged record r and has yet to come by node n.              *)
Walks(l, n, r) ==
    /\ Spot(l) = "walk" \/ (Spot(l) = "next" /\ call[l].at # n)
    /\ LogRecord(l) = r
    /\ \E S \in SUBSET (0 .. n) : call[l].at \in S /\ Leads(S, n)
(* The reader of e is going to return it the record with count m.          *)
Returns(l, e, m) ==
    /\ EventTpl[e] = l /\ call[l].ev = e
    /\ \/ Spot(l) \in {"read", "unregister", "unlink"}
       \/ Spot(l) = "store" /\ (call[l].mtc # 0 \/ call[l].rec = m)
       \/ Spot(l) = "got" /\ call[l].mtc # 0
(* Level l brings filter n to record r: it reads it or takes the filter    *)
(* out, it signals the filter that it registered, or it walks.             *)
Serves(l, n, r) ==
    \/ Returns(l, nodes[n].event, r.mtc)
    \/ Spot(l) = "announce" /\ call[l].ev = nodes[n].event
    \/ Walks(l, n, r)
Served(n, r) == nodes[n].event \in pending \/ \E l \in Tpls : Serves(l, n, r)

(* The invariant of the signals: what a filter was not returned, it will   *)
(* be.                                                                     *)
SignalsInv == \A n \in Listed, r \in Logged : Owes(n, r) => Served(n, r)

(* The node after y in a list of nodes that is in their order.             *)
IsNext(L, y, v) ==
    \/ v = 0 /\ \A x \in L : x <= y
    \/ v \in L /\ y < v /\ \A x \in L : x <= y \/ v <= x

(* There is one.                                                           *)
LEMMA OneNext ==
    ASSUME NEW L \in SUBSET Nat, NEW y \in Nat, NEW v \in Nat, NEW w \in Nat,
           IsNext(L, y, v), IsNext(L, y, w)
    PROVE  v = w
<1>1. CASE v = 0 /\ w = 0
  BY <1>1
<1>2. CASE v \in L /\ w \in L /\ y < v /\ y < w
  <2>1. v <= w /\ w <= v
    BY <1>2 DEF IsNext
  <2> QED BY <2>1
<1>3. ~(v = 0 /\ w \in L /\ y < w) /\ ~(w = 0 /\ v \in L /\ y < v)
  BY DEF IsNext
<1> QED BY <1>1, <1>2, <1>3 DEF IsNext

(* GetNextNode finds it, for a node of the list and for its head.          *)
LEMMA LinksNext ==
    ASSUME TypeInv, Sorted, NEW y \in {0} \cup Listed
    PROVE  IsNext(Listed, y, ForwardLink(y)) /\ ForwardLink(y) \in Nat
<1>1. PICK p \in 0 .. Len(filters) :
          /\ p = IF y = 0 THEN 0 ELSE Position(y)
          /\ p # 0 => filters[p] = y
          /\ p = 0 => y = 0
  <2>1. CASE y = 0
    BY <2>1, ListTypes
  <2>2. CASE y # 0
    BY <2>2, PositionOf, ListTypes
  <2> QED BY <2>1, <2>2
<1>2. DOMAIN filters = 1 .. Len(filters) /\ Len(filters) \in Nat /\ p \in Nat
      /\ \A j \in DOMAIN filters : filters[j] \in Nat /\ filters[j] # 0
  BY ListTypes
<1>3. ForwardLink(y) = IF p + 1 \in DOMAIN filters THEN filters[p + 1] ELSE 0
  <2>1. ~(y # 0 /\ y \notin Listed)
    OBVIOUS
  <2>2. p + 1 = IF y = 0 THEN 1 ELSE Position(y) + 1
    BY <1>1
  <2> QED BY <2>1, <2>2 DEF ForwardLink
<1>4. y \in Nat
  BY <1>2 DEF Listed
<1>5. ASSUME NEW j \in DOMAIN filters, j <= p PROVE filters[j] <= y
  <2>1. p \in DOMAIN filters /\ filters[p] = y /\ (j = p \/ j < p)
    BY <1>1, <1>2, <1>5
  <2>2. j < p => filters[j] < y
    BY <2>1 DEF Sorted
  <2> QED BY <1>2, <1>4, <2>1, <2>2
<1>6. CASE p + 1 \in DOMAIN filters
  <2> DEFINE v == filters[p + 1]
  <2>1. v \in Listed /\ v \in Nat /\ v # 0
    BY <1>2, <1>6 DEF Listed
  <2>2. y < v
    <3>1. CASE p = 0
      BY <1>1, <2>1, <3>1
    <3>2. CASE p # 0
      <4>1. p \in DOMAIN filters /\ p < p + 1 /\ filters[p] = y
        BY <1>1, <1>2, <3>2
      <4> QED BY <1>6, <4>1 DEF Sorted
    <3> QED BY <3>1, <3>2
  <2>3. ASSUME NEW j \in DOMAIN filters PROVE filters[j] <= y \/ v <= filters[j]
    <3>1. j <= p \/ j = p + 1 \/ p + 1 < j
      BY <1>2
    <3>2. p + 1 < j => v < filters[j]
      BY <1>6 DEF Sorted
    <3> QED BY <1>2, <1>5, <2>1, <3>1, <3>2
  <2>4. ForwardLink(y) = v
    BY <1>3, <1>6
  <2> HIDE DEF v
  <2> QED BY <2>1, <2>2, <2>3, <2>4 DEF IsNext, Listed
<1>7. CASE p + 1 \notin DOMAIN filters
  <2>1. \A j \in DOMAIN filters : j <= p
    BY <1>2, <1>7
  <2> QED BY <1>3, <1>5, <1>7, <2>1 DEF IsNext, Listed
<1> QED BY <1>6, <1>7

(* So it does in the next state. *)
LinksSound ==
    TypeInv /\ Sorted =>
        \A y \in {0} \cup Listed : IsNext(Listed, y, ForwardLink(y)) /\ ForwardLink(y) \in Nat
LEMMA LinksAlways == LinksSound
  BY LinksNext DEF LinksSound
LEMMA LinksAfter == LinksSound'
  BY LinksAlways, PTL

(* From the head of the list a walk comes by each of its nodes.            *)
LEMMA HeadLeads ==
    ASSUME TypeInv, Sorted, NEW n \in Listed
    PROVE  \E S \in SUBSET (0 .. n) : 0 \in S /\ Leads(S, n)
<1> DEFINE S == {0} \cup {x \in Listed : x <= n}
<1>1. Listed \subseteq Nat \ {0}
  BY ListTypes
<1>2. S \in SUBSET (0 .. n) /\ 0 \in S
  <2>1. n \in Nat /\ 0 \in 0 .. n
    BY <1>1
  <2>2. \A x \in Listed : x <= n => x \in 0 .. n
    BY <1>1, <2>1
  <2> QED BY <2>1, <2>2
<1>3. ASSUME NEW y \in S \ {n} PROVE ForwardLink(y) \in S /\ y < ForwardLink(y)
  <2>1. PICK v \in Nat : v = ForwardLink(y) /\ IsNext(Listed, y, v)
    BY LinksNext
  <2>2. y \in Nat /\ y < n /\ n \in Nat
    BY <1>1
  <2>3. v \in Listed /\ y < v /\ v <= n
    BY <2>1, <2>2 DEF IsNext
  <2> QED BY <2>1, <2>3
<1> QED BY <1>2, <1>3 DEF Leads

(* It still does when a node is appended, ...                              *)
LEMMA LinkLeads ==
    ASSUME TypeInv, ListInv, TypeInv', NEW l \in Tpls, RegisterLinks(l),
           NEW n \in Listed, NEW S \in SUBSET (0 .. n), Leads(S, n)
    PROVE  Leads(S, n)'
<1>1. ListInv' /\ Listed' = Listed \cup {Len(nodes) + 1}
  BY ListLinks
<1>2. Listed \subseteq 1 .. Len(nodes) /\ Len(nodes) \in Nat
  BY ListTypes
<1>3. \A x \in DOMAIN nodes : nodes'[x] = nodes[x]
  BY ListTypes DEF RegisterLinks
<1> SUFFICES ASSUME NEW y \in S \ {n} PROVE ForwardLink(y)' = ForwardLink(y)
  BY DEF Leads
<1>4. PICK v : v = ForwardLink(y) /\ v \in S /\ y < v
  BY DEF Leads
<1>5. y \in 0 .. Len(nodes) /\ y # Len(nodes) + 1 /\ v \in Nat /\ v # 0
  BY <1>2, <1>4
<1>6. CASE y # 0 /\ y \notin Listed
  BY <1>1, <1>2, <1>3, <1>5, <1>6, ListTypes DEF ForwardLink
<1>7. CASE y \in {0} \cup Listed
  <2>1. IsNext(Listed, y, v)
    BY <1>4, <1>7, LinksNext DEF ListInv
  <2>2. IsNext(Listed', y, v)
    <3>1. v \in Listed /\ y < v /\ \A x \in Listed : x <= y \/ v <= x
      BY <1>5, <2>1 DEF IsNext
    <3> QED BY <1>1, <1>2, <1>5, <3>1 DEF IsNext
  <2>3. PICK w \in Nat : w = ForwardLink(y)' /\ IsNext(Listed', y, w)
    BY <1>1, <1>7, LinksAfter DEF ListInv, LinksSound
  <2>4. y \in Nat /\ \A x \in Listed' : x \in Nat
    BY <1>1, <1>2, <1>5
  <2> QED BY <1>4, <1>5, <2>2, <2>3, <2>4, OneNext
<1> QED BY <1>6, <1>7

(* ... and when another one is taken out, though the walk may be at it.    *)
LEMMA UnlinkLeads ==
    ASSUME TypeInv, ListInv, TypeInv', NEW l \in Tpls, UnregisterUnlinks(l),
           NEW n \in Listed, n # call[l].at, NEW S \in SUBSET (0 .. n), Leads(S, n)
    PROVE  Leads(S, n)'
<1>0. PICK x : x = call[l].at
  OBVIOUS
<1>1. ListInv' /\ Listed' = Listed \ {x} /\ x \in Listed
  BY <1>0, ListUnlinks
<1>2. Listed \subseteq 1 .. Len(nodes) /\ Len(nodes) \in Nat /\ DOMAIN nodes = 1 .. Len(nodes)
  BY ListTypes
<1>3. /\ nodes'[x].link = ForwardLink(x)
      /\ \A z \in DOMAIN nodes : z # x => nodes'[z] = nodes[z]
  BY <1>0, UnlinkNodes
<1> SUFFICES ASSUME NEW y \in S \ {n} PROVE ForwardLink(y)' \in S /\ y < ForwardLink(y)'
  BY DEF Leads
<1>4. PICK v : v = ForwardLink(y) /\ v \in S /\ y < v
  BY DEF Leads
<1>5. y \in 0 .. Len(nodes) /\ v \in Nat /\ v # 0 /\ y \in Nat /\ x \in Nat /\ x # 0
  BY <1>1, <1>2, <1>4
<1>6. CASE y = x
  <2>1. ForwardLink(y)' = v
    BY <1>1, <1>3, <1>4, <1>5, <1>6 DEF ForwardLink
  <2> QED BY <1>4, <2>1
<1>7. CASE y # x /\ y # 0 /\ y \notin Listed
  <2>1. nodes'[y] = nodes[y]
    BY <1>2, <1>3, <1>5, <1>7
  <2>2. ForwardLink(y)' = v
    BY <1>1, <1>4, <1>7, <2>1 DEF ForwardLink
  <2> QED BY <1>4, <2>2
<1>8. CASE y # x /\ y \in {0} \cup Listed
  <2>1. IsNext(Listed, y, v)
    BY <1>4, <1>8, LinksNext DEF ListInv
  <2>2. v \in Listed /\ \A z \in Listed : z <= y \/ v <= z
    BY <1>5, <2>1 DEF IsNext
  <2>3. PICK w \in Nat : w = ForwardLink(y)' /\ IsNext(Listed', y, w)
    BY <1>1, <1>8, LinksAfter DEF ListInv, LinksSound
  <2>4. Listed' \in SUBSET Nat
    BY <1>1, <1>2
  <2>5. CASE v # x
    <3>1. IsNext(Listed', y, v)
      BY <1>1, <1>4, <2>2, <2>5 DEF IsNext
    <3>2. w = v
      BY <1>5, <2>3, <2>4, <3>1, OneNext
    <3> QED BY <1>4, <2>3, <3>2
  <2>6. CASE v = x
    <3>1. PICK u \in Nat : u = ForwardLink(x) /\ IsNext(Listed, x, u)
      BY <1>1, LinksNext DEF ListInv
    <3>2. u \in S /\ x < u
      BY <1>0, <1>4, <2>6, <3>1 DEF Leads
    <3>3. u \in Listed /\ \A z \in Listed : z <= x \/ u <= z
      BY <1>5, <3>1, <3>2 DEF IsNext
    <3>4. y < u
      BY <1>4, <1>5, <2>6, <3>2
    <3>5. ASSUME NEW z \in Listed, z # x PROVE z <= y \/ u <= z
      <4>1. z \in Nat /\ (z <= y \/ x <= z) /\ (z <= x \/ u <= z)
        BY <1>2, <2>2, <2>6, <3>3, <3>5
      <4> QED BY <1>5, <3>5, <4>1
    <3>6. IsNext(Listed', y, u)
      BY <1>1, <1>5, <3>2, <3>3, <3>4, <3>5 DEF IsNext
    <3>7. w = u
      BY <1>5, <2>3, <2>4, <3>6, OneNext
    <3> QED BY <2>3, <3>2, <3>4, <3>7
  <2> QED BY <2>5, <2>6
<1> QED BY <1>6, <1>7, <1>8
-----------------------------------------------------------------------------
(* A step of level l leaves what the other levels do for filter n.         *)
Leaves(n) ==
    /\ nodes'[n].event = nodes[n].event
    /\ \A S \in SUBSET (0 .. n) : Leads(S, n) => Leads(S, n)'

(* Nothing is owed that was not, ...                                       *)
LEMMA OwesBefore ==
    ASSUME NEW n, NEW r, nodes[n].event \in Filters, nodes'[n].event = nodes[n].event,
           \A e \in Filters : seen[e] \subseteq seen'[e], Owes(n, r)'
    PROVE  Owes(n, r)
  BY DEF Owes, Interested

(* ... and the other levels go on with what they do.                       *)
LEMMA ServesOn ==
    ASSUME NEW l \in Tpls, Others(l), NEW k \in Tpls, k # l, NEW n, NEW r, Leaves(n),
           Serves(k, n, r)
    PROVE  Serves(k, n, r)'
<1>1. Spot(k)' = Spot(k) /\ call'[k] = call[k] /\ nodes'[n].event = nodes[n].event
  BY DEF Others, Leaves
<1>2. LogRecord(k)' = LogRecord(k)
  BY <1>1 DEF LogRecord
<1>3. CASE Walks(k, n, r)
  BY <1>1, <1>2, <1>3 DEF Walks, Leaves, Serves
<1>4. CASE Returns(k, nodes[n].event, r.mtc)
  BY <1>1, <1>4 DEF Returns, Serves
<1>5. CASE Spot(k) = "announce" /\ call[k].ev = nodes[n].event
  BY <1>1, <1>5 DEF Serves
<1> QED BY <1>3, <1>4, <1>5 DEF Serves

(* So a step of level l has to care for what level l did, for what is no   *)
(* longer pending and for what is new.                                     *)
LEMMA SignalsKeep ==
    ASSUME TypeInv, SignalsInv, NEW l \in Tpls, Others(l),
           \A e \in Filters : seen[e] \subseteq seen'[e],
           \A n \in Listed', r \in Logged' : Owes(n, r)' =>
              \/ Served(n, r)'
              \/ /\ n \in Listed /\ r \in Logged /\ Leaves(n) /\ ~Serves(l, n, r)
                 /\ nodes[n].event \in pending => nodes[n].event \in pending'
    PROVE  SignalsInv'
<1> SUFFICES ASSUME NEW n \in Listed', NEW r \in Logged', Owes(n, r)' PROVE Served(n, r)'
  BY DEF SignalsInv
<1>1. CASE /\ n \in Listed /\ r \in Logged /\ Leaves(n) /\ ~Serves(l, n, r)
           /\ nodes[n].event \in pending => nodes[n].event \in pending'
  <2>1. nodes[n].event \in Filters /\ nodes'[n].event = nodes[n].event
    BY <1>1, ListTypes DEF Leaves
  <2>2. Served(n, r)
    BY <1>1, <2>1, OwesBefore DEF SignalsInv
  <2>3. CASE nodes[n].event \in pending
    BY <1>1, <2>1, <2>3 DEF Served
  <2>4. CASE \E k \in Tpls : Serves(k, n, r)
    <3>1. PICK k \in Tpls : Serves(k, n, r)
      BY <2>4
    <3>2. Serves(k, n, r)'
      BY <1>1, <3>1, ServesOn
    <3> QED BY <3>2 DEF Served
  <2> QED BY <2>2, <2>3, <2>4 DEF Served
<1> QED BY <1>1

(* The list does not change. *)
LEMMA StillLeaves ==
    ASSUME Still
    PROVE  Listed' = Listed /\ Logged' = Logged /\ \A n : Leaves(n)
<1>1. \A y : ForwardLink(y)' = ForwardLink(y)
  BY DEF Still, ForwardLink, Position, Listed
<1> QED BY <1>1 DEF Still, Leaves, Leads, Listed, Logged

LEMMA SignalsStill ==
    ASSUME TypeInv, SignalsInv, NEW l \in Tpls, Others(l), Still,
           \A n \in Listed, r \in Logged :
              nodes[n].event \in pending => nodes[n].event \in pending' \/ Served(n, r)',
           \A n \in Listed, r \in Logged : Owes(n, r) /\ Serves(l, n, r) => Served(n, r)'
    PROVE  SignalsInv'
<1>1. Listed' = Listed /\ Logged' = Logged /\ \A n : Leaves(n)
  BY StillLeaves
<1>2. \A e \in Filters : seen[e] \subseteq seen'[e]
  BY DEF Still
<1>3. ASSUME NEW n \in Listed, NEW r \in Logged, Owes(n, r)', ~Served(n, r)'
      PROVE  /\ Leaves(n) /\ ~Serves(l, n, r)
             /\ nodes[n].event \in pending => nodes[n].event \in pending'
  <2>1. Owes(n, r)
    BY <1>1, <1>2, <1>3, ListTypes, OwesBefore DEF Leaves
  <2> QED BY <1>1, <1>3, <2>1
<1> QED BY <1>1, <1>2, <1>3, SignalsKeep

(* Steps that are no concern of the readers. *)
LEMMA SignalsElsewhere ==
    ASSUME TypeInv, SignalsInv, Elsewhere
    PROVE  SignalsInv'
<1>1. Listed' = Listed /\ Logged' = Logged /\ nodes' = nodes /\ seen' = seen /\ \A n : Leaves(n)
  BY StillLeaves DEF Elsewhere, Still
<1> SUFFICES ASSUME NEW n \in Listed, NEW r \in Logged, Owes(n, r)' PROVE Served(n, r)'
  BY <1>1 DEF SignalsInv
<1>2. nodes[n].event \in Filters /\ Served(n, r)
  BY <1>1, ListTypes, OwesBefore DEF SignalsInv
<1>3. CASE nodes[n].event \in pending
  BY <1>1, <1>2, <1>3 DEF Served, Elsewhere
<1>4. CASE \E k \in Tpls : Serves(k, n, r)
  <2>1. PICK k \in Tpls : Serves(k, n, r)
    BY <1>4
  <2>2. Spot(k) \in Spots
    BY <2>1 DEF Serves, Returns, Walks, Spots, ReadPCs, OwnPCs
  <2>3. Spot(k)' = Spot(k) /\ call'[k] = call[k]
    BY <2>2 DEF Elsewhere
  <2>4. LogRecord(k)' = LogRecord(k)
    BY <2>3 DEF LogRecord
  <2>5. Serves(k, n, r)'
    BY <1>1, <2>1, <2>3, <2>4 DEF Serves, Returns, Walks, Leaves
  <2> QED BY <2>5 DEF Served
<1> QED BY <1>2, <1>3, <1>4 DEF Served

(* Where level l is when it serves a filter. *)
LEMMA ServesSpot ==
    ASSUME NEW l, NEW n, NEW r, Serves(l, n, r)
    PROVE  /\ Spot(l) \in ReadPCs \cup {"unregister", "unlink", "announce", "next", "walk"}
           /\ Spot(l) \in ReadPCs \cup {"unregister", "unlink"} =>
                 Returns(l, nodes[n].event, r.mtc)
           /\ Spot(l) \in {"next", "walk"} => Walks(l, n, r)
           /\ Spot(l) = "announce" => call[l].ev = nodes[n].event
  BY DEF Serves, Returns, Walks, ReadPCs

(* What is owed to a filter has a count of its classes. *)
LEMMA OwesMine ==
    ASSUME NEW n \in Listed, NEW r \in Logged, Owes(n, r)
    PROVE  r.mtc \in Mine(nodes[n].event) /\ r.mtc \notin seen[nodes[n].event]
  BY DEF Owes, Interested, Logged, Mine
(* A record is inserted: the walk begins at the head of the list.          *)
LEMMA SignalsInsert ==
    ASSUME Base, SignalsInv, NEW l \in Tpls, LogInsert(l)
    PROVE  SignalsInv'
<1>0. TypeInv /\ ListInv
  BY DEF Base
<1>1. /\ Spot(l) = "insert" /\ Spot(l)' = "next" /\ Others(l)
      /\ call'[l].at = 0 /\ LogRecord(l)' = LogRecord(l)
      /\ UNCHANGED << nodes, filters, seen, pending >>
  BY <1>0, InsertEffect
<1>2. PICK q : q = LogRecord(l)
  OBVIOUS
<1>3. Logged' \subseteq Logged \cup {q}
  <2>1. /\ DOMAIN records = 1 .. Len(records) /\ Len(records) \in Nat
        /\ DOMAIN records' = 1 .. Len(records) + 1
        /\ records'[Len(records) + 1] = q
        /\ \A j \in DOMAIN records : records'[j] = records[j]
    BY <1>0, <1>2, InsertAppends, RecordsNat
  <2> QED BY <2>1 DEF Logged
<1>4. Listed' = Listed /\ \A n : Leaves(n)
  <2>1. \A y : ForwardLink(y)' = ForwardLink(y)
    BY <1>1 DEF ForwardLink, Position, Listed
  <2> QED BY <1>1, <2>1 DEF Leaves, Leads, Listed
<1>5. ASSUME NEW n \in Listed PROVE Served(n, q)'
  <2>1. PICK S \in SUBSET (0 .. n) : 0 \in S /\ Leads(S, n)
    BY <1>0, HeadLeads DEF ListInv
  <2>2. Leads(S, n)' /\ n # 0
    BY <1>0, <1>4, <2>1, ListTypes DEF Leaves
  <2>3. Walks(l, n, q)'
    BY <1>1, <1>2, <2>1, <2>2 DEF Walks
  <2> QED BY <2>3 DEF Served, Serves
<1>6. \A n, r : ~Serves(l, n, r)
  BY <1>1, ServesSpot DEF ReadPCs
<1> QED BY <1>0, <1>1, <1>3, <1>4, <1>5, <1>6, SignalsKeep

(* The walk comes by the next node, and signals its filter.                *)
LEMMA SignalsWalk ==
    ASSUME Base, SignalsInv, NEW l \in Tpls, LogNext(l) \/ LogSignal(l)
    PROVE  SignalsInv'
<1>0. TypeInv /\ ListInv
  BY DEF Base
<1>1. Others(l) /\ Still /\ pending \subseteq pending'
      /\ Spot(l) \in {"next", "walk"}
      /\ \/ /\ Spot(l) = "next"
            /\ \/ ForwardLink(call[l].at) = 0
               \/ /\ Spot(l)' = "walk" /\ call'[l].at = ForwardLink(call[l].at)
                  /\ LogRecord(l)' = LogRecord(l)
         \/ /\ Spot(l) = "walk" /\ Spot(l)' = "next" /\ call' = call
            /\ Interested(call[l].at, LogRecord(l)) => nodes[call[l].at].event \in pending'
  BY <1>0, NextEffect, SignalEffect
<1>2. \A n : Leaves(n)
  BY <1>1, StillLeaves
<1>3. ASSUME NEW n \in Listed, NEW r \in Logged, Owes(n, r), Serves(l, n, r) PROVE Served(n, r)'
  <2>1. Walks(l, n, r)
    BY <1>1, <1>3, ServesSpot
  <2>2. PICK S \in SUBSET (0 .. n) : call[l].at \in S /\ Leads(S, n)
    BY <2>1 DEF Walks
  <2>3. Leads(S, n)'
    BY <1>2, <2>2 DEF Leaves
  <2>4. LogRecord(l) = r
    BY <2>1 DEF Walks
  <2>5. CASE Spot(l) = "next"
    <3>1. call[l].at \in S \ {n}
      BY <2>1, <2>2, <2>5 DEF Walks
    <3>2. ForwardLink(call[l].at) \in S /\ call[l].at < ForwardLink(call[l].at)
      BY <2>2, <3>1 DEF Leads
    <3>3. call[l].at \in Nat
      BY <1>0, CallFields
    <3>4. ForwardLink(call[l].at) # 0
      BY <3>2, <3>3
    <3>5. Walks(l, n, r)'
      BY <1>1, <2>3, <2>4, <2>5, <3>2, <3>4 DEF Walks
    <3> QED BY <3>5 DEF Served, Serves
  <2>6. CASE Spot(l) = "walk" /\ call[l].at = n
    <3>1. Interested(n, r)
      BY <1>3 DEF Owes
    <3> QED BY <1>1, <2>4, <2>6, <3>1 DEF Served, Still
  <2>7. CASE Spot(l) = "walk" /\ call[l].at # n
    <3>1. Spot(l)' = "next" /\ call' = call
      BY <1>1, <2>7
    <3>2. LogRecord(l)' = LogRecord(l)
      BY <3>1 DEF LogRecord
    <3>3. Walks(l, n, r)'
      BY <2>2, <2>3, <2>4, <2>7, <3>1, <3>2 DEF Walks
    <3> QED BY <3>3 DEF Served, Serves
  <2> QED BY <1>1, <2>5, <2>6, <2>7
<1> QED BY <1>0, <1>1, <1>3, SignalsStill

(* A reader that finds no record misses none.                              *)
LEMMA SignalsFails ==
    ASSUME Base, CountsInv, SignalsInv, NEW l \in Tpls, ReadFails(l)
    PROVE  SignalsInv'
<1>0. TypeInv /\ Positive /\ CountsAscend
  BY DEF Base, CountOK
<1> DEFINE node == FindFilterDriverByEvent(call[l].ev)
<1>1. /\ Spot(l) = "read" /\ Others(l) /\ Still /\ pending' = pending
      /\ Found(l, node).rec = 0
  BY <1>0, FailsEffect
<1>2. ASSUME NEW n \in Listed, NEW r \in Logged, Owes(n, r), Serves(l, n, r) PROVE FALSE
  <2>1. PICK e \in Filters, m \in Nat, w \in Nat :
            e = call[l].ev /\ m = call[l].mtc /\ w = CountWanted(l, node)
    <3>1. node # 0 => node \in Listed
      BY <1>0, FindsListed
    <3>2. nodes[n].event = call[l].ev
      BY <1>1, <1>2, ServesSpot DEF Returns, ReadPCs
    <3>3. node # 0
      BY <1>0, <3>2, FindsListed
    <3>4. CountWanted(l, node) \in Nat
      BY <1>0, <3>1, <3>3, ListTypes, CallFields DEF CountWanted
    <3> QED BY <1>0, <1>1, <3>4, ReaderTypes, CallFields DEF ReadPCs
  <2>2. nodes[n].event = e
    BY <1>1, <1>2, <2>1, ServesSpot DEF Returns, ReadPCs
  <2>3. node # 0 /\ node \in Listed /\ nodes[node].event = e
    BY <1>0, <2>1, <2>2, FindsListed
  <2>4. Found(l, node) = GetNextDataRecord(ClassesOf[e], w)
    BY <2>1, <2>3 DEF Found
  <2>5. Mine(e) # {}
    BY <1>2, <2>2, OwesMine
  <2>6. w # 0 => w \in Mine(e)
    <3>1. Ready(e, m)
      BY <1>1, <2>1 DEF CountsInv, ReadsAt
    <3>2. Ready(e, nodes[node].next)
      BY <1>0, <2>3, ListTypes DEF CountsInv, NextOK
    <3> QED BY <2>1, <3>1, <3>2 DEF CountWanted, Ready
  <2>7. GetNextDataRecord(ClassesOf[e], w).rec = 0
    BY <1>1, <2>4
  <2> QED BY <1>0, <2>5, <2>6, <2>7, NextRecord
<1> QED BY <1>0, <1>1, <1>2, SignalsStill

(* A reader that finds the last record finds the one it misses.            *)
LEMMA SignalsFinds ==
    ASSUME Base, CountsInv, CountsInv', SignalsInv, NEW l \in Tpls, ReadFinds(l)
    PROVE  SignalsInv'
<1>0. TypeInv /\ Positive /\ CountsAscend
  BY DEF Base, CountOK
<1>1. PICK node : node = FindFilterDriverByEvent(call[l].ev)
  OBVIOUS
<1>2. /\ Spot(l) = "read" /\ Spot(l)' = "store" /\ Others(l) /\ Still /\ pending' = pending
      /\ Found(l, node).rec # 0
      /\ call'[l].ev = call[l].ev
      /\ call'[l].rec = Found(l, node).rec /\ call'[l].mtc = Found(l, node).next
  BY <1>0, <1>1, FindsEffect
<1>3. ASSUME NEW n \in Listed, NEW r \in Logged, Owes(n, r), Serves(l, n, r) PROVE Served(n, r)'
  <2>0. PICK e \in Filters : e = call[l].ev
    BY <1>0, <1>2, ReaderTypes DEF ReadPCs
  <2>1. nodes[n].event = e /\ EventTpl[e] = l
    BY <1>2, <1>3, <2>0, ServesSpot DEF Returns, ReadPCs
  <2>2. r.mtc \in Mine(e) /\ r.mtc \notin seen[e]
    BY <1>3, <2>1, OwesMine
  <2>3. node # 0 /\ node \in Listed
    BY <1>0, <1>1, <1>2, FindsListed DEF Found, NoRecord
  <2>4. CountWanted(l, node) \in Nat /\ r.mtc \in Nat
    BY <1>0, <2>2, <2>3, ListTypes, CallFields, ReaderTypes DEF CountWanted
  <2>5. PICK c : c = call'[l]
    OBVIOUS
  <2>6. PICK m \in Nat, w \in Nat : m = r.mtc /\ w = CountWanted(l, node)
    BY <2>4
  <2>7. m \in Mine(e) /\ m \notin seen[e]
    BY <2>6, <2>2
  <2>8. Found(l, node) = GetNextDataRecord(ClassesOf[e], w)
    BY <2>0, <2>6, <2>3 DEF Found
  <2>9. c.mtc = 0 => m <= c.rec
    BY <1>0, <1>2, <2>7, <2>8, <2>5, NextRecord
  <2>10. c.rec \in Mine(e) /\ \A x \in Mine(e) : x < c.rec => x \in seen[e]
    <3>1. c.rec \in Mine(e)' /\ Before(e, c.rec)'
      BY <1>2, <2>0, <2>5 DEF CountsInv, StoresAt
    <3> QED BY <1>2, <3>1 DEF Still, Mine, Before
  <2>11. c.mtc = 0 => c.rec = m
    <3>1. c.rec \in Nat
      BY <1>0, <2>10, ReaderTypes
    <3> QED BY <2>6, <2>7, <2>9, <2>10, <3>1
  <2>12. Returns(l, e, m)'
    BY <1>2, <2>0, <2>1, <2>11, <2>5 DEF Returns
  <2> QED BY <1>2, <2>6, <2>1, <2>12 DEF Served, Serves, Still
<1> QED BY <1>0, <1>2, <1>3, SignalsStill
(* A reader that is returned the last record has been returned them all.   *)
LEMMA SignalsStores ==
    ASSUME Base, CountsInv, SignalsInv, NEW l \in Tpls, ReadStores(l)
    PROVE  SignalsInv'
<1>0. TypeInv /\ Positive /\ CountsAscend
  BY DEF Base, CountOK
<1>1. PICK c : c = call[l]
  OBVIOUS
<1>2. PICK after : after = GetNextDataRecord(ClassesOf[c.ev], c.mtc)
  OBVIOUS
<1>3. PICK moved \in BOOLEAN : moved <=> c.again /\ c.mtc # 0
  OBVIOUS
<1>4. PICK returned, kept :
          /\ returned = IF moved THEN after.rec ELSE c.rec
          /\ kept = IF moved THEN after.next ELSE c.mtc
  OBVIOUS
<1>5. /\ Spot(l) = "store" /\ Spot(l)' = "got" /\ Others(l)
      /\ UNCHANGED << pending, records, filters >>
      /\ seen' = [seen EXCEPT ![c.ev] = @ \cup {returned}]
      /\ call'[l].ev = c.ev /\ call'[l].mtc = kept
  BY <1>0, <1>1, <1>2, <1>3, <1>4, StoresEffect
<1>6. /\ DOMAIN nodes' = DOMAIN nodes
      /\ \A x \in DOMAIN nodes : nodes'[x].event = nodes[x].event /\ nodes'[x].link = nodes[x].link
  BY <1>0, StoresNodes
<1>7. PICK e \in Filters : e = c.ev
  BY <1>0, <1>1, <1>5, ReaderTypes DEF ReadPCs
<1>8. /\ EventTpl[e] = l
      /\ c.rec \in Mine(e) /\ Before(e, c.rec)
      /\ c.mtc # 0 => c.mtc \in Mine(e) /\ \A x \in Mine(e) : x < c.mtc => x <= c.rec
      /\ c.again => c.rec \in seen[e]
  BY <1>1, <1>5, <1>7 DEF CountsInv, ReadsAt, StoresAt, ReadPCs
<1>9. Mine(e) \subseteq Nat /\ c.mtc \in Nat
  BY <1>0, <1>1, CallFields, ReaderTypes
<1>10. seen'[e] = seen[e] \cup {returned} /\ \A f \in Filters : seen[f] \subseteq seen'[f]
  BY <1>0, <1>5, <1>7 DEF TypeInv, HubOK, HubType
<1>11. Listed' = Listed /\ Logged' = Logged /\ Listed \subseteq DOMAIN nodes
  BY <1>0, <1>5, ListTypes DEF Listed, Logged
<1>12. ASSUME NEW n \in Listed PROVE Leaves(n)
  <2>1. ASSUME NEW S \in SUBSET (0 .. n), NEW y \in S PROVE ForwardLink(y)' = ForwardLink(y)
    <3>1. n \in 1 .. Len(nodes) /\ Len(nodes) \in Nat
      BY <1>0, <1>12, ListTypes
    <3>2. y \in 0 .. n
      BY <2>1
    <3>3. y # 0 => y \in DOMAIN nodes
      BY <1>0, <3>1, <3>2, ListTypes
    <3> QED BY <1>5, <1>6, <1>11, <3>3 DEF ForwardLink, Position
  <2>2. ASSUME NEW S \in SUBSET (0 .. n), Leads(S, n) PROVE Leads(S, n)'
    BY <2>1, <2>2 DEF Leads
  <2> QED BY <1>6, <1>11, <2>2 DEF Leaves
<1>13. ASSUME NEW n \in Listed, NEW r \in Logged, Owes(n, r)', Serves(l, n, r)
       PROVE  Served(n, r)'
  <2>1. nodes[n].event = e /\ (c.mtc # 0 \/ c.rec = r.mtc)
    BY <1>1, <1>5, <1>7, <1>13, ServesSpot DEF Returns, ReadPCs
  <2>2. Owes(n, r)
    BY <1>6, <1>10, <1>11, <1>13, <2>1, OwesBefore
  <2>3. PICK m \in Nat : m = r.mtc /\ m \in Mine(e) /\ m \notin seen[e]
    BY <1>9, <2>1, <2>2, OwesMine
  <2>4. m # returned
    BY <1>6, <1>10, <1>11, <1>13, <2>1, <2>3 DEF Owes
  <2>5. kept # 0
    <3>1. CASE ~moved
      BY <1>4, <2>1, <2>3, <2>4, <3>1
    <3>2. CASE moved /\ kept = 0
      <4>1. after = GetNextDataRecord(ClassesOf[e], c.mtc) /\ c.mtc # 0 /\ c.mtc \in Mine(e)
            /\ after.next = 0
        BY <1>2, <1>3, <1>4, <1>7, <1>8, <3>2
      <4>2. after.rec = c.mtc /\ \A x \in Mine(e) : x <= after.rec
        BY <1>0, <1>9, <4>1, NextRecord
      <4>3. m <= c.mtc /\ m # c.mtc
        BY <1>4, <2>3, <2>4, <3>2, <4>2
      <4>4. m <= c.rec
        BY <1>8, <1>9, <2>3, <4>1, <4>3
      <4>5. c.rec \in seen[e] /\ c.rec \in Nat
        BY <1>3, <1>8, <1>9, <3>2
      <4> QED BY <1>8, <2>3, <4>4, <4>5 DEF Before
    <3> QED BY <3>1, <3>2
  <2>6. Returns(l, e, m)'
    BY <1>5, <1>7, <1>8, <2>5 DEF Returns
  <2> QED BY <1>6, <1>11, <2>1, <2>3, <2>6 DEF Served, Serves
<1> QED BY <1>0, <1>5, <1>10, <1>11, <1>12, <1>13, SignalsKeep

(* A reader that has nothing to read on from misses nothing.               *)
LEMMA SignalsReadsOn ==
    ASSUME Base, SignalsInv, NEW l \in Tpls, ReadGoesOn(l) \/ HandlerUnregisters(l)
    PROVE  SignalsInv'
<1>0. TypeInv
  BY DEF Base
<1>1. Spot(l) = "got" /\ Others(l) /\ Still /\ pending' = pending
      /\ \/ call[l].mtc # 0 /\ Spot(l)' = "read" /\ call' = call
         \/ call[l].mtc = 0 /\ Spot(l)' \notin Spots
         \/ Spot(l)' = "unregister" /\ call' = call
  BY <1>0, ReadsOnEffect, UnregisterEffect
<1>2. ASSUME NEW n \in Listed, NEW r \in Logged, Owes(n, r), Serves(l, n, r) PROVE Served(n, r)'
  <2>1. PICK e, m : e = nodes[n].event /\ m = r.mtc
    OBVIOUS
  <2>2. EventTpl[e] = l /\ call[l].ev = e /\ call[l].mtc # 0
    BY <1>1, <1>2, <2>1, ServesSpot DEF Returns, ReadPCs
  <2>3. Returns(l, e, m)'
    BY <1>1, <2>2 DEF Returns
  <2> QED BY <1>1, <2>1, <2>3 DEF Served, Serves, Still
<1> QED BY <1>0, <1>1, <1>2, SignalsStill

(* A registration that finds the filter in the list has done nothing for   *)
(* it; one that has linked its node signals it.                            *)
LEMMA SignalsRegister ==
    ASSUME Base, SignalsInv, NEW l \in Tpls, RegisterFinds(l) \/ RegisterSignals(l)
    PROVE  SignalsInv'
<1>0. TypeInv
  BY DEF Base
<1>1. Others(l) /\ Still /\ pending \subseteq pending'
      /\ \/ Spot(l) = "register"
         \/ Spot(l) = "announce" /\ call[l].ev \in pending'
  BY <1>0, RegisterEffect
<1>2. ASSUME NEW n \in Listed, NEW r \in Logged, Owes(n, r), Serves(l, n, r) PROVE Served(n, r)'
  <2>1. Spot(l) = "announce" /\ call[l].ev = nodes[n].event
    BY <1>1, <1>2, ServesSpot DEF ReadPCs
  <2> QED BY <1>1, <2>1 DEF Served, Still
<1> QED BY <1>0, <1>1, <1>2, SignalsStill

(* A filter's node is linked: it is owed the whole log, and about to be    *)
(* signaled.                                                               *)
LEMMA SignalsLinks ==
    ASSUME Base, TypeInv', SignalsInv, NEW l \in Tpls, RegisterLinks(l)
    PROVE  SignalsInv'
<1>0. TypeInv /\ ListInv
  BY DEF Base
<1>1. PICK m, e : m = Len(nodes) + 1 /\ e = call[l].ev
  OBVIOUS
<1>2. /\ Spot(l) = "link" /\ Spot(l)' = "announce" /\ Others(l) /\ call' = call
      /\ UNCHANGED << pending, records, seen >>
      /\ nodes' = Append(nodes, [event |-> e, next |-> 0, link |-> 0])
  BY <1>0, <1>1, RegisterEffect
<1>3. /\ nodes'[m].event = e
      /\ \A n \in DOMAIN nodes : nodes'[n] = nodes[n]
  BY <1>0, <1>1, <1>2, ListTypes
<1>4. Listed' = Listed \cup {m} /\ Listed \subseteq DOMAIN nodes /\ Logged' = Logged
  BY <1>0, <1>1, <1>2, ListLinks, ListTypes DEF Logged
<1>5. ASSUME NEW n \in Listed PROVE Leaves(n)
  BY <1>0, <1>3, <1>4, <1>5, LinkLeads DEF Leaves
<1>6. ASSUME NEW r PROVE Served(m, r)'
  <2>1. Serves(l, m, r)'
    BY <1>1, <1>2, <1>3 DEF Serves
  <2> QED BY <2>1 DEF Served
<1>7. \A n, r : ~Serves(l, n, r)
  BY <1>2, ServesSpot DEF ReadPCs
<1> QED BY <1>0, <1>2, <1>4, <1>5, <1>6, <1>7, SignalsKeep

(* A removal that finds nothing had nothing to do; it looks for the node   *)
(* that is in the list.                                                    *)
LEMMA SignalsUnregister ==
    ASSUME Base, SignalsInv, NEW l \in Tpls, UnregisterFinds(l)
    PROVE  SignalsInv'
<1>0. TypeInv
  BY DEF Base
<1>1. /\ Spot(l) = "unregister" /\ Others(l) /\ Still /\ pending' = pending
      /\ \/ FindFilterDriverByEvent(call[l].ev) = 0 /\ Spot(l)' \notin Spots
         \/ Spot(l)' = "unlink" /\ call'[l].ev = call[l].ev
  BY <1>0, UnregisterEffect
<1>2. ASSUME NEW n \in Listed, NEW r \in Logged, Owes(n, r), Serves(l, n, r) PROVE Served(n, r)'
  <2>1. PICK e, m : e = nodes[n].event /\ m = r.mtc
    OBVIOUS
  <2>2. EventTpl[e] = l /\ call[l].ev = e
    BY <1>1, <1>2, <2>1, ServesSpot DEF Returns
  <2>3. FindFilterDriverByEvent(e) # 0
    BY <1>0, <2>1, FindsListed
  <2>4. Returns(l, e, m)'
    BY <1>1, <2>2, <2>3 DEF Returns
  <2> QED BY <1>1, <2>1, <2>4 DEF Served, Serves, Still
<1> QED BY <1>0, <1>1, <1>2, SignalsStill

(* A filter's node is taken out: nothing is owed to it any more.           *)
LEMMA SignalsUnlinks ==
    ASSUME Base, TypeInv', SignalsInv, NEW l \in Tpls, UnregisterUnlinks(l)
    PROVE  SignalsInv'
<1>0. TypeInv /\ ListInv
  BY DEF Base
<1>1. PICK m : m = call[l].at
  OBVIOUS
<1>2. /\ Spot(l) = "unlink" /\ Spot(l)' \notin Spots /\ Others(l)
      /\ UNCHANGED << pending, records, seen >>
  BY <1>0, UnregisterEffect
<1>3. \A n \in DOMAIN nodes : nodes'[n].event = nodes[n].event
  BY <1>0, UnlinkNodes
<1>4. Listed' = Listed \ {m} /\ m \in Listed /\ Listed \subseteq DOMAIN nodes /\ Logged' = Logged
  BY <1>0, <1>1, <1>2, ListUnlinks, ListTypes DEF Logged
<1>5. nodes[m].event = call[l].ev
  BY <1>0, <1>1, <1>2 DEF ListInv, OwnerAt
<1>6. ASSUME NEW n \in Listed \ {m} PROVE Leaves(n) /\ \A r : ~Serves(l, n, r)
  <2>1. Leaves(n)
    BY <1>0, <1>1, <1>3, <1>4, <1>6, UnlinkLeads DEF Leaves
  <2>2. nodes[n].event # call[l].ev
    BY <1>0, <1>4, <1>5, <1>6 DEF ListInv, OneEach
  <2> QED BY <1>2, <2>1, <2>2, ServesSpot DEF Returns
<1> QED BY <1>0, <1>2, <1>4, <1>6, SignalsKeep

(* A filter is notified: it reads.                                         *)
LEMMA SignalsBegin ==
    ASSUME Base, SignalsInv, NEW l \in Tpls, NEW e,
           \/ AskRegister(l, e) \/ AskUnregister(l, e)
           \/ NotifyFilter(e) /\ l = EventTpl[e]
    PROVE  SignalsInv'
<1>0. TypeInv
  BY DEF Base
<1>1. /\ Spot(l) = "idle" /\ Others(l) /\ Still
      /\ \/ pending' = pending
         \/ /\ pending' = pending \ {e} /\ l = EventTpl[e]
            /\ Spot(l)' = "read" /\ call'[l].ev = e
  BY <1>0, BeginEffect
<1>2. \A n, r : ~Serves(l, n, r)
  BY <1>1, ServesSpot DEF ReadPCs
<1>3. ASSUME NEW n \in Listed, NEW r \in Logged, nodes[n].event \in pending
      PROVE  nodes[n].event \in pending' \/ Served(n, r)'
  <2>1. CASE nodes[n].event # e \/ pending' = pending
    BY <1>1, <1>3, <2>1
  <2>2. CASE nodes[n].event = e /\ pending' # pending
    <3>1. PICK m : m = r.mtc
      OBVIOUS
    <3>2. Returns(l, e, m)'
      BY <1>1, <2>2 DEF Returns
    <3> QED BY <1>1, <2>2, <3>1, <3>2 DEF Served, Serves, Still
  <2> QED BY <2>1, <2>2
<1> QED BY <1>0, <1>1, <1>2, <1>3, SignalsStill

(* No record is forgotten, whatever the data hub does.                     *)
LEMMA SignalsHold == Spec => []SignalsInv
<1>1. Init => SignalsInv
  BY DEF Init, HubInit, SignalsInv, Listed
<1>2. Base /\ CountsInv /\ SignalsInv /\ [Next]_vars /\ TypeInv' /\ CountsInv' => SignalsInv'
  <2> SUFFICES ASSUME Base, CountsInv, SignalsInv, [Next]_vars, TypeInv', CountsInv'
               PROVE  SignalsInv'
    OBVIOUS
  <2>0. TypeInv
    BY DEF Base
  <2>1. CASE HubAction
    <3>1. PICK l \in Tpls : HubActionAt(l)
      BY <2>0, <2>1, HubEffects
    <3>2. ASSUME NEW class, LogAcquire(l) \/ LogNoMemory(l) \/ LogNumber(l) \/ AskLog(l, class)
          PROVE  SignalsInv'
      BY <2>0, <3>2, LogElsewhere, SignalsElsewhere
    <3> QED BY <3>1, <3>2, SignalsInsert, SignalsWalk, SignalsFails, SignalsFinds, SignalsStores,
               SignalsReadsOn, SignalsRegister, SignalsLinks, SignalsUnregister, SignalsUnlinks,
               SignalsBegin DEF HubActionAt, HubStep
  <2>2. CASE ~HubAction
    BY <2>0, <2>2, StatusElsewhere, StutterElsewhere, SignalsElsewhere
  <2> QED BY <2>1, <2>2
<1> QED BY <1>1, <1>2, TypeInvHolds, CountHolds, PositiveHolds, ListHolds, CountsHold, PTL
        DEF Spec, Base

(* When all is quiet, every registered filter was returned every record it *)
(* is interested in: no signal is lost between registering, walking,       *)
(* reading and unregistering, at whatever levels they interrupt one        *)
(* another.                                                                *)
THEOREM ReadersCorrect == Spec => []NobodyMisses
<1>1. TypeInv /\ SignalsInv => NobodyMisses
  <2> SUFFICES ASSUME TypeInv, SignalsInv, AtRest, NEW n \in Listed, NEW j \in DOMAIN records,
                      Interested(n, records[j]), records[j].mtc \notin seen[nodes[n].event]
               PROVE  FALSE
    BY DEF NobodyMisses
  <2>1. Served(n, records[j])
    BY DEF SignalsInv, Owes, Logged
  <2>2. PICK l \in Tpls : Serves(l, n, records[j])
    BY <2>1 DEF Served, AtRest
  <2>3. Spot(l) = "idle"
    BY SpotIsPc DEF AtRest, Active
  <2> QED BY <2>2, <2>3, ServesSpot DEF ReadPCs
<1> QED BY <1>1, TypeInvHolds, SignalsHold, PTL
=============================================================================
