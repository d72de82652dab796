-------------------------- MODULE StatusCode_proofs --------------------------
(***************************************************************************)
(* The theorems about StatusCode: its types, the lock of the data hub, the *)
(* order of the monotonic counts, the queue of records and the buffers.    *)
(* All of them rest on TypeInv, the inductive invariant of types and       *)
(* levels; the lock needs Stacked besides, the counts CountOK, the buffers *)
(* Owned, and the queue nothing else.                                      *)
(*                                                                         *)
(* First comes what the levels of StatusCode promise one another, and that *)
(* every step keeps it: Levels (who runs where, and under which of the two *)
(* flags), and HubOK (the types of the data hub, its links, its lock), are *)
(* the two conjuncts of TypeInv that every action can disturb; here is one *)
(* lemma for each action, and for each way the actions move.               *)
(***************************************************************************)
EXTENDS StatusCode, NaturalsInduction, WellFoundedInduction, SequenceTheorems, TLAPS
(* The places of the functions of the data hub, of a report and of the     *)
(* notify function of the log.                                             *)
LogPCs == {"log", "number", "insert", "next", "walk"}
HubPCs == LogPCs \cup {"read", "store", "got", "register", "link", "announce", "unregister", "unlink"}
WorkPCs == {"ring", "save", "check", "acquire", "grow", "fill", "signal", "done"}
ReportPCs == WorkPCs \cup {"report"}
DrainPCs == {"begin", "drain", "release", "end"}
Critical == {"number", "insert"}

(* What a frame at level l may be: who runs where, and returns to what. *)
FrameOK(l) ==
    LET pc == code[l].pc
        ret == code[l].ret
    IN  /\ pc \in HubPCs => l <= Notify
        /\ pc \in DrainPCs => l = Callback
        /\ pc = "replay" => l = Application
        /\ ret = "release" => pc \in LogPCs /\ l = Callback
        /\ ret = "got" => pc \in ReportPCs /\ l <= Notify
        /\ ret = "replay" => pc \in WorkPCs /\ l = Application
        /\ code[l].tpl = IF pc \in Critical THEN Notify ELSE l
Frames == code \in [Tpls -> CodeType] /\ \A l \in Tpls : FrameOK(l)

(* Level l is between the two writes of mStatusCodeNestStatus; the drain   *)
(* is between its two of mLogDataHubStatus.                                *)
Reporting(l) == code[l].pc \in WorkPCs
Drains == code[Callback].pc \in {"drain", "release", "end"} \/ code[Callback].ret = "release"

(* What the levels promise one another: mStatusCodeNestStatus lets one     *)
(* report work at a time, the replay runs alone, mLogDataHubStatus is set  *)
(* exactly while the queue is drained, and a report that was made by plain *)
(* code finds no drain at work when it fills its buffer.                   *)
NestOK ==
    /\ \A k, l \in Tpls : Reporting(k) /\ Reporting(l) => k = l
    /\ \A l \in Tpls : Reporting(l) /\ phase # "replay" => nest = 1
PhaseOK ==
    /\ \A l \in Tpls : code[l].pc = "replay" \/ code[l].ret = "replay" => phase = "replay"
    /\ \A l \in Tpls : phase = "replay" /\ code[l].pc \in ReportPCs => code[l].ret = "replay"
    /\ phase = "replay" => code[Application].pc = "replay" \/ code[Application].ret = "replay"
DrainOK == logging = IF Drains THEN 1 ELSE 0
FillOK == code[Application].pc = "fill" =>
    LogEvent \notin pending /\ ~Drains /\ code[Callback].pc # "begin"

Levels == Frames /\ NestOK /\ PhaseOK /\ DrainOK /\ FillOK

(* Level l takes a step: to place p, with r to return to, at priority t. *)
Turns(l, p, r, t) ==
    /\ code' \in [Tpls -> CodeType]
    /\ \A k \in Tpls : k # l => code'[k] = code[k]
    /\ code'[l].pc = p /\ code'[l].ret = r /\ code'[l].tpl = t

(* Where a function of this driver or of the data hub may return to.       *)
Rets == {"idle", "got", "replay", "release"}

(* Nobody enters or leaves the critical section of the data hub. *)
Quiet == \A k \in Tpls : code'[k].pc \in Critical <=> code[k].pc \in Critical

(* A step outside the critical section leaves the critical section alone.  *)
LEMMA TurnsQuiet ==
    ASSUME NEW l \in Tpls, NEW p, NEW r, NEW t, Turns(l, p, r, t),
           code[l].pc \notin Critical, p \notin Critical
    PROVE  Quiet
  BY DEF Turns, Quiet

(* The ways a level moves, one lemma for each: on in the same function,    *)
(* ...                                                                     *)
LEMMA GotoTurns ==
    ASSUME Frames, NEW l \in Tpls, NEW p \in PCs, Goto(l, p)
    PROVE  Turns(l, p, code[l].ret, code[l].tpl)
<1> DEFINE g == [code[l] EXCEPT !.pc = p]
<1>1. code[l] \in CodeType
  BY DEF Frames
<1>2. g \in CodeType /\ g.pc = p /\ g.ret = code[l].ret /\ g.tpl = code[l].tpl
  BY <1>1 DEF CodeType
<1>3. code' = [code EXCEPT ![l] = g]
  BY DEF Goto
<1> HIDE DEF g
<1> QED BY <1>2, <1>3 DEF Turns, Frames

(* ... from nothing into a function, ...                                   *)
LEMMA StartTurns ==
    ASSUME Frames, NEW l \in Tpls, NEW p \in PCs, Start(l, p)
    PROVE  Turns(l, p, "idle", l)
<1> DEFINE g == [Idle(l) EXCEPT !.pc = p]
<1>2. g \in CodeType /\ g.pc = p /\ g.ret = "idle" /\ g.tpl = l
  BY DEF CodeType, Idle
<1>3. code' = [code EXCEPT ![l] = g]
  BY DEF Start
<1> HIDE DEF g
<1> QED BY <1>2, <1>3 DEF Turns, Frames

(* ... into a function that will return, ...                               *)
LEMMA CallTurns ==
    ASSUME Frames, NEW l \in Tpls, NEW p \in PCs, NEW r \in Rets, Call(l, p, r)
    PROVE  Turns(l, p, r, code[l].tpl)
<1> DEFINE g == [code[l] EXCEPT !.pc = p, !.ret = r]
<1>1. code[l] \in CodeType
  BY DEF Frames
<1>2. g \in CodeType /\ g.pc = p /\ g.ret = r /\ g.tpl = code[l].tpl
  BY <1>1 DEF CodeType, Rets
<1>3. code' = [code EXCEPT ![l] = g]
  BY <1>1 DEF Call, Frames, CodeType
<1> HIDE DEF g
<1> QED BY <1>2, <1>3 DEF Turns, Frames

(* ... back to the caller, ...                                             *)
LEMMA BackTurns ==
    ASSUME Frames, NEW l \in Tpls, Back(l)
    PROVE  Turns(l, code[l].ret, "idle", l)
<1> DEFINE g == [Idle(l) EXCEPT !.pc = code[l].ret]
<1>1. code[l] \in CodeType
  BY DEF Frames
<1>2. g \in CodeType /\ g.pc = code[l].ret /\ g.ret = "idle" /\ g.tpl = l
  BY <1>1 DEF CodeType, Idle, PCs
<1>3. code' = [code EXCEPT ![l] = g]
  BY DEF Back
<1> HIDE DEF g
<1> QED BY <1>2, <1>3 DEF Turns, Frames

(* ... and with the priority raised or restored.                           *)
LEMMA LockTurns ==
    ASSUME Frames, NEW l \in Tpls, NEW p \in PCs, NEW t \in Tpls,
           code' = [code EXCEPT ![l].pc = p, ![l].tpl = t]
    PROVE  Turns(l, p, code[l].ret, t)
<1> DEFINE g == [code[l] EXCEPT !.pc = p, !.tpl = t]
<1>1. code[l] \in CodeType
  BY DEF Frames
<1>2. g \in CodeType /\ g.pc = p /\ g.ret = code[l].ret /\ g.tpl = t
  BY <1>1 DEF CodeType
<1>3. code' = [code EXCEPT ![l] = g]
  BY <1>1 DEF Frames, CodeType
<1> HIDE DEF g
<1>4. code \in [Tpls -> CodeType]
  BY DEF Frames
<1>5. code' \in [Tpls -> CodeType] /\ code'[l] = g /\ \A k \in Tpls : k # l => code'[k] = code[k]
  BY <1>2, <1>3, <1>4, Zenon
<1> QED BY <1>2, <1>5 DEF Turns

(* A step that leaves its own frame sound leaves every frame sound.        *)
LEMMA TurnsFrames ==
    ASSUME Frames, NEW l \in Tpls, NEW p, NEW r, NEW t, Turns(l, p, r, t), FrameOK(l)'
    PROVE  Frames'
  BY DEF Frames, FrameOK, Turns

(* A report takes a step between its beginning and its end. *)
LEMMA ReportMoves ==
    ASSUME Levels, NEW l \in Tpls, NEW p \in WorkPCs, Reporting(l), Runs(l), Goto(l, p),
           UNCHANGED << nest, phase, logging >>, p = "fill" => UNCHANGED pending
    PROVE  Levels' /\ Quiet
<1>1. Turns(l, p, code[l].ret, code[l].tpl)
  BY GotoTurns DEF Levels, WorkPCs, PCs
<1>2. FrameOK(l)'
  BY <1>1 DEF Levels, Frames, FrameOK, Turns, Reporting, WorkPCs, ReportPCs, HubPCs, LogPCs,
     DrainPCs, Critical, CodeType
<1>3. Frames'
  BY <1>1, <1>2, TurnsFrames DEF Levels
<1>4. NestOK'
  BY <1>1 DEF Levels, NestOK, Turns, Reporting
<1>5. PhaseOK'
  BY <1>1 DEF Levels, PhaseOK, Turns, Reporting, WorkPCs, ReportPCs, Tpls, Application, High
<1>6. Drains' <=> Drains
  BY <1>1 DEF Drains, Turns, Reporting, WorkPCs, Tpls, Callback, Application, High
<1>7. DrainOK'
  BY <1>6 DEF Levels, DrainOK
<1>8. FillOK'
  <2>1. CASE l = Application
    <3> SUFFICES ASSUME p = "fill" PROVE FillOK'
      BY <1>1, <2>1 DEF FillOK, Turns
    <3>1. code[Callback].pc = "idle" /\ LogEvent \notin pending
      BY <2>1, StatusCodeAssumption DEF Runs, Active, Levels, Frames, FrameOK, Tpls,
         Application, Callback, High, Reporting, WorkPCs, Critical
    <3> QED BY <1>1, <1>6, <2>1, <3>1 DEF FillOK, Turns, Tpls, Application, Callback, High, Levels, Frames, FrameOK, Drains, LogPCs
  <2>2. CASE l # Application
    BY <1>1, <2>2 DEF Levels, NestOK, FillOK, Turns, Tpls, Application, High, Reporting,
       WorkPCs
  <2> QED BY <2>1, <2>2
<1>20. Quiet
  BY <1>1, TurnsQuiet DEF Reporting, WorkPCs, Critical
<1> QED BY <1>20, <1>3, <1>4, <1>5, <1>7, <1>8 DEF Levels

(* A report ends, and gives mStatusCodeNestStatus back.                    *)
LEMMA ReportEndsLevels ==
    ASSUME Levels, NEW l \in Tpls, ReportEnds(l)
    PROVE  Levels' /\ Quiet
<1>1. Turns(l, code[l].ret, "idle", l) /\ code[l].pc = "done"
  BY BackTurns DEF Levels, ReportEnds, At
<1>2. phase' = phase /\ logging' = logging /\ pending' = pending
      /\ nest' = IF code[l].ret = "replay" THEN nest ELSE 0
  BY DEF ReportEnds, boot
<1>3. code[l].ret \in {"idle", "got", "replay"}
  BY <1>1 DEF Levels, Frames, FrameOK, CodeType, LogPCs
<1>4. FrameOK(l)'
  BY <1>1, <1>3 DEF Levels, Frames, FrameOK, Turns, WorkPCs, ReportPCs, HubPCs, LogPCs,
     DrainPCs, Critical, CodeType
<1>5. Frames'
  BY <1>1, <1>4, TurnsFrames DEF Levels
<1>6. NestOK'
  BY <1>1, <1>2, <1>3 DEF Levels, NestOK, PhaseOK, Turns, Reporting, WorkPCs
<1>7. PhaseOK'
  BY <1>1, <1>2, <1>3 DEF Levels, PhaseOK, Turns, WorkPCs, ReportPCs, HubPCs, LogPCs,
     DrainPCs, Critical, Tpls, Application, High
<1>8. Drains' <=> Drains
  BY <1>1, <1>3 DEF Drains, Turns, Tpls, Callback, Application, High, Levels, Frames,
     FrameOK, LogPCs
<1>9. DrainOK'
  BY <1>2, <1>8 DEF Levels, DrainOK
<1>10. FillOK'
  BY <1>1, <1>2, <1>3, <1>8 DEF Levels, FillOK, Turns, Tpls, Application, Callback, High
<1>20. Quiet
  BY <1>1, <1>3, TurnsQuiet DEF Critical
<1> QED BY <1>20, <1>5, <1>6, <1>7, <1>9, <1>10 DEF Levels

(* A report begins: it found mStatusCodeNestStatus at 0, so no other is at *)
(* work.                                                                   *)
LEMMA ReportBeginsLevels ==
    ASSUME Levels, NEW l \in Tpls, ReportBegins(l)
    PROVE  Levels' /\ Quiet
<1>1. Turns(l, "ring", code[l].ret, code[l].tpl) /\ code[l].pc = "report"
  BY GotoTurns DEF Levels, ReportBegins, At, PCs
<1>2. UNCHANGED << phase, logging, pending >> /\ nest = 0 /\ nest' = 1
  BY DEF ReportBegins, boot
<1>4. FrameOK(l)'
  BY <1>1 DEF Levels, Frames, FrameOK, Turns, WorkPCs, ReportPCs, HubPCs, LogPCs, DrainPCs,
     Critical, CodeType
<1>5. Frames'
  BY <1>1, <1>4, TurnsFrames DEF Levels
<1>6. phase # "replay"
  BY <1>1 DEF Levels, PhaseOK, Frames, FrameOK, WorkPCs, ReportPCs, HubPCs, LogPCs,
     DrainPCs, Critical
<1>7. \A k \in Tpls : ~Reporting(k)
  BY <1>2, <1>6 DEF Levels, NestOK
<1>8. NestOK'
  BY <1>1, <1>2, <1>7 DEF NestOK, Turns, Reporting
<1>9. PhaseOK'
  BY <1>1, <1>2 DEF Levels, PhaseOK, Turns, WorkPCs, ReportPCs, HubPCs, LogPCs, DrainPCs,
     Critical, Tpls, Application, High
<1>10. Drains' <=> Drains
  BY <1>1 DEF Drains, Turns, Tpls, Callback, Application, High
<1>11. DrainOK'
  BY <1>2, <1>10 DEF Levels, DrainOK
<1>12. FillOK'
  BY <1>1, <1>2, <1>10 DEF Levels, FillOK, Turns, Tpls, Application, Callback, High
<1>20. Quiet
  BY <1>1, TurnsQuiet DEF Critical
<1> QED BY <1>20, <1>5, <1>8, <1>9, <1>11, <1>12 DEF Levels

(* A step outside the work of a report. *)
LEMMA Outside ==
    ASSUME Levels, NEW l \in Tpls, NEW p, NEW r, NEW t, Turns(l, p, r, t), FrameOK(l)',
           UNCHANGED << nest, phase >>,
           code[l].pc \notin WorkPCs \cup {"replay"}, p \notin WorkPCs \cup {"replay"},
           p = "report" => phase # "replay",
           logging' = IF Drains' THEN 1 ELSE 0,
           code[Application].pc = "fill" =>
               LogEvent \notin pending' /\ ~Drains' /\ code'[Callback].pc # "begin"
    PROVE  Levels'
<1>1. Frames'
  BY TurnsFrames DEF Levels
<1>2. code[l].ret # "replay" /\ r # "replay"
  BY DEF Levels, Frames, FrameOK, Turns
<1>3. NestOK'
  BY DEF Levels, NestOK, Turns, Reporting
<1>4. PhaseOK'
  BY <1>2 DEF Levels, PhaseOK, Turns, ReportPCs, Tpls, Application, Callback, High
<1>5. DrainOK'
  BY DEF DrainOK
<1>6. FillOK'
  BY DEF FillOK, Turns, WorkPCs, Tpls, Application, Callback, High
<1> QED BY <1>1, <1>3, <1>4, <1>5, <1>6 DEF Levels

(* A nested report is turned away at once.                                 *)
LEMMA ReportNestedLevels ==
    ASSUME Levels, NEW l \in Tpls, ReportNested(l)
    PROVE  Levels' /\ Quiet
<1>1. Turns(l, code[l].ret, "idle", l) /\ code[l].pc = "report"
  BY BackTurns DEF Levels, ReportNested, At
<1>2. UNCHANGED << nest, phase, logging, pending >>
  BY DEF ReportNested, boot
<1>3. code[l].ret \in {"idle", "got"}
  BY <1>1 DEF Levels, Frames, FrameOK, CodeType, WorkPCs, ReportPCs, HubPCs, LogPCs,
     DrainPCs, Critical
<1>4. FrameOK(l)'
  BY <1>1, <1>3 DEF Levels, Frames, FrameOK, Turns, WorkPCs, ReportPCs, HubPCs, LogPCs,
     DrainPCs, Critical
<1>5. Drains' <=> Drains
  BY <1>1, <1>3 DEF Drains, Turns, Tpls, Application, Callback, High
<1>6. logging' = IF Drains' THEN 1 ELSE 0
  BY <1>2, <1>5 DEF Levels, DrainOK
<1>7. code[Application].pc = "fill" =>
          LogEvent \notin pending' /\ ~Drains' /\ code'[Callback].pc # "begin"
  BY <1>1, <1>2, <1>3, <1>5 DEF Levels, FillOK, Turns, Tpls, Application, Callback, High
<1>20. Quiet
  BY <1>1, <1>3, TurnsQuiet DEF Critical
<1> QED
  BY <1>20, <1>1, <1>2, <1>3, <1>4, <1>6, <1>7, Outside DEF WorkPCs

(* Code at some level makes a report.                                      *)
LEMMA AskReportLevels ==
    ASSUME Levels, NEW l \in Tpls, NEW q, AskReport(l, q)
    PROVE  Levels' /\ Quiet
<1>1. Turns(l, "report", "idle", l) /\ code[l].pc = "idle"
  BY StartTurns DEF Levels, AskReport, CanStart, Below, Active, PCs, Tpls
<1>2. UNCHANGED << nest, phase, logging, pending >> /\ phase # "replay"
  BY DEF AskReport, boot
<1>3. code[l].ret = "idle"
  BY <1>1 DEF Levels, Frames, FrameOK, CodeType, WorkPCs, ReportPCs, HubPCs, LogPCs,
     DrainPCs, Critical
<1>4. FrameOK(l)'
  BY <1>1 DEF Levels, Frames, FrameOK, Turns, WorkPCs, ReportPCs, HubPCs, LogPCs, DrainPCs,
     Critical
<1>5. Drains' <=> Drains
  BY <1>1, <1>3 DEF Drains, Turns, Tpls, Application, Callback, High
<1>6. logging' = IF Drains' THEN 1 ELSE 0
  BY <1>2, <1>5 DEF Levels, DrainOK
<1>7. code[Application].pc = "fill" =>
          LogEvent \notin pending' /\ ~Drains' /\ code'[Callback].pc # "begin"
  BY <1>1, <1>2, <1>3, <1>5 DEF Levels, FillOK, Turns, Tpls, Application, Callback, High
<1>20. Quiet
  BY <1>1, <1>3, TurnsQuiet DEF Critical
<1> QED
  BY <1>20, <1>1, <1>2, <1>4, <1>6, <1>7, Outside DEF WorkPCs

(* A filter's handler reports while it reads the data hub.                 *)
LEMMA HandlerReportsLevels ==
    ASSUME Levels, NEW l \in Tpls, NEW q, HandlerReports(l, q)
    PROVE  Levels' /\ Quiet
<1>1. Turns(l, "report", "got", code[l].tpl) /\ code[l].pc = "got"
  BY CallTurns DEF Levels, HandlerReports, At, PCs, Rets
<1>2. UNCHANGED << nest, phase, logging, pending >> /\ phase # "replay"
  BY DEF HandlerReports, boot
<1>3. code[l].ret = "idle"
  BY <1>1 DEF Levels, Frames, FrameOK, CodeType, WorkPCs, ReportPCs, HubPCs, LogPCs,
     DrainPCs, Critical
<1>4. FrameOK(l)'
  BY <1>1 DEF Levels, Frames, FrameOK, Turns, WorkPCs, ReportPCs, HubPCs, LogPCs, DrainPCs,
     Critical
<1>5. Drains' <=> Drains
  BY <1>1, <1>3 DEF Drains, Turns, Tpls, Application, Callback, High
<1>6. logging' = IF Drains' THEN 1 ELSE 0
  BY <1>2, <1>5 DEF Levels, DrainOK
<1>7. code[Application].pc = "fill" =>
          LogEvent \notin pending' /\ ~Drains' /\ code'[Callback].pc # "begin"
  BY <1>1, <1>2, <1>3, <1>5 DEF Levels, FillOK, Turns, Tpls, Application, Callback, High
<1>20. Quiet
  BY <1>1, <1>3, TurnsQuiet DEF Critical
<1> QED
  BY <1>20, <1>1, <1>2, <1>4, <1>6, <1>7, Outside DEF WorkPCs

(* The notify function of mLogDataHubEvent starts, when no report is       *)
(* filling a buffer below it.                                              *)
LEMMA NotifyLogLevels ==
    ASSUME Levels, NotifyLog
    PROVE  Levels' /\ Quiet
<1> Callback \in Tpls
  BY DEF Tpls, Application, Callback, High
<1>1. Turns(Callback, "begin", "idle", Callback) /\ code[Callback].pc = "idle"
  BY StartTurns DEF Levels, NotifyLog, Below, Active, PCs, Tpls, Application, Callback, High
<1>2. UNCHANGED << nest, phase, logging >> /\ LogEvent \in pending
  BY DEF NotifyLog, boot, rest
<1>3. code[Callback].ret = "idle"
  BY <1>1 DEF Levels, Frames, FrameOK, CodeType, WorkPCs, ReportPCs, HubPCs, LogPCs,
     DrainPCs, Critical
<1>4. FrameOK(Callback)'
  BY <1>1 DEF FrameOK, Turns, WorkPCs, ReportPCs, HubPCs, LogPCs, DrainPCs, Critical
<1>5. Drains' <=> Drains
  BY <1>1, <1>3 DEF Drains, Turns
<1>6. logging' = IF Drains' THEN 1 ELSE 0
  BY <1>2, <1>5 DEF Levels, DrainOK
<1>7. code[Application].pc = "fill" =>
          LogEvent \notin pending' /\ ~Drains' /\ code'[Callback].pc # "begin"
  BY <1>1, <1>2, <1>3, <1>5 DEF Levels, FillOK, Turns, Tpls, Application, Callback, High
<1>20. Quiet
  BY <1>1, <1>3, TurnsQuiet DEF Critical
<1> QED
  BY <1>20, <1>1, <1>2, <1>4, <1>6, <1>7, Outside DEF WorkPCs

(* It takes mLogDataHubStatus, which nobody holds: only one can run at its *)
(* level.                                                                  *)
LEMMA DrainBeginsLevels ==
    ASSUME Levels, NEW l \in Tpls, DrainBegins(l)
    PROVE  Levels' /\ Quiet
<1>1. code[l].pc = "begin" /\ code[l].ret = "idle" /\ l = Callback /\ Callback \in Tpls
  BY DEF DrainBegins, At, Levels, Frames, FrameOK, CodeType, WorkPCs, ReportPCs, HubPCs,
     LogPCs, DrainPCs, Critical, Tpls, Application, Callback, High
<1>2. UNCHANGED << nest, phase >> /\ logging' = 1 /\ logging = 0
  BY <1>1 DEF DrainBegins, boot, rest, Levels, DrainOK, Drains
<1>3. Turns(l, "drain", "idle", l)
  BY <1>1, GotoTurns DEF Levels, DrainBegins, Frames, FrameOK, PCs, Rets, Critical, DrainOK,
     Drains
<1>4. FrameOK(l)'
  BY <1>1, <1>3 DEF FrameOK, Turns, WorkPCs, ReportPCs, HubPCs, LogPCs, DrainPCs, Critical,
     Tpls, Application, Callback, High, Notify
<1>5. Drains' = TRUE
  BY <1>1, <1>3 DEF Drains, Turns
<1>6. code[Application].pc # "fill"
  BY <1>1 DEF Levels, FillOK, Drains
<1>7. logging' = IF Drains' THEN 1 ELSE 0
  BY <1>1, <1>2, <1>5 DEF Levels, DrainOK, Drains
<1>20. Quiet
  BY <1>1, <1>3, TurnsQuiet DEF Critical
<1> QED
  BY <1>20, <1>1, <1>2, <1>3, <1>4, <1>6, <1>7, Outside DEF WorkPCs

(* It takes a record off the queue and calls DataHubLogData.               *)
LEMMA DrainRetrievesLevels ==
    ASSUME Levels, NEW l \in Tpls, DrainRetrieves(l)
    PROVE  Levels' /\ Quiet
<1>1. code[l].pc = "drain" /\ code[l].ret = "idle" /\ l = Callback /\ Callback \in Tpls
  BY DEF DrainRetrieves, At, Levels, Frames, FrameOK, CodeType, WorkPCs, ReportPCs, HubPCs,
     LogPCs, DrainPCs, Critical, Tpls, Application, Callback, High
<1>2. UNCHANGED << nest, phase >> /\ logging' = logging
  BY DEF DrainRetrieves, boot, rest, Levels, DrainOK, Drains
<1>3. Turns(l, "log", "release", l)
  BY <1>1, CallTurns DEF Levels, DrainRetrieves, Frames, FrameOK, PCs, Rets, Critical,
     DrainOK, Drains
<1>4. FrameOK(l)'
  BY <1>1, <1>3 DEF FrameOK, Turns, WorkPCs, ReportPCs, HubPCs, LogPCs, DrainPCs, Critical,
     Tpls, Application, Callback, High, Notify
<1>5. Drains' = TRUE
  BY <1>1, <1>3 DEF Drains, Turns
<1>6. code[Application].pc # "fill"
  BY <1>1 DEF Levels, FillOK, Drains
<1>7. logging' = IF Drains' THEN 1 ELSE 0
  BY <1>1, <1>2, <1>5 DEF Levels, DrainOK, Drains
<1>20. Quiet
  BY <1>1, <1>3, TurnsQuiet DEF Critical
<1> QED
  BY <1>20, <1>1, <1>2, <1>3, <1>4, <1>6, <1>7, Outside DEF WorkPCs

(* The record was logged; its buffer goes back.                            *)
LEMMA DrainReleasesLevels ==
    ASSUME Levels, NEW l \in Tpls, DrainReleases(l)
    PROVE  Levels' /\ Quiet
<1>1. code[l].pc = "release" /\ code[l].ret = "idle" /\ l = Callback /\ Callback \in Tpls
  BY DEF DrainReleases, At, Levels, Frames, FrameOK, CodeType, WorkPCs, ReportPCs, HubPCs,
     LogPCs, DrainPCs, Critical, Tpls, Application, Callback, High
<1>2. UNCHANGED << nest, phase >> /\ logging' = logging
  BY DEF DrainReleases, boot, rest, Levels, DrainOK, Drains
<1>3. Turns(l, "drain", "idle", l)
  BY <1>1, GotoTurns DEF Levels, DrainReleases, Frames, FrameOK, PCs, Rets, Critical,
     DrainOK, Drains
<1>4. FrameOK(l)'
  BY <1>1, <1>3 DEF FrameOK, Turns, WorkPCs, ReportPCs, HubPCs, LogPCs, DrainPCs, Critical,
     Tpls, Application, Callback, High, Notify
<1>5. Drains' = TRUE
  BY <1>1, <1>3 DEF Drains, Turns
<1>6. code[Application].pc # "fill"
  BY <1>1 DEF Levels, FillOK, Drains
<1>7. logging' = IF Drains' THEN 1 ELSE 0
  BY <1>1, <1>2, <1>5 DEF Levels, DrainOK, Drains
<1>20. Quiet
  BY <1>1, <1>3, TurnsQuiet DEF Critical
<1> QED
  BY <1>20, <1>1, <1>2, <1>3, <1>4, <1>6, <1>7, Outside DEF WorkPCs

(* The queue is found empty.                                               *)
LEMMA DrainEmptyLevels ==
    ASSUME Levels, NEW l \in Tpls, DrainEmpty(l)
    PROVE  Levels' /\ Quiet
<1>1. code[l].pc = "drain" /\ code[l].ret = "idle" /\ l = Callback /\ Callback \in Tpls
  BY DEF DrainEmpty, At, Levels, Frames, FrameOK, CodeType, WorkPCs, ReportPCs, HubPCs,
     LogPCs, DrainPCs, Critical, Tpls, Application, Callback, High
<1>2. UNCHANGED << nest, phase >> /\ logging' = logging
  BY DEF DrainEmpty, boot, rest, Levels, DrainOK, Drains
<1>3. Turns(l, "end", "idle", l)
  BY <1>1, GotoTurns DEF Levels, DrainEmpty, Frames, FrameOK, PCs, Rets, Critical, DrainOK,
     Drains
<1>4. FrameOK(l)'
  BY <1>1, <1>3 DEF FrameOK, Turns, WorkPCs, ReportPCs, HubPCs, LogPCs, DrainPCs, Critical,
     Tpls, Application, Callback, High, Notify
<1>5. Drains' = TRUE
  BY <1>1, <1>3 DEF Drains, Turns
<1>6. code[Application].pc # "fill"
  BY <1>1 DEF Levels, FillOK, Drains
<1>7. logging' = IF Drains' THEN 1 ELSE 0
  BY <1>1, <1>2, <1>5 DEF Levels, DrainOK, Drains
<1>20. Quiet
  BY <1>1, <1>3, TurnsQuiet DEF Critical
<1> QED
  BY <1>20, <1>1, <1>2, <1>3, <1>4, <1>6, <1>7, Outside DEF WorkPCs

(* The notify function ends and gives mLogDataHubStatus back.              *)
LEMMA DrainEndsLevels ==
    ASSUME Levels, NEW l \in Tpls, DrainEnds(l)
    PROVE  Levels' /\ Quiet
<1>1. code[l].pc = "end" /\ code[l].ret = "idle" /\ l = Callback /\ Callback \in Tpls
  BY DEF DrainEnds, At, Levels, Frames, FrameOK, CodeType, WorkPCs, ReportPCs, HubPCs,
     LogPCs, DrainPCs, Critical, Tpls, Application, Callback, High
<1>2. UNCHANGED << nest, phase >> /\ logging' = 0
  BY DEF DrainEnds, boot, rest, Levels, DrainOK, Drains
<1>3. Turns(l, "idle", "idle", l)
  BY <1>1, BackTurns DEF Levels, DrainEnds, Frames, FrameOK, PCs, Rets, Critical, DrainOK,
     Drains
<1>4. FrameOK(l)'
  BY <1>1, <1>3 DEF FrameOK, Turns, WorkPCs, ReportPCs, HubPCs, LogPCs, DrainPCs, Critical,
     Tpls, Application, Callback, High, Notify
<1>5. Drains' = FALSE
  BY <1>1, <1>3 DEF Drains, Turns
<1>6. code[Application].pc # "fill"
  BY <1>1 DEF Levels, FillOK, Drains
<1>7. logging' = IF Drains' THEN 1 ELSE 0
  BY <1>1, <1>2, <1>5 DEF Levels, DrainOK, Drains
<1>20. Quiet
  BY <1>1, <1>3, TurnsQuiet DEF Critical
<1> QED
  BY <1>20, <1>1, <1>2, <1>3, <1>4, <1>6, <1>7, Outside DEF WorkPCs

(* The driver starts, before anything else runs.                           *)
LEMMA StartDriverLevels ==
    ASSUME Levels, StartDriver
    PROVE  Levels' /\ Quiet
<1> Application \in Tpls /\ Callback \in Tpls
  BY DEF Tpls, Application, Callback, High
<1>1. \A k \in Tpls : code[k].pc = "idle"
  BY DEF StartDriver, CanStart, Below, Active, Tpls, Application, Callback, High
<1>2. UNCHANGED << nest, logging, pending >> /\ phase' = "replay"
  BY DEF StartDriver, boot
<1>3. Turns(Application, "replay", "idle", Application)
  BY StartTurns DEF Levels, StartDriver, PCs
<1>4. FrameOK(Application)'
  BY <1>3 DEF FrameOK, Turns, WorkPCs, ReportPCs, HubPCs, LogPCs, DrainPCs, Critical
<1>5. Frames'
  BY <1>3, <1>4, TurnsFrames DEF Levels
<1>6. NestOK'
  BY <1>1, <1>3 DEF NestOK, Turns, Reporting, WorkPCs
<1>7. PhaseOK'
  BY <1>1, <1>2, <1>3 DEF PhaseOK, Turns, WorkPCs, ReportPCs, HubPCs, LogPCs, DrainPCs,
     Critical
<1>8. Drains' <=> Drains
  BY <1>3 DEF Drains, Turns, Tpls, Application, Callback, High
<1>9. DrainOK' /\ FillOK'
  BY <1>2, <1>3, <1>8 DEF Levels, DrainOK, FillOK, Turns
<1>20. Quiet
  BY <1>1, <1>3, TurnsQuiet DEF Critical
<1> QED BY <1>20, <1>5, <1>6, <1>7, <1>9 DEF Levels

(* The replay hands one record of the PEI phase to the workers.            *)
LEMMA ReplayRecordLevels ==
    ASSUME Levels, NEW l \in Tpls, ReplayRecord(l)
    PROVE  Levels' /\ Quiet
<1>1. code[l].pc = "replay" /\ l = Application /\ phase = "replay" /\ Callback \in Tpls
  BY DEF ReplayRecord, At, Levels, Frames, FrameOK, PhaseOK, Tpls, Application, Callback, High
<1>2. UNCHANGED << nest, phase, logging, pending >>
  BY DEF ReplayRecord, boot
<1>3. Turns(l, "ring", "replay", l)
  BY <1>1, CallTurns DEF Levels, ReplayRecord, Frames, FrameOK, PCs, Rets, Critical
<1>4. FrameOK(l)'
  BY <1>1, <1>3 DEF FrameOK, Turns, WorkPCs, ReportPCs, HubPCs, LogPCs, DrainPCs, Critical
<1>5. Frames'
  BY <1>3, <1>4, TurnsFrames DEF Levels
<1>6. \A k \in Tpls : ~Reporting(k)
  BY <1>1 DEF Levels, Frames, FrameOK, PhaseOK, Reporting, WorkPCs, ReportPCs, HubPCs,
     LogPCs, DrainPCs, Critical
<1>7. NestOK'
  BY <1>1, <1>2, <1>3, <1>6 DEF NestOK, Turns, Reporting
<1>8. PhaseOK'
  BY <1>1, <1>2, <1>3 DEF Levels, PhaseOK, Turns, WorkPCs, ReportPCs, HubPCs, LogPCs,
     DrainPCs, Critical
<1>9. Drains' <=> Drains
  BY <1>1, <1>3 DEF Drains, Turns, Tpls, Application, Callback, High
<1>10. DrainOK' /\ FillOK'
  BY <1>1, <1>2, <1>3, <1>9 DEF Levels, DrainOK, FillOK, Turns
<1>20. Quiet
  BY <1>1, <1>3, TurnsQuiet DEF Critical
<1> QED BY <1>20, <1>5, <1>7, <1>8, <1>10 DEF Levels

(* The replay is over: reports are accepted from now on.                   *)
LEMMA ReplayEndsLevels ==
    ASSUME Levels, NEW l \in Tpls, ReplayEnds(l)
    PROVE  Levels' /\ Quiet
<1>1. code[l].pc = "replay" /\ code[l].ret = "idle" /\ l = Application /\ Callback \in Tpls
  BY DEF ReplayEnds, At, Levels, Frames, FrameOK, CodeType, WorkPCs, ReportPCs, HubPCs,
     LogPCs, DrainPCs, Critical, Tpls, Application, Callback, High
<1>2. UNCHANGED << nest, logging, pending >> /\ phase' = "boot"
  BY DEF ReplayEnds, boot
<1>3. Turns(l, "idle", "idle", l)
  BY <1>1, BackTurns DEF Levels, ReplayEnds
<1>4. FrameOK(l)'
  BY <1>1, <1>3 DEF FrameOK, Turns, WorkPCs, ReportPCs, HubPCs, LogPCs, DrainPCs, Critical
<1>5. Frames'
  BY <1>3, <1>4, TurnsFrames DEF Levels
<1>6. \A k \in Tpls : k # l => code[k].pc = "idle"
  BY <1>1 DEF ReplayEnds, At, Runs, Active, Tpls, Application, Callback, High
<1>7. NestOK'
  BY <1>3, <1>6 DEF NestOK, Turns, Reporting, WorkPCs
<1>8. PhaseOK'
  BY <1>1, <1>2, <1>3, <1>6 DEF Levels, PhaseOK, Frames, FrameOK, Turns, WorkPCs
<1>9. Drains' <=> Drains
  BY <1>1, <1>3 DEF Drains, Turns, Tpls, Application, Callback, High
<1>10. DrainOK' /\ FillOK'
  BY <1>1, <1>2, <1>3, <1>9 DEF Levels, DrainOK, FillOK, Turns
<1>20. Quiet
  BY <1>1, <1>3, TurnsQuiet DEF Critical
<1> QED BY <1>20, <1>5, <1>7, <1>8, <1>10 DEF Levels

(* What happens around the levels leaves them alone.                       *)
LEMMA BootLevels ==
    ASSUME Levels, ExitBootServices \/ DataHubInstall \/ \E class \in Classes :
       PeiReport(class)
    PROVE  Levels' /\ Quiet
<1>1. UNCHANGED << code, nest, logging, pending >>
  BY DEF ExitBootServices, DataHubInstall, PeiReport
<1>2. phase' = phase \/ (phase' = "runtime" /\ phase = "boot" /\ \A l \in Tpls : code[l].pc = "idle")
  BY DEF ExitBootServices, DataHubInstall, PeiReport, AtRest, Active
<1>3. NestOK' /\ PhaseOK'
  BY <1>1, <1>2 DEF Levels, NestOK, PhaseOK, Reporting, WorkPCs, ReportPCs, HubPCs, LogPCs,
     DrainPCs, Critical
<1>20. Quiet
  BY <1>1 DEF Quiet
<1> QED BY <1>20, <1>1, <1>3 DEF Levels, Frames, FrameOK, DrainOK, FillOK, Drains

(* The steps of a report between its beginning and its end. *)
WorkStep(l) ==
    \/ RingTakes(l) \/ RingSaves(l) \/ HubRefuses(l) \/ HubTakes(l) \/ Acquire(l)
    \/ AcquireRefused(l) \/ GrowFails(l) \/ Grow(l) \/ Fill(l) \/ SignalLog(l)

(* Each of them leaves the report at work, and touches none of the flags.  *)
LEMMA WorkLevels ==
    ASSUME Levels, NEW l \in Tpls, WorkStep(l)
    PROVE  Levels' /\ Quiet
<1>1. Reporting(l) /\ Runs(l)
  BY DEF WorkStep, RingTakes, RingSaves, HubRefuses, HubTakes, Acquire, AcquireRefused,
     GrowFails,
         Grow, Fill, SignalLog, At, Reporting, WorkPCs
<1>2. UNCHANGED << nest, phase, logging >>
  BY DEF WorkStep, RingTakes, RingSaves, HubRefuses, HubTakes, Acquire, AcquireRefused,
     GrowFails,
         Grow, Fill, SignalLog, rest, boot
<1>3. PICK p \in WorkPCs : Goto(l, p) /\ (p = "fill" => UNCHANGED pending)
  BY DEF WorkStep, RingTakes, RingSaves, HubRefuses, HubTakes, Acquire, AcquireRefused,
     GrowFails,
         Grow, Fill, SignalLog, WorkPCs
<1> QED BY <1>1, <1>2, <1>3, ReportMoves

-----------------------------------------------------------------------------

(* A non-empty set of numbers has a least one.                             *)
LEMMA MinIsIn ==
    ASSUME NEW S \in SUBSET Nat, S # {}
    PROVE  Min(S) \in S /\ \A y \in S : Min(S) <= y
<1> DEFINE R == OpToRel(<, Nat)
<1>1. IsWellFoundedOn(R, Nat)
  BY NatLessThanWellFounded
<1>2. \A y, m \in Nat : << y, m >> \notin R => m <= y
  BY DEF OpToRel
<1> HIDE DEF R
<1>3. PICK m \in S : \A y \in S : ~ (<< y, m >> \in R)
  BY <1>1, WFMin, Zenon
<1>4. \A y \in S : m <= y
  BY <1>2, <1>3
<1> QED BY <1>4 DEF Min

(* What the variables of the data hub may hold.                            *)
LeftType == [handoff : Nat, reports : Nat, logs : Nat, registers : Nat, unregisters : Nat,
             failures : Nat]
RecordType == [mtc : Nat, status : BOOLEAN, item : Items]
NodeType == [event : Filters, next : Nat, link : Nat]

(* The variables of the data hub keep their types; links lead to nodes. *)
HubType ==
    /\ pending \subseteq Events
    /\ count \in Nat /\ records \in Seq(RecordType)
    /\ nodes \in Seq(NodeType) /\ filters \in Seq(DOMAIN nodes)
    /\ call \in [Tpls -> CallType] /\ seen \in [Filters -> SUBSET Nat]
    /\ left \in LeftType
(* The links of the filter list, those of nodes that were taken out        *)
(* included, lead to nodes.                                                *)
LinksOK == \A n \in DOMAIN nodes : nodes[n].link \in 0 .. Len(nodes)

(* What a function of the data hub finds in its variables. *)
CallOK ==
    \A l \in Tpls :
        /\ call[l].at \in 0 .. Len(nodes)
        /\ code[l].pc \in {"walk", "store", "unlink"} => call[l].at # 0
        /\ \/ code[l].pc \in {"read", "store", "got", "register", "link", "announce", "unregister"}
           \/ code[l].ret = "got"
           => call[l].ev \in Filters

(* The lock is held by the code in the critical section, which is alone there. *)
LockOK ==
    /\ locked \in BOOLEAN
    /\ \A l \in Tpls : code[l].pc \in Critical => locked
    /\ locked => \E l \in Tpls : code[l].pc \in Critical
    /\ \A k, l \in Tpls : code[k].pc \in Critical /\ code[l].pc \in Critical => k = l

(* The data hub's part of the invariant: types, links, the arguments its   *)
(* functions keep, and its lock.                                           *)
HubOK == HubType /\ LinksOK /\ CallOK /\ LockOK

(* ForwardLink leads to a node or to the head of the list.                 *)
LEMMA ForwardLinkType ==
    ASSUME HubType, LinksOK, NEW n \in 0 .. Len(nodes)
    PROVE  ForwardLink(n) \in 0 .. Len(nodes)
<1>1. DOMAIN nodes = 1 .. Len(nodes) /\ \A j \in DOMAIN filters : filters[j] \in DOMAIN nodes
  BY DEF HubType
<1>2. Len(nodes) \in Nat /\ (n # 0 => n \in DOMAIN nodes)
  BY <1>1 DEF HubType
<1>3. n # 0 => nodes[n].link \in 0 .. Len(nodes)
  BY <1>2 DEF LinksOK
<1>4. CASE n # 0 /\ n \notin Listed
  BY <1>3, <1>4 DEF ForwardLink
<1>5. CASE ~(n # 0 /\ n \notin Listed)
  <2> DEFINE after == IF n = 0 THEN 1 ELSE Position(n) + 1
  <2>1. ForwardLink(n) = IF after \in DOMAIN filters THEN filters[after] ELSE 0
    BY <1>5 DEF ForwardLink
  <2> HIDE DEF after
  <2>2. after \in DOMAIN filters => filters[after] \in 0 .. Len(nodes)
    BY <1>1, <1>2
  <2> QED BY <1>2, <2>1, <2>2
<1> QED BY <1>4, <1>5

(* FindFilterDriverByEvent returns a node, or none.                        *)
LEMMA FindType ==
    ASSUME HubType, NEW e
    PROVE  LET n == FindFilterDriverByEvent(e)
           IN  n \in 0 .. Len(nodes) /\ (n # 0 => nodes[n].event = e)
<1> DEFINE found == {j \in DOMAIN filters : nodes[filters[j]].event = e}
<1>1. DOMAIN nodes = 1 .. Len(nodes) /\ \A j \in DOMAIN filters : filters[j] \in DOMAIN nodes
  BY DEF HubType
<1>2. found \in SUBSET Nat
  BY DEF HubType
<1>3. found # {} => Min(found) \in found
  BY <1>2, MinIsIn
<1>4. found # {} => filters[Min(found)] \in DOMAIN nodes /\ nodes[filters[Min(found)]].event = e
  BY <1>1, <1>3
<1>5. Len(nodes) \in Nat
  BY DEF HubType
<1> QED BY <1>1, <1>4, <1>5 DEF FindFilterDriverByEvent

(* GetNextDataRecord returns a record and a monotonic count.               *)
LEMMA NextRecordType ==
    ASSUME HubType, NEW classes, NEW m
    PROVE  LET g == GetNextDataRecord(classes, m) IN g.rec \in Nat /\ g.next \in Nat
<1> DEFINE mine == {j \in DOMAIN records : records[j].item.class \in classes}
           found == {j \in mine : m = 0 \/ records[j].mtc = m}
           later == {j \in mine : j > Min(found)}
<1>1. \A j \in DOMAIN records : j \in Nat /\ records[j].mtc \in Nat
  <2>1. \A j \in DOMAIN records : j \in Nat /\ records[j] \in RecordType
    BY DEF HubType
  <2> QED BY <2>1 DEF RecordType
<1>2. found \in SUBSET Nat /\ found \subseteq DOMAIN records
  BY <1>1
<1>3. later \in SUBSET Nat /\ later \subseteq DOMAIN records
  BY <1>1
<1> HIDE DEF mine, found, later
<1>4. found # {} => records[Min(found)].mtc \in Nat
  BY <1>1, <1>2, MinIsIn
<1>5. later # {} => records[Min(later)].mtc \in Nat
  BY <1>1, <1>3, MinIsIn
<1>6. GetNextDataRecord(classes, m) =
        IF found = {} THEN NoRecord
        ELSE [rec |-> records[Min(found)].mtc,
              next |-> IF later = {} THEN 0 ELSE records[Min(later)].mtc]
  BY DEF GetNextDataRecord, mine, found, later
<1> QED BY <1>4, <1>5, <1>6 DEF NoRecord

(* RemoveEntryList leaves a list of nodes.                                 *)
LEMMA RemovedType ==
    ASSUME HubType, NEW n
    PROVE  Removed(n) \in Seq(DOMAIN nodes)
<1>1. Len(filters) \in Nat /\ DOMAIN filters = 1 .. Len(filters)
      /\ \A j \in 1 .. Len(filters) : filters[j] \in DOMAIN nodes
  BY DEF HubType
<1>2. \A j \in 1 .. Len(filters) - 1 : (IF j < Position(n) THEN j ELSE j + 1) \in 1 .. Len(filters)
  BY <1>1
<1>3. CASE Len(filters) = 0
  BY <1>3 DEF Removed
<1>4. CASE Len(filters) # 0
  <2>1. Len(filters) - 1 \in Nat
    BY <1>1, <1>4
  <2> QED BY <1>1, <1>2, <2>1 DEF Removed
<1> QED BY <1>3, <1>4

-----------------------------------------------------------------------------
(* Level l takes a step in the data hub. *)
FilterPCs == {"read", "store", "got", "register", "link", "announce", "unregister"}
(* A step of a function of the data hub, which was sound where it was and  *)
(* is where it goes.                                                       *)
HubTurns(l, p, r, t) ==
    /\ Turns(l, p, r, t) /\ FrameOK(l)'
    /\ code[l].pc \in HubPCs \cup {"idle"} /\ p \in HubPCs \cup {"idle", "release"}
    /\ code[l].ret = "release" <=> r = "release" \/ p = "release"

(* The ways such a step moves: on in the function, ...                     *)
LEMMA HubGoto ==
    ASSUME Levels, NEW l \in Tpls, NEW p \in HubPCs, Goto(l, p), code[l].pc \in HubPCs,
           code[l].pc \in LogPCs => p \in LogPCs, code[l].pc \in Critical <=> p \in Critical
    PROVE  HubTurns(l, p, code[l].ret, code[l].tpl)
<1>1. Turns(l, p, code[l].ret, code[l].tpl)
  BY GotoTurns DEF Levels, HubPCs, LogPCs, PCs
<1>2. FrameOK(l)'
  BY <1>1 DEF Levels, Frames, FrameOK, Turns, WorkPCs, ReportPCs, HubPCs, LogPCs, DrainPCs,
     Critical
<1> QED BY <1>1, <1>2 DEF HubTurns, HubPCs, LogPCs

(* ... back to the caller, ...                                             *)
LEMMA HubBack ==
    ASSUME Levels, NEW l \in Tpls, Back(l), code[l].pc \in HubPCs
    PROVE  HubTurns(l, code[l].ret, "idle", l) /\ code[l].ret \in {"idle", "release"}
<1>1. Turns(l, code[l].ret, "idle", l)
  BY BackTurns DEF Levels
<1>2. code[l].ret \in {"idle", "release"} /\ (code[l].ret = "release" => l = Callback)
  BY DEF Levels, Frames, FrameOK, CodeType, WorkPCs, ReportPCs, HubPCs, LogPCs, DrainPCs,
     Critical
<1>3. FrameOK(l)'
  BY <1>1, <1>2 DEF FrameOK, Turns, WorkPCs, ReportPCs, HubPCs, LogPCs, DrainPCs, Critical
<1> QED BY <1>1, <1>2, <1>3 DEF HubTurns

(* ... and from nothing into a function.                                   *)
LEMMA HubStart ==
    ASSUME Levels, NEW l \in Tpls, NEW p \in HubPCs \ Critical, Start(l, p), Below(l), l <=
       Notify
    PROVE  HubTurns(l, p, "idle", l)
<1>1. Turns(l, p, "idle", l) /\ code[l].pc = "idle"
  BY StartTurns DEF Levels, HubPCs, LogPCs, PCs, Below, Active, Tpls
<1>2. code[l].ret = "idle"
  BY <1>1 DEF Levels, Frames, FrameOK, CodeType, WorkPCs, ReportPCs, HubPCs, LogPCs,
     DrainPCs, Critical
<1>3. FrameOK(l)'
  BY <1>1 DEF FrameOK, Turns, WorkPCs, ReportPCs, HubPCs, LogPCs, DrainPCs, Critical
<1> QED BY <1>1, <1>2, <1>3 DEF HubTurns, HubPCs, LogPCs

(* The notify function of the log holds a buffer. *)
Held == code[Callback].pc = "release" \/ code[Callback].ret = "release"
(* Reports and the notify function of the log stay where they are. *)
RestKept ==
    /\ Held' <=> Held
    /\ \A k \in Tpls, p \in ReportPCs \cup {"replay", "begin", "drain", "end"} :
          code'[k].pc = p <=> code[k].pc = p

(* The lock is left alone, taken when it is free, or given back. *)
LockMoves(l, p) ==
    \/ locked' = locked /\ (code[l].pc \in Critical <=> p \in Critical)
    \/ locked = FALSE /\ locked' = TRUE /\ p \in Critical
    \/ locked' = FALSE /\ code[l].pc \in Critical /\ p \notin Critical

(* What is left to show of a step of the data hub once it is known where   *)
(* it goes and what it writes.                                             *)
LEMMA HubMoves ==
    ASSUME Levels, HubOK, NEW l \in Tpls, NEW p, NEW r, NEW t, HubTurns(l, p, r, t),
           UNCHANGED rest, LogEvent \in pending' => LogEvent \in pending,
           HubType', LinksOK', Len(nodes') >= Len(nodes), LockMoves(l, p),
           \A k \in Tpls : k # l => call'[k] = call[k],
           call'[l].at \in 0 .. Len(nodes'),
           p \in {"walk", "store", "unlink"} => call'[l].at # 0,
           p \in FilterPCs => call'[l].ev \in Filters
    PROVE  Levels' /\ HubOK' /\ RestKept
<1>1. UNCHANGED << nest, phase, logging >>
  BY DEF rest, boot
<1>2. Drains' <=> Drains
  BY DEF HubTurns, Turns, Drains, Levels, Frames, FrameOK, WorkPCs, ReportPCs, HubPCs,
     LogPCs, DrainPCs, Critical, Tpls, Application, Callback, High
<1>3. code[Application].pc = "fill" =>
          LogEvent \notin pending' /\ ~Drains' /\ code'[Callback].pc # "begin"
  BY <1>2 DEF Levels, FillOK, HubTurns, Turns, HubPCs, LogPCs, Tpls, Application, Callback,
     High
<1>4. logging' = IF Drains' THEN 1 ELSE 0
  BY <1>1, <1>2 DEF Levels, DrainOK
<1>5. Levels'
  BY <1>1, <1>3, <1>4, Outside DEF HubTurns, HubPCs, LogPCs, WorkPCs
<1>6. r # "got"
  BY DEF HubTurns, FrameOK, Turns, WorkPCs, ReportPCs, HubPCs, LogPCs, DrainPCs, Critical
<1>7. Len(nodes) \in Nat /\ Len(nodes') \in Nat
  BY DEF HubOK, HubType
<1>8. CallOK'
  BY <1>6, <1>7 DEF HubOK, CallOK, HubTurns, Turns, FilterPCs
<1>9. LockOK'
  <2>1. code'[l].pc = p /\ \A k \in Tpls : k # l => code'[k].pc = code[k].pc
    BY DEF HubTurns, Turns
  <2>2. CASE locked' = locked /\ (code[l].pc \in Critical <=> p \in Critical)
    <3>1. \A k \in Tpls : code'[k].pc \in Critical <=> code[k].pc \in Critical
      BY <2>1, <2>2
    <3> QED BY <2>2, <3>1 DEF HubOK, LockOK
  <2>3. CASE locked = FALSE /\ locked' = TRUE /\ p \in Critical
    <3>1. \A k \in Tpls : code'[k].pc \in Critical => k = l
      BY <2>1, <2>3 DEF HubOK, LockOK
    <3> QED BY <2>1, <2>3, <3>1 DEF LockOK
  <2>4. CASE locked' = FALSE /\ code[l].pc \in Critical /\ p \notin Critical
    <3>1. \A k \in Tpls : code'[k].pc \notin Critical
      BY <2>1, <2>4 DEF HubOK, LockOK
    <3> QED BY <2>4, <3>1 DEF LockOK
  <2> QED BY <2>2, <2>3, <2>4 DEF LockMoves
<1>10. RestKept
  BY DEF RestKept, Held, HubTurns, Turns, HubPCs, LogPCs, ReportPCs, WorkPCs, Tpls,
     Application, Callback, High
<1> QED BY <1>5, <1>8, <1>9, <1>10 DEF HubOK

(* The arguments before anything is called.                                *)
LEMMA NoCallType == NoItem \in Items /\ NoCall \in CallType
<1>1. NoItem \in Items
  BY DEF NoItem, Items
<1> QED BY <1>1, FiltersAssumption DEF NoCall, CallType

(* A step writes the local variables of its own level only.                *)
LEMMA LocalsType ==
    ASSUME HubType, NEW l \in Tpls, NEW c \in CallType, Locals(l, c)
    PROVE  /\ call' \in [Tpls -> CallType] /\ call'[l] = c
           /\ \A k \in Tpls : k # l => call'[k] = call[k]
  BY DEF HubType, Locals

-----------------------------------------------------------------------------
(* DataHubLogData. *)
LEMMA EndMoves ==
    ASSUME Levels, HubOK, NEW l \in Tpls, UNCHANGED rest, End(l), code[l].pc \in HubPCs,
           UNCHANGED << pending, count, records, nodes, filters, seen >>, left' \in LeftType,
           \/ UNCHANGED locked /\ code[l].pc \notin Critical
           \/ locked' = FALSE /\ code[l].pc \in Critical
    PROVE  Levels' /\ HubOK' /\ RestKept
<1>1. HubTurns(l, code[l].ret, "idle", l) /\ code[l].ret \in {"idle", "release"}
  BY HubBack DEF End
<1>2. /\ call' \in [Tpls -> CallType] /\ call'[l] = NoCall
      /\ \A k \in Tpls : k # l => call'[k] = call[k]
  BY NoCallType, LocalsType DEF End, Locals, HubOK
<1>3. HubType' /\ LinksOK' /\ Len(nodes') >= Len(nodes) /\ Len(nodes') \in Nat
  BY <1>2 DEF HubOK, HubType, LinksOK
<1>4. LockMoves(l, code[l].ret)
  BY <1>1 DEF LockMoves, Critical
<1>5. call'[l].at \in 0 .. Len(nodes')
  BY <1>2, <1>3 DEF NoCall
<1> QED BY <1>1, <1>2, <1>3, <1>4, <1>5, HubMoves DEF FilterPCs

(* The lock is taken; or the call fails because somebody holds it.         *)
LEMMA LogAcquireMoves ==
    ASSUME Levels, HubOK, NEW l \in Tpls, UNCHANGED rest, LogAcquire(l)
    PROVE  Levels' /\ HubOK' /\ RestKept
<1>1. code[l].pc = "log" /\ "log" \in HubPCs \ Critical
  BY DEF LogAcquire, At, WorkPCs, ReportPCs, HubPCs, LogPCs, DrainPCs, Critical
<1>2. UNCHANGED << pending, count, records, nodes, filters, seen, left >> /\ left \in LeftType
  BY DEF LogAcquire, HubOK, HubType
<1>3. CASE locked
  BY <1>1, <1>2, <1>3, EndMoves DEF LogAcquire
<1>4. CASE ~locked
  <2>1. Lock(l, "number") /\ locked' = TRUE /\ call' = call /\ locked = FALSE
    BY <1>4 DEF LogAcquire, HubOK, LockOK
  <2>2. Turns(l, "number", code[l].ret, Notify)
    <3>1. Notify \in Tpls /\ "number" \in PCs
      BY DEF PCs, Tpls, Notify, High, Application
    <3> QED BY <2>1, <3>1, LockTurns DEF Lock, Levels
  <2>3. code[l].ret \in {"idle", "release"} /\ (code[l].ret = "release" => l = Callback) /\ l <= Notify
    BY <1>1 DEF Levels, Frames, FrameOK, CodeType, WorkPCs, ReportPCs, HubPCs, LogPCs,
       DrainPCs, Critical
  <2>4. FrameOK(l)'
    BY <2>2, <2>3 DEF FrameOK, Turns, WorkPCs, ReportPCs, HubPCs, LogPCs, DrainPCs, Critical
  <2>5. HubTurns(l, "number", code[l].ret, Notify)
    BY <1>1, <2>2, <2>4 DEF HubTurns, HubPCs, LogPCs
  <2>6. HubType' /\ LinksOK' /\ Len(nodes') >= Len(nodes)
    BY <1>2, <2>1 DEF HubOK, HubType, LinksOK
  <2>7. LockMoves(l, "number")
    BY <2>1 DEF LockMoves, Critical
  <2>8. call'[l].at \in 0 .. Len(nodes')
    BY <1>2, <2>1 DEF HubOK, CallOK
  <2> QED BY <1>2, <2>1, <2>5, <2>6, <2>7, <2>8, HubMoves DEF FilterPCs
<1> QED BY <1>3, <1>4

(* The pool is exhausted: the lock is given back and the call fails.       *)
LEMMA LogNoMemoryMoves ==
    ASSUME Levels, HubOK, NEW l \in Tpls, UNCHANGED rest, LogNoMemory(l)
    PROVE  Levels' /\ HubOK' /\ RestKept
<1>1. code[l].pc = "number" /\ "number" \in HubPCs /\ "number" \in Critical
  BY DEF LogNoMemory, At, WorkPCs, ReportPCs, HubPCs, LogPCs, DrainPCs, Critical
<1>2. left' \in LeftType
  <2>1. left.failures - 1 \in Nat /\ left \in LeftType
    BY DEF LogNoMemory, HubOK, HubType, LeftType
  <2> QED BY <2>1, Zenon DEF LogNoMemory, LeftType
<1> QED BY <1>1, <1>2, EndMoves DEF LogNoMemory

(* The record gets the next monotonic count.                               *)
LEMMA LogNumberMoves ==
    ASSUME Levels, HubOK, NEW l \in Tpls, UNCHANGED rest, LogNumber(l)
    PROVE  Levels' /\ HubOK' /\ RestKept
<1> DEFINE c == [call[l] EXCEPT !.mtc = count + 1]
<1>1. code[l].pc = "number" /\ "number" \in HubPCs /\ "insert" \in HubPCs /\ "insert" \in LogPCs
      /\ "number" \in Critical /\ "insert" \in Critical
  BY DEF LogNumber, At, WorkPCs, ReportPCs, HubPCs, LogPCs, DrainPCs, Critical
<1>2. HubTurns(l, "insert", code[l].ret, code[l].tpl)
  BY <1>1, HubGoto DEF LogNumber
<1>3. c \in CallType /\ c.at = call[l].at
  <2>1. call[l] \in CallType /\ count + 1 \in Nat
    BY DEF HubOK, HubType
  <2> QED BY <2>1 DEF CallType
<1>4. Locals(l, c)
  BY DEF LogNumber
<1> HIDE DEF c
<1>5. /\ call' \in [Tpls -> CallType] /\ call'[l] = c
      /\ \A k \in Tpls : k # l => call'[k] = call[k]
  BY <1>3, <1>4, LocalsType DEF HubOK
<1>6. HubType' /\ LinksOK' /\ Len(nodes') >= Len(nodes) /\ nodes' = nodes
  BY <1>5 DEF LogNumber, HubOK, HubType, LinksOK
<1>7. LockMoves(l, "insert")
  BY <1>1 DEF LogNumber, LockMoves
<1>8. call'[l].at \in 0 .. Len(nodes')
  BY <1>3, <1>5, <1>6 DEF HubOK, CallOK
<1>9. pending' = pending
  BY DEF LogNumber
<1> QED BY <1>2, <1>5, <1>6, <1>7, <1>8, <1>9, HubMoves DEF FilterPCs

(* The record is linked into the list and the lock is given back.          *)
LEMMA LogInsertMoves ==
    ASSUME Levels, HubOK, NEW l \in Tpls, UNCHANGED rest, LogInsert(l)
    PROVE  Levels' /\ HubOK' /\ RestKept
<1> DEFINE c == [call[l] EXCEPT !.at = 0]
<1>1. code[l].pc = "insert" /\ "insert" \in HubPCs /\ "next" \in HubPCs
      /\ "insert" \in Critical /\ "next" \notin Critical /\ "next" \in LogPCs
  BY DEF LogInsert, At, WorkPCs, ReportPCs, HubPCs, LogPCs, DrainPCs, Critical
<1>2. HubTurns(l, "next", code[l].ret, l)
  <2>1. Turns(l, "next", code[l].ret, l)
    BY LockTurns DEF LogInsert, Unlock, Levels, PCs
  <2>2. FrameOK(l)'
    BY <1>1, <2>1 DEF Levels, Frames, FrameOK, Turns, WorkPCs, ReportPCs, HubPCs, LogPCs,
       DrainPCs, Critical
  <2> QED BY <1>1, <2>1, <2>2 DEF HubTurns
<1>3. call[l] \in CallType
  BY DEF HubOK, HubType
<1>4. c \in CallType /\ c.at = 0
  BY <1>3 DEF CallType
<1>5. LogRecord(l) \in RecordType
  BY <1>3 DEF LogRecord, RecordType, CallType
<1>6. Locals(l, c) /\ records' = Append(records, LogRecord(l)) /\ locked' = FALSE
      /\ UNCHANGED << pending, count, nodes, filters, seen, left >>
  BY DEF LogInsert
<1> HIDE DEF c
<1>7. /\ call' \in [Tpls -> CallType] /\ call'[l] = c
      /\ \A k \in Tpls : k # l => call'[k] = call[k]
  BY <1>4, <1>6, LocalsType DEF HubOK
<1>8. HubType' /\ LinksOK' /\ Len(nodes') >= Len(nodes) /\ Len(nodes') \in Nat
  BY <1>5, <1>6, <1>7 DEF HubOK, HubType, LinksOK
<1>9. LockMoves(l, "next")
  BY <1>1, <1>6 DEF LockMoves
<1>10. call'[l].at \in 0 .. Len(nodes')
  BY <1>4, <1>7, <1>8
<1> QED BY <1>2, <1>6, <1>7, <1>8, <1>9, <1>10, HubMoves DEF FilterPCs

(* The walk over the filters goes on, or ends.                             *)
LEMMA LogNextMoves ==
    ASSUME Levels, HubOK, NEW l \in Tpls, UNCHANGED rest, LogNext(l)
    PROVE  Levels' /\ HubOK' /\ RestKept
<1> DEFINE n == ForwardLink(call[l].at)
           c == [call[l] EXCEPT !.at = n]
<1>1. code[l].pc = "next" /\ "next" \in HubPCs /\ "next" \notin Critical
      /\ "walk" \in HubPCs /\ "walk" \notin Critical /\ "walk" \in LogPCs
  BY DEF LogNext, At, WorkPCs, ReportPCs, HubPCs, LogPCs, DrainPCs, Critical
<1>2. UNCHANGED << pending, count, records, locked, nodes, filters, seen, left >> /\ left \in LeftType
  BY DEF LogNext, hub, HubOK, HubType
<1>3. n \in 0 .. Len(nodes) /\ Len(nodes) \in Nat
  BY ForwardLinkType DEF HubOK, CallOK, HubType
<1>4. CASE n = 0
  BY <1>1, <1>2, <1>4, EndMoves DEF LogNext
<1>5. CASE n # 0
  <2>1. Locals(l, c) /\ Goto(l, "walk")
    BY <1>5 DEF LogNext
  <2>2. HubTurns(l, "walk", code[l].ret, code[l].tpl)
    BY <1>1, <2>1, HubGoto
  <2>3. call[l] \in CallType /\ n \in Nat
    BY <1>3 DEF HubOK, HubType
  <2> HIDE DEF n
  <2>4. c \in CallType /\ c.at = n
    BY <2>3 DEF CallType
  <2> HIDE DEF c
  <2>5. /\ call' \in [Tpls -> CallType] /\ call'[l] = c
        /\ \A k \in Tpls : k # l => call'[k] = call[k]
    BY <2>1, <2>4, LocalsType DEF HubOK
  <2>6. HubType' /\ LinksOK' /\ Len(nodes') >= Len(nodes)
    BY <1>2, <2>5 DEF HubOK, HubType, LinksOK
  <2>7. LockMoves(l, "walk")
    BY <1>1, <1>2 DEF LockMoves
  <2>8. call'[l].at \in 0 .. Len(nodes') /\ call'[l].at # 0
    BY <1>2, <1>3, <1>5, <2>4, <2>5
  <2> QED BY <1>2, <2>2, <2>5, <2>6, <2>7, <2>8, HubMoves DEF FilterPCs
<1> QED BY <1>4, <1>5

(* The event of a filter is not that of the log of status codes. *)
LEMMA LogSignalMoves ==
    ASSUME Levels, HubOK, NEW l \in Tpls, UNCHANGED rest, LogSignal(l)
    PROVE  Levels' /\ HubOK' /\ RestKept
<1>1. code[l].pc = "walk" /\ "walk" \in HubPCs /\ "walk" \notin Critical
      /\ "next" \in HubPCs /\ "next" \notin Critical /\ "next" \in LogPCs
  BY DEF LogSignal, At, WorkPCs, ReportPCs, HubPCs, LogPCs, DrainPCs, Critical
<1>2. HubTurns(l, "next", code[l].ret, code[l].tpl)
  BY <1>1, HubGoto DEF LogSignal
<1>3. call[l].at \in DOMAIN nodes
  BY <1>1 DEF HubOK, CallOK, HubType
<1>4. nodes[call[l].at].event \in Filters
  <2>1. nodes[call[l].at] \in NodeType
    BY <1>3 DEF HubOK, HubType
  <2> QED BY <2>1 DEF NodeType
<1>5. UNCHANGED << count, records, locked, nodes, filters, seen, call, left >>
      /\ (pending' = pending \/ pending' = pending \cup {nodes[call[l].at].event})
  BY DEF LogSignal, hub, Signal
<1>6. HubType' /\ LinksOK' /\ Len(nodes') >= Len(nodes)
  BY <1>4, <1>5, FiltersAssumption DEF HubOK, HubType, LinksOK
<1>7. LogEvent \in pending' => LogEvent \in pending
  BY <1>4, <1>5, StatusCodeAssumption
<1>8. LockMoves(l, "next")
  BY <1>1, <1>5 DEF LockMoves
<1>9. call'[l].at \in 0 .. Len(nodes')
  BY <1>5 DEF HubOK, CallOK
<1> QED BY <1>2, <1>5, <1>6, <1>7, <1>8, <1>9, HubMoves DEF FilterPCs

-----------------------------------------------------------------------------
(* Reading, registering and unregistering. *)
LEMMA ReadFailsMoves ==
    ASSUME Levels, HubOK, NEW l \in Tpls, UNCHANGED rest, ReadFails(l)
    PROVE  Levels' /\ HubOK' /\ RestKept
<1>1. code[l].pc = "read" /\ "read" \in HubPCs \ Critical
  BY DEF ReadFails, Reading, At, WorkPCs, ReportPCs, HubPCs, LogPCs, DrainPCs, Critical
<1> QED BY <1>1, EndMoves DEF ReadFails, hub, HubOK, HubType

(* What a filter finds when it asks for its next record.                   *)
LEMMA FoundType ==
    ASSUME HubType, NEW l \in Tpls, NEW n
    PROVE  Found(l, n).rec \in Nat /\ Found(l, n).next \in Nat /\ (Found(l, n).rec # 0 => n
       # 0)
<1> DEFINE g == GetNextDataRecord(ClassesOf[call[l].ev], CountWanted(l, n))
<1>1. g.rec \in Nat /\ g.next \in Nat
  BY NextRecordType
<1>2. NoRecord.rec = 0 /\ NoRecord.next = 0
  BY DEF NoRecord
<1>3. Found(l, n) = IF n = 0 THEN NoRecord ELSE g
  BY DEF Found
<1> HIDE DEF g
<1> QED BY <1>1, <1>2, <1>3

(* A filter asks for its next record, by the count it keeps.               *)
LEMMA ReadFindsMoves ==
    ASSUME Levels, HubOK, NEW l \in Tpls, UNCHANGED rest, ReadFinds(l)
    PROVE  Levels' /\ HubOK' /\ RestKept
<1> DEFINE n == FindFilterDriverByEvent(call[l].ev)
           again == call[l].mtc = 0 /\ nodes[n].next # 0
           c == [call[l] EXCEPT !.at = n, !.rec = Found(l, n).rec, !.mtc = Found(l, n).next,
                                !.again = again]
<1>1. code[l].pc = "read" /\ "read" \in HubPCs /\ "read" \notin Critical /\ "read" \notin LogPCs
      /\ "store" \in HubPCs /\ "store" \notin Critical
  BY DEF ReadFinds, Reading, At, WorkPCs, ReportPCs, HubPCs, LogPCs, DrainPCs, Critical
<1>2. HubTurns(l, "store", code[l].ret, code[l].tpl)
  BY <1>1, HubGoto DEF ReadFinds
<1>3. Locals(l, c) /\ Found(l, n).rec # 0 /\ UNCHANGED << pending, hub, left >>
  BY DEF ReadFinds
<1>4. n \in 0 .. Len(nodes) /\ n # 0 /\ Len(nodes) \in Nat
  BY <1>3, FindType, FoundType DEF HubOK, HubType
<1>5. Found(l, n).rec \in Nat /\ Found(l, n).next \in Nat
  BY FoundType DEF HubOK
<1>6. call[l] \in CallType /\ call[l].ev \in Filters
  BY <1>1 DEF HubOK, HubType, CallOK
<1>7. again \in BOOLEAN
  OBVIOUS
<1> HIDE DEF n, again
<1>8. c \in CallType /\ c.at = n /\ c.ev = call[l].ev
  <2> DEFINE rec == Found(l, n).rec
             mtc == Found(l, n).next
  <2>1. n \in Nat /\ rec \in Nat /\ mtc \in Nat
    BY <1>4, <1>5
  <2> HIDE DEF rec, mtc
  <2>2. [call[l] EXCEPT !.at = n, !.rec = rec, !.mtc = mtc, !.again = again] \in CallType
    BY <1>6, <1>7, <2>1, Zenon DEF CallType
  <2>3. c \in CallType
    BY <2>2 DEF rec, mtc
  <2>4. c.at = n /\ c.ev = call[l].ev
    BY <1>6 DEF CallType
  <2> QED BY <2>3, <2>4
<1> HIDE DEF c
<1>9. /\ call' \in [Tpls -> CallType] /\ call'[l] = c
      /\ \A k \in Tpls : k # l => call'[k] = call[k]
  BY <1>3, <1>8, LocalsType DEF HubOK
<1>10. HubType' /\ LinksOK' /\ Len(nodes') >= Len(nodes) /\ nodes' = nodes
  BY <1>3, <1>9 DEF hub, HubOK, HubType, LinksOK
<1>11. LockMoves(l, "store")
  BY <1>1, <1>3 DEF hub, LockMoves
<1>12. call'[l].at \in 0 .. Len(nodes') /\ call'[l].at # 0 /\ call'[l].ev \in Filters
  BY <1>4, <1>6, <1>8, <1>9, <1>10
<1> QED BY <1>2, <1>3, <1>9, <1>10, <1>11, <1>12, HubMoves

(* The count of a node changes, and no other part of it. *)
LEMMA NodesKept ==
    ASSUME HubType, LinksOK, NEW n, NEW v \in Nat, nodes' = [nodes EXCEPT ![n].next = v]
    PROVE  nodes' \in Seq(NodeType) /\ Len(nodes') = Len(nodes) /\ LinksOK'
<1>1. nodes \in Seq(NodeType) /\ \A k \in DOMAIN nodes : nodes[k] \in NodeType
  BY DEF HubType
<1>2. CASE n \in DOMAIN nodes
  <2> DEFINE g == [nodes[n] EXCEPT !.next = v]
  <2>1. g \in NodeType /\ g.link = nodes[n].link
    BY <1>1, <1>2 DEF NodeType
  <2>2. nodes' = [nodes EXCEPT ![n] = g]
    OBVIOUS
  <2> HIDE DEF g
  <2> QED BY <1>1, <1>2, <2>1, <2>2 DEF LinksOK
<1>3. CASE n \notin DOMAIN nodes
  <2>1. nodes' = nodes
    BY <1>1, <1>3
  <2> QED BY <1>1, <2>1 DEF LinksOK
<1> QED BY <1>2, <1>3

(* The filter's node is told what was read.                                *)
LEMMA ReadStoresMoves ==
    ASSUME Levels, HubOK, NEW l \in Tpls, UNCHANGED rest, ReadStores(l)
    PROVE  Levels' /\ HubOK' /\ RestKept
<1> DEFINE b == call[l]
           after == GetNextDataRecord(ClassesOf[b.ev], b.mtc)
           moved == b.again /\ b.mtc # 0
           returned == IF moved THEN after.rec ELSE b.rec
           mtc == IF moved THEN after.next ELSE b.mtc
           c == [b EXCEPT !.rec = returned, !.mtc = mtc]
           next == IF b.mtc # 0 THEN b.mtc ELSE IF b.again THEN nodes[b.at].next ELSE b.rec
<1>1. code[l].pc = "store" /\ "store" \in HubPCs /\ "store" \notin Critical /\ "store" \notin LogPCs
      /\ "got" \in HubPCs /\ "got" \notin Critical
  BY DEF ReadStores, At, WorkPCs, ReportPCs, HubPCs, LogPCs, DrainPCs, Critical
<1>2. HubTurns(l, "got", code[l].ret, code[l].tpl)
  BY <1>1, HubGoto DEF ReadStores
<1>3. b \in CallType /\ b.ev \in Filters /\ b.at \in 0 .. Len(nodes) /\ b.at # 0
  BY <1>1 DEF HubOK, HubType, CallOK
<1>4. b.mtc \in Nat /\ b.rec \in Nat /\ after.rec \in Nat /\ after.next \in Nat
  BY <1>3, NextRecordType DEF HubOK, CallType
<1>5. nodes[b.at].next \in Nat
  <2>1. b.at \in DOMAIN nodes
    BY <1>3 DEF HubOK, HubType
  <2>2. nodes[b.at] \in NodeType
    BY <2>1 DEF HubOK, HubType
  <2> QED BY <2>2 DEF NodeType
<1>6. /\ nodes' = [nodes EXCEPT ![b.at].next = next]
      /\ seen' = [seen EXCEPT ![b.ev] = @ \cup {returned}]
      /\ UNCHANGED << pending, count, records, locked, filters, left >>
  BY DEF ReadStores
<1>7. Locals(l, c)
  BY DEF ReadStores
<1>8. returned \in Nat /\ mtc \in Nat /\ next \in Nat
  BY <1>4, <1>5
<1> HIDE DEF returned, mtc, next
<1>9. c \in CallType /\ c.at = b.at /\ c.ev = b.ev
  BY <1>3, <1>8 DEF CallType
<1> HIDE DEF c
<1>10. /\ call' \in [Tpls -> CallType] /\ call'[l] = c
       /\ \A k \in Tpls : k # l => call'[k] = call[k]
  BY <1>7, <1>9, LocalsType DEF HubOK
<1>11. nodes' \in Seq(NodeType) /\ Len(nodes') = Len(nodes) /\ LinksOK' /\ DOMAIN nodes' = DOMAIN nodes
  BY <1>6, <1>8, NodesKept DEF HubOK, HubType
<1>12. seen' \in [Filters -> SUBSET Nat]
  BY <1>6, <1>8 DEF HubOK, HubType
<1>13. HubType'
  BY <1>6, <1>10, <1>11, <1>12 DEF HubOK, HubType
<1>14. LockMoves(l, "got")
  BY <1>1, <1>6 DEF LockMoves
<1>15. call'[l].at \in 0 .. Len(nodes') /\ call'[l].ev \in Filters /\ Len(nodes') >= Len(nodes)
  BY <1>3, <1>9, <1>10, <1>11
<1> QED BY <1>2, <1>6, <1>10, <1>11, <1>13, <1>14, <1>15, HubMoves

(* The handler asks again, or is done.                                     *)
LEMMA ReadGoesOnMoves ==
    ASSUME Levels, HubOK, NEW l \in Tpls, UNCHANGED rest, ReadGoesOn(l)
    PROVE  Levels' /\ HubOK' /\ RestKept
<1>1. code[l].pc = "got" /\ "got" \in HubPCs /\ "got" \notin Critical /\ "got" \notin LogPCs
      /\ "read" \in HubPCs /\ "read" \notin Critical
  BY DEF ReadGoesOn, At, WorkPCs, ReportPCs, HubPCs, LogPCs, DrainPCs, Critical
<1>2. UNCHANGED << pending, hub, left >> /\ left \in LeftType
  BY DEF ReadGoesOn, HubOK, HubType
<1>3. CASE call[l].mtc = 0
  BY <1>1, <1>2, <1>3, EndMoves DEF ReadGoesOn, hub
<1>4. CASE call[l].mtc # 0
  <2>1. HubTurns(l, "read", code[l].ret, code[l].tpl) /\ call' = call
    BY <1>1, <1>4, HubGoto DEF ReadGoesOn
  <2>2. HubType' /\ LinksOK' /\ Len(nodes') >= Len(nodes)
    BY <1>2, <2>1 DEF hub, HubOK, HubType, LinksOK
  <2>3. LockMoves(l, "read")
    BY <1>1, <1>2 DEF hub, LockMoves
  <2>4. call'[l].at \in 0 .. Len(nodes') /\ call'[l].ev \in Filters
    BY <1>1, <1>2, <2>1 DEF hub, HubOK, CallOK
  <2> QED BY <1>2, <2>1, <2>2, <2>3, <2>4, HubMoves
<1> QED BY <1>3, <1>4

(* A filter that is registered already is refused.                         *)
LEMMA RegisterFindsMoves ==
    ASSUME Levels, HubOK, NEW l \in Tpls, UNCHANGED rest, RegisterFinds(l)
    PROVE  Levels' /\ HubOK' /\ RestKept
<1>1. code[l].pc = "register" /\ "register" \in HubPCs /\ "register" \notin Critical
      /\ "register" \notin LogPCs /\ "link" \in HubPCs /\ "link" \notin Critical
  BY DEF RegisterFinds, At, WorkPCs, ReportPCs, HubPCs, LogPCs, DrainPCs, Critical
<1>2. UNCHANGED << pending, hub, left >> /\ left \in LeftType
  BY DEF RegisterFinds, HubOK, HubType
<1>3. CASE FindFilterDriverByEvent(call[l].ev) # 0
  BY <1>1, <1>2, <1>3, EndMoves DEF RegisterFinds, hub
<1>4. CASE FindFilterDriverByEvent(call[l].ev) = 0
  <2>1. HubTurns(l, "link", code[l].ret, code[l].tpl) /\ call' = call
    BY <1>1, <1>4, HubGoto DEF RegisterFinds
  <2>2. HubType' /\ LinksOK' /\ Len(nodes') >= Len(nodes)
    BY <1>2, <2>1 DEF hub, HubOK, HubType, LinksOK
  <2>3. LockMoves(l, "link")
    BY <1>1, <1>2 DEF hub, LockMoves
  <2>4. call'[l].at \in 0 .. Len(nodes') /\ call'[l].ev \in Filters
    BY <1>1, <1>2, <2>1 DEF hub, HubOK, CallOK
  <2> QED BY <1>2, <2>1, <2>2, <2>3, <2>4, HubMoves
<1> QED BY <1>3, <1>4

(* The filter's node is linked into the list.                              *)
LEMMA RegisterLinksMoves ==
    ASSUME Levels, HubOK, NEW l \in Tpls, UNCHANGED rest, RegisterLinks(l)
    PROVE  Levels' /\ HubOK' /\ RestKept
<1> DEFINE node == [event |-> call[l].ev, next |-> 0, link |-> 0]
<1>1. code[l].pc = "link" /\ "link" \in HubPCs /\ "link" \notin Critical
      /\ "link" \notin LogPCs /\ "announce" \in HubPCs /\ "announce" \notin Critical
  BY DEF RegisterLinks, At, WorkPCs, ReportPCs, HubPCs, LogPCs, DrainPCs, Critical
<1>2. HubTurns(l, "announce", code[l].ret, code[l].tpl)
  BY <1>1, HubGoto DEF RegisterLinks
<1>3. /\ nodes' = Append(nodes, node) /\ filters' = Append(filters, Len(nodes) + 1)
      /\ UNCHANGED << pending, count, records, locked, seen, call, left >>
  BY DEF RegisterLinks
<1>4. call[l].ev \in Filters
  BY <1>1 DEF HubOK, CallOK
<1>5. node \in NodeType /\ node.link = 0
  BY <1>4 DEF NodeType
<1> HIDE DEF node
<1>6. nodes \in Seq(NodeType) /\ filters \in Seq(DOMAIN nodes)
  BY DEF HubOK, HubType
<1>7. nodes' \in Seq(NodeType) /\ Len(nodes') = Len(nodes) + 1 /\ Len(nodes) \in Nat
      /\ nodes'[Len(nodes) + 1] = node /\ \A n \in 1 .. Len(nodes) : nodes'[n] = nodes[n]
  BY <1>3, <1>5, <1>6
<1>8. DOMAIN nodes = 1 .. Len(nodes) /\ DOMAIN nodes' = 1 .. Len(nodes) + 1
  BY <1>6, <1>7
<1>9. filters \in Seq(DOMAIN nodes') /\ Len(nodes) + 1 \in DOMAIN nodes'
  <2>1. DOMAIN nodes \subseteq DOMAIN nodes'
    BY <1>7, <1>8
  <2> QED BY <1>6, <1>7, <1>8, <2>1
<1>10. filters' \in Seq(DOMAIN nodes')
  BY <1>3, <1>9
<1>11. LinksOK'
  BY <1>5, <1>7, <1>8 DEF HubOK, LinksOK
<1>12. HubType'
  BY <1>3, <1>7, <1>10 DEF HubOK, HubType
<1>13. LockMoves(l, "announce")
  BY <1>1, <1>3 DEF LockMoves
<1>14. call'[l].at \in 0 .. Len(nodes') /\ call'[l].ev \in Filters /\ Len(nodes') >= Len(nodes)
  BY <1>3, <1>4, <1>7 DEF HubOK, CallOK
<1> QED BY <1>2, <1>3, <1>11, <1>12, <1>13, <1>14, HubMoves

(* The filter is signalled, to read what was logged before.                *)
LEMMA RegisterSignalsMoves ==
    ASSUME Levels, HubOK, NEW l \in Tpls, UNCHANGED rest, RegisterSignals(l)
    PROVE  Levels' /\ HubOK' /\ RestKept
<1>1. code[l].pc = "announce" /\ "announce" \in HubPCs /\ "announce" \notin Critical
  BY DEF RegisterSignals, At, WorkPCs, ReportPCs, HubPCs, LogPCs, DrainPCs, Critical
<1>2. call[l].ev \in Filters
  BY <1>1 DEF HubOK, CallOK
<1>3. pending' = pending \cup {call[l].ev} /\ End(l) /\ UNCHANGED << hub, left >>
  BY DEF RegisterSignals, Signal
<1>4. HubTurns(l, code[l].ret, "idle", l) /\ code[l].ret \in {"idle", "release"}
  BY <1>1, <1>3, HubBack DEF End
<1>5. /\ call' \in [Tpls -> CallType] /\ call'[l] = NoCall
      /\ \A k \in Tpls : k # l => call'[k] = call[k]
  BY <1>3, NoCallType, LocalsType DEF End, Locals, HubOK
<1>6. HubType' /\ LinksOK' /\ Len(nodes') >= Len(nodes) /\ Len(nodes') \in Nat
  BY <1>2, <1>3, <1>5, FiltersAssumption DEF hub, HubOK, HubType, LinksOK
<1>7. LockMoves(l, code[l].ret)
  BY <1>1, <1>3, <1>4 DEF hub, LockMoves, Critical
<1>8. call'[l].at \in 0 .. Len(nodes')
  BY <1>5, <1>6 DEF NoCall
<1>9. LogEvent \in pending' => LogEvent \in pending
  BY <1>2, <1>3, StatusCodeAssumption
<1> QED BY <1>4, <1>5, <1>6, <1>7, <1>8, <1>9, HubMoves DEF FilterPCs

(* A filter that is not registered is not found.                           *)
LEMMA UnregisterFindsMoves ==
    ASSUME Levels, HubOK, NEW l \in Tpls, UNCHANGED rest, UnregisterFinds(l)
    PROVE  Levels' /\ HubOK' /\ RestKept
<1> DEFINE n == FindFilterDriverByEvent(call[l].ev)
           c == [call[l] EXCEPT !.at = n]
<1>1. code[l].pc = "unregister" /\ "unregister" \in HubPCs /\ "unregister" \notin Critical
      /\ "unregister" \notin LogPCs /\ "unlink" \in HubPCs /\ "unlink" \notin Critical
  BY DEF UnregisterFinds, At, WorkPCs, ReportPCs, HubPCs, LogPCs, DrainPCs, Critical
<1>2. UNCHANGED << pending, hub, left >> /\ left \in LeftType
  BY DEF UnregisterFinds, HubOK, HubType
<1>3. n \in 0 .. Len(nodes) /\ Len(nodes) \in Nat
  BY FindType DEF HubOK, HubType
<1>4. CASE n = 0
  BY <1>1, <1>2, <1>4, EndMoves DEF UnregisterFinds, hub
<1>5. CASE n # 0
  <2>1. Locals(l, c) /\ Goto(l, "unlink")
    BY <1>5 DEF UnregisterFinds
  <2>2. HubTurns(l, "unlink", code[l].ret, code[l].tpl)
    BY <1>1, <2>1, HubGoto
  <2>3. call[l] \in CallType /\ n \in Nat
    BY <1>3 DEF HubOK, HubType
  <2> HIDE DEF n
  <2>4. c \in CallType /\ c.at = n
    BY <2>3 DEF CallType
  <2> HIDE DEF c
  <2>5. /\ call' \in [Tpls -> CallType] /\ call'[l] = c
        /\ \A k \in Tpls : k # l => call'[k] = call[k]
    BY <2>1, <2>4, LocalsType DEF HubOK
  <2>6. HubType' /\ LinksOK' /\ Len(nodes') >= Len(nodes) /\ nodes' = nodes
    BY <1>2, <2>5 DEF hub, HubOK, HubType, LinksOK
  <2>7. LockMoves(l, "unlink")
    BY <1>1, <1>2 DEF hub, LockMoves
  <2>8. call'[l].at \in 0 .. Len(nodes') /\ call'[l].at # 0
    BY <1>3, <1>5, <2>4, <2>5, <2>6
  <2> QED BY <1>2, <2>2, <2>5, <2>6, <2>7, <2>8, HubMoves DEF FilterPCs
<1> QED BY <1>4, <1>5

(* The node is taken out of the list; its own link is left as it was.      *)
LEMMA UnregisterUnlinksMoves ==
    ASSUME Levels, HubOK, NEW l \in Tpls, UNCHANGED rest, UnregisterUnlinks(l)
    PROVE  Levels' /\ HubOK' /\ RestKept
<1> DEFINE n == call[l].at
           v == ForwardLink(n)
           g == [nodes[n] EXCEPT !.link = v]
<1>1. code[l].pc = "unlink" /\ "unlink" \in HubPCs /\ "unlink" \notin Critical
  BY DEF UnregisterUnlinks, At, WorkPCs, ReportPCs, HubPCs, LogPCs, DrainPCs, Critical
<1>2. /\ nodes' = [nodes EXCEPT ![n].link = v] /\ filters' = Removed(n) /\ End(l)
      /\ UNCHANGED << pending, count, records, locked, seen, left >>
  BY DEF UnregisterUnlinks
<1>3. n \in 0 .. Len(nodes) /\ n # 0 /\ v \in 0 .. Len(nodes)
  BY <1>1, ForwardLinkType DEF HubOK, CallOK
<1>4. nodes \in Seq(NodeType) /\ Len(nodes) \in Nat /\ n \in DOMAIN nodes
  BY <1>3 DEF HubOK, HubType
<1>5. nodes' = [nodes EXCEPT ![n] = g]
  BY <1>2
<1> HIDE DEF n, v
<1>6. g \in NodeType /\ g.link = v
  <2>1. nodes[n] \in NodeType /\ v \in Nat
    BY <1>3, <1>4
  <2> QED BY <2>1 DEF NodeType
<1> HIDE DEF g
<1>7. nodes' \in Seq(NodeType) /\ Len(nodes') = Len(nodes) /\ DOMAIN nodes' = DOMAIN nodes
      /\ \A k \in DOMAIN nodes : nodes'[k] = IF k = n THEN g ELSE nodes[k]
  BY <1>4, <1>5, <1>6
<1>8. LinksOK'
  BY <1>3, <1>6, <1>7 DEF HubOK, LinksOK
<1>9. filters' \in Seq(DOMAIN nodes')
  BY <1>2, <1>7, RemovedType DEF HubOK
<1>10. HubTurns(l, code[l].ret, "idle", l) /\ code[l].ret \in {"idle", "release"}
  BY <1>1, <1>2, HubBack DEF End
<1>11. /\ call' \in [Tpls -> CallType] /\ call'[l] = NoCall
       /\ \A k \in Tpls : k # l => call'[k] = call[k]
  BY <1>2, NoCallType, LocalsType DEF End, Locals, HubOK
<1>12. HubType'
  BY <1>2, <1>7, <1>9, <1>11 DEF HubOK, HubType
<1>13. LockMoves(l, code[l].ret)
  BY <1>1, <1>2, <1>10 DEF LockMoves, Critical
<1>14. call'[l].at \in 0 .. Len(nodes') /\ Len(nodes') >= Len(nodes)
  BY <1>4, <1>7, <1>11 DEF NoCall
<1> QED BY <1>2, <1>8, <1>10, <1>11, <1>12, <1>13, <1>14, HubMoves DEF FilterPCs

-----------------------------------------------------------------------------
(* What is asked of the data hub, and the notification of a filter. *)
LEMMA StartMoves ==
    ASSUME Levels, HubOK, NEW l \in Tpls, UNCHANGED << hub, rest >>, NEW p \in HubPCs \
       Critical,
           Below(l), l <= Notify, Start(l, p), left' \in LeftType,
           pending' \subseteq pending, NEW c \in CallType, Locals(l, c), c.at = 0,
           p \notin {"walk", "store", "unlink"}, p \in FilterPCs => c.ev \in Filters
    PROVE  Levels' /\ HubOK' /\ RestKept
<1>1. HubTurns(l, p, "idle", l)
  BY HubStart
<1>2. /\ call' \in [Tpls -> CallType] /\ call'[l] = c
      /\ \A k \in Tpls : k # l => call'[k] = call[k]
  BY LocalsType DEF HubOK
<1>3. HubType' /\ LinksOK' /\ Len(nodes') >= Len(nodes) /\ Len(nodes') \in Nat
  BY <1>2 DEF hub, HubOK, HubType, LinksOK
<1>4. LockMoves(l, p)
  <2>1. code[l].pc = "idle"
    BY DEF Below, Active, Tpls
  <2> QED BY <2>1 DEF hub, LockMoves, Critical
<1>5. call'[l].at \in 0 .. Len(nodes')
  BY <1>2, <1>3
<1> QED BY <1>1, <1>2, <1>3, <1>4, <1>5, HubMoves

(* Another driver logs a record.                                           *)
LEMMA AskLogMoves ==
    ASSUME Levels, HubOK, NEW l \in Tpls, UNCHANGED rest, NEW class \in Logs, AskLog(l, class)
    PROVE  Levels' /\ HubOK' /\ RestKept
<1> DEFINE c == [NoCall EXCEPT !.item.class = class]
<1>1. c \in CallType /\ c.at = 0
  BY FiltersAssumption, StatusCodeAssumption DEF NoCall, NoItem, CallType, Items
<1>2. left' \in LeftType
  <2>1. left.logs - 1 \in Nat /\ left \in LeftType
    BY DEF AskLog, HubOK, HubType, LeftType
  <2> QED BY <2>1, Zenon DEF AskLog, LeftType
<1>3. "log" \in HubPCs \ Critical /\ "log" \notin FilterPCs
  BY DEF FilterPCs, WorkPCs, ReportPCs, HubPCs, LogPCs, DrainPCs, Critical
<1>4. Locals(l, c) /\ Start(l, "log") /\ Below(l) /\ l <= Notify /\ UNCHANGED << pending, hub >>
  BY DEF AskLog, CanStart
<1> HIDE DEF c
<1> QED BY <1>1, <1>2, <1>3, <1>4, StartMoves

(* The call a filter's event makes.                                        *)
LEMMA EventCall ==
    ASSUME NEW e \in Filters
    PROVE  LET c == [NoCall EXCEPT !.ev = e] IN c \in CallType /\ c.at = 0 /\ c.ev = e
  BY NoCallType, FiltersAssumption DEF NoCall, CallType

(* A driver registers a filter.                                            *)
LEMMA AskRegisterMoves ==
    ASSUME Levels, HubOK, NEW l \in Tpls, UNCHANGED rest, NEW e \in Filters, AskRegister(l, e)
    PROVE  Levels' /\ HubOK' /\ RestKept
<1> DEFINE c == [NoCall EXCEPT !.ev = e]
<1>1. c \in CallType /\ c.at = 0 /\ c.ev = e
  BY EventCall
<1>2. left' \in LeftType
  <2>1. left.registers - 1 \in Nat /\ left \in LeftType
    BY DEF AskRegister, HubOK, HubType, LeftType
  <2> QED BY <2>1, Zenon DEF AskRegister, LeftType
<1>3. "register" \in HubPCs \ Critical
  BY DEF WorkPCs, ReportPCs, HubPCs, LogPCs, DrainPCs, Critical
<1>4. Locals(l, c) /\ Start(l, "register") /\ Below(l) /\ l <= Notify /\ UNCHANGED << pending, hub >>
  BY DEF AskRegister, CanStart
<1> HIDE DEF c
<1> QED BY <1>1, <1>2, <1>3, <1>4, StartMoves

(* A driver takes its filter back.                                         *)
LEMMA AskUnregisterMoves ==
    ASSUME Levels, HubOK, NEW l \in Tpls, UNCHANGED rest, NEW e \in Filters,
       AskUnregister(l, e)
    PROVE  Levels' /\ HubOK' /\ RestKept
<1> DEFINE c == [NoCall EXCEPT !.ev = e]
<1>1. c \in CallType /\ c.at = 0 /\ c.ev = e
  BY EventCall
<1>2. left' \in LeftType
  <2>1. left.unregisters - 1 \in Nat /\ left \in LeftType
    BY DEF AskUnregister, HubOK, HubType, LeftType
  <2> QED BY <2>1, Zenon DEF AskUnregister, LeftType
<1>3. "unregister" \in HubPCs \ Critical
  BY DEF WorkPCs, ReportPCs, HubPCs, LogPCs, DrainPCs, Critical
<1>4. Locals(l, c) /\ Start(l, "unregister") /\ Below(l) /\ l <= Notify /\ UNCHANGED << pending, hub >>
  BY DEF AskUnregister, CanStart
<1> HIDE DEF c
<1> QED BY <1>1, <1>2, <1>3, <1>4, StartMoves

(* A handler takes its own filter back while it reads.                     *)
LEMMA HandlerUnregistersMoves ==
    ASSUME Levels, HubOK, NEW l \in Tpls, UNCHANGED rest, HandlerUnregisters(l)
    PROVE  Levels' /\ HubOK' /\ RestKept
<1>1. code[l].pc = "got" /\ "got" \in HubPCs /\ "got" \notin Critical /\ "got" \notin LogPCs
      /\ "unregister" \in HubPCs /\ "unregister" \notin Critical
  BY DEF HandlerUnregisters, At, WorkPCs, ReportPCs, HubPCs, LogPCs, DrainPCs, Critical
<1>2. HubTurns(l, "unregister", code[l].ret, code[l].tpl)
  BY <1>1, HubGoto DEF HandlerUnregisters
<1>3. left' \in LeftType
  <2>1. left.unregisters - 1 \in Nat /\ left \in LeftType
    BY DEF HandlerUnregisters, HubOK, HubType, LeftType
  <2> QED BY <2>1, Zenon DEF HandlerUnregisters, LeftType
<1>4. UNCHANGED << pending, hub, call >>
  BY DEF HandlerUnregisters
<1>5. HubType' /\ LinksOK' /\ Len(nodes') >= Len(nodes)
  BY <1>3, <1>4 DEF hub, HubOK, HubType, LinksOK
<1>6. LockMoves(l, "unregister")
  BY <1>1, <1>4 DEF hub, LockMoves
<1>7. call'[l].at \in 0 .. Len(nodes') /\ call'[l].ev \in Filters
  BY <1>1, <1>4 DEF hub, HubOK, CallOK
<1> QED BY <1>2, <1>4, <1>5, <1>6, <1>7, HubMoves

(* The notify function of a filter starts.                                 *)
LEMMA NotifyFilterMoves ==
    ASSUME Levels, HubOK, UNCHANGED rest, NEW e \in Filters, NotifyFilter(e)
    PROVE  Levels' /\ HubOK' /\ RestKept
<1> DEFINE c == [NoCall EXCEPT !.ev = e]
           l == EventTpl[e]
<1>1. c \in CallType /\ c.at = 0 /\ c.ev = e
  BY EventCall
<1>2. l \in Tpls /\ l <= Notify
  BY EventTplAssumption, FiltersAssumption DEF Tpls, Application, Callback, High, Notify
<1>3. "read" \in HubPCs \ Critical
  BY DEF WorkPCs, ReportPCs, HubPCs, LogPCs, DrainPCs, Critical
<1>4. Locals(l, c) /\ Start(l, "read") /\ Below(l) /\ UNCHANGED << hub, left >> /\ pending' \subseteq pending
  BY DEF NotifyFilter
<1>5. left' \in LeftType
  BY <1>4 DEF HubOK, HubType
<1> HIDE DEF c, l
<1> QED BY <1>1, <1>2, <1>3, <1>4, <1>5, StartMoves

-----------------------------------------------------------------------------
(* The theorems, and the invariant they rest on. *)

(* What the variables of this driver may hold.                             *)
ReportType == [item : Items, slot : 0 .. MaxRecords - 1, buf : Nat]
RingType == [slots : SlotsType, index : 0 .. MaxRecords, number : Nat]
HobType == [slots : SlotsType, index : 0 .. MaxRecords - 1, packet : Nat]

(* The variables of the status code driver keep their types. *)
StoreType ==
    /\ nest \in 0 .. 1 /\ hubUp \in BOOLEAN /\ located \in BOOLEAN
    /\ phase \in {"pei", "replay", "boot", "runtime"}
    /\ pool \in Seq(Items) /\ fifo \in Seq(DOMAIN pool) /\ free \in Seq(DOMAIN pool)
    /\ ring \in RingType /\ hob \in HobType /\ replayed \in 0 .. MaxRecords
    /\ report \in [Tpls -> ReportType]
    /\ reported \in Seq(Items)
(* The index of the ring is past its end only until the record is saved. *)
SlotOK == ring.index = MaxRecords => \E l \in Tpls : code[l].pc = "save"
(* The notify function of the log releases a buffer that it took. *)
HeldOK == Held => report[Callback].buf \in DOMAIN pool
(* The buffers' part of the invariant: types, a slot for the report that   *)
(* saves one, and a buffer in the hands of the drain.                      *)
StoreOK == StoreType /\ SlotOK /\ HeldOK

(* The invariant every other proof rests on.                               *)
TypeInv == Levels /\ HubOK /\ StoreOK

(* The actions of the data hub, and what is asked of it. *)
HubAction ==
    \/ \E l \in Tpls :
          \/ HubStep(l)
          \/ \E class \in Logs : AskLog(l, class)
          \/ \E e \in Filters : AskRegister(l, e) \/ AskUnregister(l, e)
          \/ HandlerUnregisters(l)
    \/ \E e \in Filters : NotifyFilter(e)

(* Any step of the data hub keeps the levels and the data hub sound, ...   *)
LEMMA HubActionMoves ==
    ASSUME Levels, HubOK, UNCHANGED rest, HubAction
    PROVE  Levels' /\ HubOK' /\ RestKept
<1>1. ASSUME NEW l \in Tpls, HubStep(l) PROVE Levels' /\ HubOK' /\ RestKept
  BY <1>1, LogAcquireMoves, LogNoMemoryMoves, LogNumberMoves, LogInsertMoves, LogNextMoves,
     LogSignalMoves, ReadFailsMoves, ReadFindsMoves, ReadStoresMoves, ReadGoesOnMoves,
     RegisterFindsMoves, RegisterLinksMoves, RegisterSignalsMoves, UnregisterFindsMoves,
     UnregisterUnlinksMoves DEF HubStep
<1>2. ASSUME NEW l \in Tpls,
             \/ \E class \in Logs : AskLog(l, class)
             \/ \E e \in Filters : AskRegister(l, e) \/ AskUnregister(l, e)
             \/ HandlerUnregisters(l)
      PROVE  Levels' /\ HubOK' /\ RestKept
  BY <1>2, AskLogMoves, AskRegisterMoves, AskUnregisterMoves, HandlerUnregistersMoves
<1> QED BY <1>1, <1>2, NotifyFilterMoves DEF HubAction

(* ... and does not touch what this driver stores.                         *)
LEMMA HubActionStore ==
    ASSUME StoreOK, UNCHANGED rest, RestKept
    PROVE  StoreOK'
<1>1. StoreType'
  BY DEF StoreOK, StoreType, rest, buffers, boot
<1>2. SlotOK'
  <2>1. \A k \in Tpls : code'[k].pc = "save" <=> code[k].pc = "save"
    BY DEF RestKept, ReportPCs, WorkPCs
  <2> QED BY <2>1 DEF StoreOK, SlotOK, rest
<1>3. HeldOK'
  BY DEF StoreOK, HeldOK, RestKept, rest, buffers
<1> QED BY <1>1, <1>2, <1>3 DEF StoreOK

-----------------------------------------------------------------------------
(* A step of the status code driver, as the data hub sees it. *)
Step(l) ==
    \/ \E p \in WorkPCs \cup {"drain", "end"} : Goto(l, p)
    \/ Back(l)
    \/ \E p \in {"report", "begin", "replay"} : Start(l, p)
    \/ code[l].pc = "got" /\ Call(l, "report", "got")
    \/ Call(l, "ring", "replay")

(* A step of this driver that writes nothing of the data hub keeps it      *)
(* sound.                                                                  *)
LEMMA StepKeepsHub ==
    ASSUME Levels, HubOK, NEW l \in Tpls, Step(l) \/ Call(l, "log", "release"), Quiet,
           UNCHANGED hub, pending' \subseteq Events, left' \in LeftType,
           call' \in [Tpls -> CallType], \A k \in Tpls : call'[k] = call[k] \/ call'[k].at = 0,
           code[l].pc \in {"idle", "got"} \/ code[l].ret = "got" => call' = call,
           \A k \in Tpls \ {l} : call'[k] = call[k]
    PROVE  HubOK'
<1>1. HubType' /\ LinksOK'
  BY DEF HubOK, HubType, LinksOK, hub
<1>2. CallOK'
  <2>1. PICK p, r, t : /\ Turns(l, p, r, t) /\ p \notin {"walk", "store", "unlink"}
                       /\ p \in FilterPCs \/ r = "got"
                             => code[l].pc = "got" \/ code[l].ret = "got"
    <3>1. CASE \E p \in WorkPCs \cup {"drain", "end"} : Goto(l, p)
      BY <3>1, GotoTurns DEF Levels, WorkPCs, PCs, FilterPCs
    <3>2. CASE Back(l)
      BY <3>2, BackTurns DEF Levels, Frames, CodeType, FilterPCs
    <3>3. CASE \E p \in {"report", "begin", "replay"} : Start(l, p)
      BY <3>3, StartTurns DEF Levels, PCs, FilterPCs
    <3>4. CASE code[l].pc = "got" /\ Call(l, "report", "got")
      BY <3>4, CallTurns DEF Levels, PCs, FilterPCs, Rets
    <3>5. CASE Call(l, "ring", "replay") \/ Call(l, "log", "release")
      BY <3>5, CallTurns DEF Levels, PCs, FilterPCs, Rets
    <3> QED BY <3>1, <3>2, <3>3, <3>4, <3>5 DEF Step
  <2>2. /\ code'[l].pc = p /\ code'[l].ret = r
        /\ \A k \in Tpls : k # l => code'[k] = code[k]
    BY <2>1 DEF Turns
  <2>3. call'[l].at \in 0 .. Len(nodes')
    BY DEF HubOK, CallOK, HubType, hub
  <2>4. p \in FilterPCs \/ r = "got" => call'[l].ev \in Filters
    BY <2>1 DEF HubOK, CallOK
  <2>5. nodes' = nodes
    BY DEF hub
  <2> QED BY <2>1, <2>2, <2>3, <2>4, <2>5 DEF HubOK, CallOK, FilterPCs
<1>3. LockOK'
  <2>1. locked' = locked
    BY DEF hub
  <2> QED BY <2>1 DEF HubOK, LockOK, Quiet
<1> QED BY <1>1, <1>2, <1>3 DEF HubOK

(* The steps that leave the locals of the data hub and the bounds alone. *)
Plain(l) ==
    \/ ReportNested(l) \/ ReportBegins(l) \/ RingTakes(l) \/ RingSaves(l) \/ HubRefuses(l)
    \/ HubTakes(l) \/ Acquire(l) \/ AcquireRefused(l) \/ Grow(l) \/ Fill(l) \/ SignalLog(l)
    \/ ReportEnds(l) \/ DrainBegins(l) \/ DrainReleases(l) \/ DrainEmpty(l) \/ DrainEnds(l)
    \/ ReplayRecord(l) \/ ReplayEnds(l)

(* What the plain steps leave alone: ...                                   *)
LEMMA PlainSteps ==
    ASSUME NEW l \in Tpls, Plain(l)
    PROVE  Step(l) /\ UNCHANGED << hub, call, left >>
<1> USE DEF At, Step, WorkPCs
<1>1. CASE ReportNested(l) \/ ReportEnds(l) \/ DrainEnds(l) \/ ReplayEnds(l)
  BY <1>1 DEF ReportNested, ReportEnds, DrainEnds, ReplayEnds
<1>2. CASE \/ ReportBegins(l) \/ RingTakes(l) \/ RingSaves(l) \/ HubRefuses(l) \/ HubTakes(l)
           \/ Acquire(l) \/ Grow(l) \/ Fill(l) \/ SignalLog(l)
  BY <1>2 DEF ReportBegins, RingTakes, RingSaves, HubRefuses, HubTakes, Acquire, Grow, Fill,
     SignalLog
<1>3. CASE AcquireRefused(l) \/ DrainBegins(l) \/ DrainReleases(l) \/ DrainEmpty(l)
  BY <1>3 DEF AcquireRefused, DrainBegins, DrainReleases, DrainEmpty
<1>4. CASE ReplayRecord(l)
  BY <1>4 DEF ReplayRecord
<1> QED BY <1>1, <1>2, <1>3, <1>4 DEF Plain

(* ... they signal mLogDataHubEvent, or nothing.                           *)
LEMMA PlainPending ==
    ASSUME NEW l \in Tpls, Plain(l)
    PROVE  pending' = pending \/ (SignalLog(l) /\ pending' = pending \cup {LogEvent})
<1>1. CASE SignalLog(l)
  BY <1>1 DEF SignalLog, Signal
<1>2. CASE ~SignalLog(l)
  BY <1>2 DEF Plain, ReportNested, ReportBegins, RingTakes, RingSaves, HubRefuses, HubTakes,
     Acquire,
     AcquireRefused, Grow, Fill, ReportEnds, DrainBegins, DrainReleases, DrainEmpty, DrainEnds,
     ReplayRecord, ReplayEnds
<1> QED BY <1>1, <1>2

(* Each kind of step of this driver keeps the levels and the data hub      *)
(* sound: the plain ones, ...                                              *)
LEMMA PlainMoves ==
    ASSUME TypeInv, NEW l \in Tpls, Plain(l)
    PROVE  Levels' /\ Quiet /\ HubOK'
<1>1. Levels' /\ Quiet
  BY ReportNestedLevels, ReportBeginsLevels, WorkLevels, ReportEndsLevels, DrainBeginsLevels,
     DrainReleasesLevels, DrainEmptyLevels, DrainEndsLevels, ReplayRecordLevels,
        ReplayEndsLevels
     DEF Plain, TypeInv, WorkStep
<1>2. Step(l) /\ UNCHANGED << hub, call, left >>
  BY PlainSteps
<1>3. pending' \subseteq Events
  BY PlainPending, StatusCodeAssumption DEF TypeInv, HubOK, HubType
<1>4. call' \in [Tpls -> CallType] /\ left' \in LeftType
  BY <1>2 DEF TypeInv, HubOK, HubType
<1> QED BY <1>1, <1>2, <1>3, <1>4, StepKeepsHub DEF TypeInv

(* The steps that use up a bound. *)
LEMMA CountedMoves ==
    ASSUME TypeInv, NEW l \in Tpls, NEW q,
           GrowFails(l) \/ AskReport(l, q) \/ HandlerReports(l, q)
    PROVE  Levels' /\ Quiet /\ HubOK'
<1>1. Levels' /\ Quiet
  BY WorkLevels, AskReportLevels, HandlerReportsLevels DEF TypeInv, WorkStep
<1>2. Step(l) /\ UNCHANGED << pending, hub, call >>
  BY DEF GrowFails, AskReport, HandlerReports, Step, WorkPCs, At
<1>3. left' \in LeftType
  <2>1. left \in LeftType
    BY DEF TypeInv, HubOK, HubType
  <2>2. CASE GrowFails(l)
    <3>1. left.failures - 1 \in Nat
      BY <2>1, <2>2 DEF GrowFails, LeftType
    <3> QED BY <2>1, <2>2, <3>1, Zenon DEF GrowFails, LeftType
  <2>3. CASE AskReport(l, q) \/ HandlerReports(l, q)
    <3>1. left.reports - 1 \in Nat
      BY <2>1, <2>3 DEF AskReport, HandlerReports, LeftType
    <3> QED BY <2>1, <2>3, <3>1, Zenon DEF AskReport, HandlerReports, LeftType
  <2> QED BY <2>2, <2>3
<1>4. call' \in [Tpls -> CallType] /\ pending' \subseteq Events
  BY <1>2 DEF TypeInv, HubOK, HubType
<1> QED BY <1>1, <1>2, <1>3, <1>4, StepKeepsHub DEF TypeInv

(* ... the start of the drain, ...                                         *)
LEMMA NotifyLogMoves ==
    ASSUME TypeInv, NotifyLog
    PROVE  Levels' /\ Quiet /\ HubOK'
<1>1. Levels' /\ Quiet
  BY NotifyLogLevels DEF TypeInv
<1>2. Callback \in Tpls /\ Step(Callback) /\ UNCHANGED << hub, call, left >> /\ pending' \subseteq pending
  BY DEF NotifyLog, Step, Tpls, Application, Callback, High
<1>3. call' \in [Tpls -> CallType] /\ pending' \subseteq Events /\ left' \in LeftType
  BY <1>2 DEF TypeInv, HubOK, HubType
<1> QED BY <1>1, <1>2, <1>3, StepKeepsHub DEF TypeInv

(* ... the start of the driver, ...                                        *)
LEMMA StartDriverMoves ==
    ASSUME TypeInv, StartDriver
    PROVE  Levels' /\ Quiet /\ HubOK'
<1>1. Levels' /\ Quiet
  BY StartDriverLevels DEF TypeInv
<1>2. Application \in Tpls /\ Step(Application) /\ UNCHANGED << pending, hub, call, left >>
  BY DEF StartDriver, Step, Tpls, Application, Callback, High
<1>3. call' \in [Tpls -> CallType] /\ pending' \subseteq Events /\ left' \in LeftType
  BY <1>2 DEF TypeInv, HubOK, HubType
<1> QED BY <1>1, <1>2, <1>3, StepKeepsHub DEF TypeInv

(* ... the call of DataHubLogData, ...                                     *)
LEMMA DrainRetrievesMoves ==
    ASSUME TypeInv, NEW l \in Tpls, DrainRetrieves(l)
    PROVE  Levels' /\ Quiet /\ HubOK'
<1> DEFINE c == [NoCall EXCEPT !.item = pool[Head(fifo)], !.status = TRUE]
<1>1. Levels' /\ Quiet
  BY DrainRetrievesLevels DEF TypeInv
<1>2. Head(fifo) \in DOMAIN pool
  BY DEF DrainRetrieves, TypeInv, StoreOK, StoreType
<1>3. pool[Head(fifo)] \in Items
  BY <1>2 DEF TypeInv, StoreOK, StoreType
<1>4. c \in CallType /\ c.at = 0
  BY <1>3, NoCallType DEF NoCall, CallType
<1>5. Call(l, "log", "release") /\ Locals(l, c) /\ UNCHANGED << pending, hub, left >>
  BY DEF DrainRetrieves
<1> HIDE DEF c
<1>6. /\ call' \in [Tpls -> CallType] /\ call'[l] = c
      /\ \A k \in Tpls : k # l => call'[k] = call[k]
  BY <1>4, <1>5, LocalsType DEF TypeInv, HubOK
<1>7. pending' \subseteq Events /\ left' \in LeftType
  BY <1>5 DEF TypeInv, HubOK, HubType
<1>8. code[l].pc = "drain" /\ code[l].ret # "got"
  BY DEF DrainRetrieves, At, TypeInv, Levels, Frames, FrameOK, WorkPCs, ReportPCs
<1> QED BY <1>1, <1>4, <1>5, <1>6, <1>7, <1>8, StepKeepsHub DEF TypeInv

(* ... and what happens around the levels.                                 *)
LEMMA BootMoves ==
    ASSUME TypeInv, ExitBootServices \/ DataHubInstall \/ \E class \in Classes :
       PeiReport(class)
    PROVE  Levels' /\ Quiet /\ HubOK'
<1>1. Levels' /\ Quiet
  BY BootLevels DEF TypeInv
<1>2. UNCHANGED << code, pending, hub, call >>
  BY DEF ExitBootServices, DataHubInstall, PeiReport
<1>3. left' \in LeftType
  <2>1. left \in LeftType
    BY DEF TypeInv, HubOK, HubType
  <2>2. CASE \E class \in Classes : PeiReport(class)
    <3>1. left.handoff - 1 \in Nat
      BY <2>1, <2>2 DEF PeiReport, LeftType
    <3>2. left' = [left EXCEPT !.handoff = @ - 1]
      BY <2>2 DEF PeiReport
    <3> QED BY <2>1, <3>1, <3>2, Zenon DEF LeftType
  <2>3. CASE ExitBootServices \/ DataHubInstall
    BY <2>1, <2>3 DEF ExitBootServices, DataHubInstall
  <2> QED BY <2>2, <2>3
<1>4. HubType' /\ LinksOK' /\ CallOK' /\ LockOK'
  BY <1>2, <1>3 DEF TypeInv, HubOK, HubType, LinksOK, CallOK, LockOK, hub
<1> QED BY <1>1, <1>4 DEF HubOK

-----------------------------------------------------------------------------
(* What the steps of the status code driver do to its variables. *)
Counted(l, q) == GrowFails(l) \/ AskReport(l, q) \/ HandlerReports(l, q)

(* Where the steps of reports go: "save" is reached by taking a slot, and  *)
(* left by saving the record there.                                        *)
LEMMA StatusTurns ==
    ASSUME TypeInv, NEW l \in Tpls, NEW q, Plain(l) \/ Counted(l, q)
    PROVE  \E p, r, t : /\ Turns(l, p, r, t) /\ p # "release" /\ r # "release"
                        /\ p = "save" <=> RingTakes(l)
                        /\ code[l].pc = "save" <=> RingSaves(l)
                        /\ p \in {"begin", "drain"} => code[l].pc \in DrainPCs
<1>1. Frames /\ (code[l].ret = "release" => code[l].pc \in LogPCs)
      /\ (code[l].pc \in {"replay", "begin", "drain", "end"} => code[l].ret = "idle")
  BY DEF TypeInv, Levels, Frames, FrameOK, CodeType, WorkPCs, ReportPCs, HubPCs, LogPCs,
     DrainPCs, Critical
<1>2. RingTakes(l) => code[l].pc = "ring"
  BY DEF RingTakes, At
<1>3. RingSaves(l) => code[l].pc = "save"
  BY DEF RingSaves, At
<1>4. CASE RingTakes(l)
  BY <1>1, <1>2, <1>3, <1>4, GotoTurns DEF RingTakes, PCs, LogPCs
<1>5. CASE RingSaves(l)
  BY <1>1, <1>2, <1>3, <1>5, GotoTurns DEF RingSaves, PCs, LogPCs
<1>6. CASE \/ ReportBegins(l) \/ HubRefuses(l) \/ HubTakes(l) \/ Acquire(l) \/ AcquireRefused(l)
           \/ Grow(l) \/ GrowFails(l) \/ Fill(l) \/ SignalLog(l)
  <2>1. PICK p \in {"ring", "done", "acquire", "fill", "grow", "signal"} : Goto(l, p)
    BY <1>6 DEF ReportBegins, HubRefuses, HubTakes, Acquire, AcquireRefused, Grow,
       GrowFails, Fill, SignalLog
  <2>2. code[l].pc \notin LogPCs \cup {"ring", "save"}
    BY <1>6 DEF ReportBegins, HubRefuses, HubTakes, Acquire, AcquireRefused, Grow,
       GrowFails, Fill,
       SignalLog, At, LogPCs
  <2> QED BY <1>1, <1>2, <1>3, <2>1, <2>2, GotoTurns DEF PCs
<1>7. CASE ReportNested(l) \/ ReportEnds(l) \/ ReplayEnds(l) \/ DrainEnds(l)
  <2>1. Back(l) /\ code[l].pc \notin LogPCs \cup {"ring", "save"}
    BY <1>7 DEF ReportNested, ReportEnds, ReplayEnds, DrainEnds, At, LogPCs
  <2>2. code[l].ret \in {"idle", "got", "replay"}
    BY <1>1, <2>1 DEF Frames, CodeType
  <2> QED BY <1>1, <1>2, <1>3, <2>1, <2>2, BackTurns
<1>8. CASE DrainBegins(l) \/ DrainReleases(l) \/ DrainEmpty(l)
  <2>1. code[l].pc \in {"begin", "release", "drain"} /\ (Back(l) \/ Goto(l, "drain") \/ Goto(l, "end"))
    BY <1>8 DEF DrainBegins, DrainReleases, DrainEmpty, At
  <2>2. code[l].pc \notin LogPCs \cup {"ring", "save"} /\ code[l].ret # "release"
    BY <1>1, <2>1 DEF LogPCs
  <2>3. code[l].ret # "save" /\ code[l].pc \in DrainPCs
    BY <1>1, <2>1 DEF Frames, CodeType, DrainPCs
  <2> QED BY <1>1, <1>2, <1>3, <2>1, <2>2, <2>3, BackTurns, GotoTurns DEF PCs
<1>9. CASE AskReport(l, q)
  <2>1. Start(l, "report") /\ code[l].pc = "idle"
    BY <1>9 DEF AskReport, CanStart, Below, Active, Tpls
  <2> QED BY <1>1, <1>2, <1>3, <2>1, StartTurns DEF PCs
<1>10. CASE HandlerReports(l, q)
  <2>1. Call(l, "report", "got") /\ code[l].pc = "got"
    BY <1>10 DEF HandlerReports, At
  <2> QED BY <1>1, <1>2, <1>3, <2>1, CallTurns DEF PCs, Rets
<1>11. CASE ReplayRecord(l)
  <2>1. Call(l, "ring", "replay") /\ code[l].pc = "replay"
    BY <1>11 DEF ReplayRecord, At
  <2> QED BY <1>1, <1>2, <1>3, <2>1, CallTurns DEF PCs, Rets
<1> QED BY <1>4, <1>5, <1>6, <1>7, <1>8, <1>9, <1>10, <1>11 DEF Plain, Counted

(* The buffer in the hands of the drain stays there while others step.     *)
LEMMA HeldStays ==
    ASSUME TypeInv, NEW l \in Tpls, NEW p, NEW r, NEW t, Turns(l, p, r, t),
           p # "release", r # "release", \A k \in Tpls : k # l => report'[k] = report[k],
           DOMAIN pool \subseteq DOMAIN pool'
    PROVE  HeldOK'
<1>1. Held' => Held /\ Callback # l
  BY DEF Held, Turns, Tpls, Application, Callback, High
<1> QED BY <1>1 DEF HeldOK, TypeInv, StoreOK, Tpls, Application, Callback, High

(* The slot of a report that saves is not given to another.                *)
LEMMA SlotStays ==
    ASSUME TypeInv, NEW l \in Tpls, NEW p, NEW r, NEW t, Turns(l, p, r, t),
           code[l].pc # "save", ring' = ring
    PROVE  SlotOK'
  BY DEF TypeInv, StoreOK, SlotOK, Turns

(* A step writes the local variables of its own level only.                *)
LEMMA NoteType ==
    ASSUME StoreType, NEW l \in Tpls, NEW r \in ReportType, Note(l, r)
    PROVE  /\ report' \in [Tpls -> ReportType] /\ report'[l] = r
           /\ \A k \in Tpls : k # l => report'[k] = report[k]
  BY DEF StoreType, Note

(* The local variables before anything is reported.                        *)
LEMMA NoReportType == NoReport \in ReportType
  BY NoCallType, StatusCodeAssumption DEF NoReport, ReportType

(* A report gets its number when it is accepted.                           *)
LEMMA NumberedType ==
    ASSUME StoreType, NEW item \in Items
    PROVE  /\ Numbered(item) \in Items /\ Numbered(item).id = Len(reported) + 1
           /\ Numbered(item).class = item.class
           /\ Numbered(item).data = IF item.data = 0 THEN 0 ELSE Len(reported) + 1
<1> DEFINE n == Len(reported) + 1
           d == IF item.data = 0 THEN 0 ELSE n
<1>1. n \in Nat /\ d \in Nat
  BY DEF StoreType
<1>2. Numbered(item) = [item EXCEPT !.id = n, !.data = d]
  BY DEF Numbered, Items
<1> HIDE DEF n, d
<1>3. /\ [item EXCEPT !.id = n, !.data = d] \in Items
      /\ [item EXCEPT !.id = n, !.data = d].id = n
      /\ [item EXCEPT !.id = n, !.data = d].class = item.class
      /\ [item EXCEPT !.id = n, !.data = d].data = d
  BY <1>1 DEF Items
<1> QED BY <1>2, <1>3 DEF n, d

(* Steps that change at most what level l keeps. *)
LEMMA NotesStore ==
    ASSUME TypeInv, NEW l \in Tpls, NEW q, NEW r \in ReportType,
           Plain(l) \/ Counted(l, q), code[l].pc # "save",
           Note(l, r) \/ report' = report,
           nest' \in 0 .. 1, located' \in BOOLEAN, phase' \in {"pei", "replay", "boot", "runtime"},
           replayed' \in 0 .. MaxRecords, reported' \in Seq(Items),
           pool' \in Seq(Items), fifo' \in Seq(DOMAIN pool'), free' \in Seq(DOMAIN pool'),
           DOMAIN pool \subseteq DOMAIN pool', UNCHANGED << hubUp, ring, hob >>
    PROVE  StoreOK'
<1>1. PICK p, x, t : Turns(l, p, x, t) /\ p # "release" /\ x # "release"
  BY StatusTurns
<1>2. /\ report' \in [Tpls -> ReportType] /\ \A k \in Tpls : k # l => report'[k] = report[k]
  BY NoteType DEF TypeInv, StoreOK, StoreType
<1>3. StoreType'
  BY <1>2 DEF TypeInv, StoreOK, StoreType
<1>4. SlotOK' /\ HeldOK'
  BY <1>1, <1>2, SlotStays, HeldStays
<1> QED BY <1>3, <1>4 DEF StoreOK

(* The steps of a report, one lemma for each part of them: the nest flag,  *)
(* ...                                                                     *)
LEMMA ReportStore ==
    ASSUME TypeInv, NEW l \in Tpls, ReportNested(l) \/ ReportBegins(l) \/ ReportEnds(l)
    PROVE  StoreOK'
<1> DEFINE item == Numbered(report[l].item)
           r == [report[l] EXCEPT !.item = item]
<1>1. report[l] \in ReportType /\ report[l].item \in Items
  BY DEF TypeInv, StoreOK, StoreType, ReportType
<1>2. item \in Items
  BY <1>1, NumberedType DEF TypeInv, StoreOK
<1> HIDE DEF item
<1>3. r \in ReportType
  BY <1>1, <1>2 DEF ReportType
<1> HIDE DEF r
<1>4. /\ UNCHANGED << buffers, ring, boot, located >> /\ (Note(l, NoReport) \/ Note(l, r))
      /\ reported' \in {reported, Append(reported, item)} /\ nest' \in {nest, 0, 1}
  BY DEF ReportNested, ReportBegins, ReportEnds, item, r
<1>5. reported' \in Seq(Items) /\ nest' \in 0 .. 1
  <2>1. reported \in Seq(Items) /\ nest \in 0 .. 1
    BY DEF TypeInv, StoreOK, StoreType
  <2>2. Append(reported, item) \in Seq(Items)
    BY <1>2, <2>1
  <2> QED BY <1>4, <2>1, <2>2
<1>7. code[l].pc # "save"
  BY DEF ReportNested, ReportBegins, ReportEnds, At
<1>6. \E s \in ReportType : Note(l, s)
  BY <1>3, <1>4, NoReportType
<1> QED BY <1>4, <1>5, <1>6, <1>7, NotesStore DEF Plain, buffers, boot, TypeInv, StoreOK, StoreType

(* ... a slot of the ring in runtime memory, ...                           *)
LEMMA RingTakesStore ==
    ASSUME TypeInv, NEW l \in Tpls, RingTakes(l)
    PROVE  StoreOK'
<1> DEFINE r == [report[l] EXCEPT !.slot = ring.index]
           g == [ring EXCEPT !.index = ring.index + 1]
<1>1. code[l].pc = "ring" /\ Reporting(l)
  BY DEF RingTakes, At, Reporting, WorkPCs
<1>2. \A k \in Tpls : code[k].pc # "save"
  BY <1>1 DEF TypeInv, Levels, NestOK, Reporting, WorkPCs
<1>3. ring.index \in 0 .. MaxRecords - 1
  <2>1. ring.index \in 0 .. MaxRecords /\ ring.index # MaxRecords
    BY <1>2 DEF TypeInv, StoreOK, StoreType, SlotOK, RingType
  <2> QED BY <2>1, StatusCodeAssumption
<1>4. report[l] \in ReportType /\ ring \in RingType
  BY DEF TypeInv, StoreOK, StoreType
<1>5. r \in ReportType
  BY <1>3, <1>4 DEF ReportType
<1>6. g \in RingType
  <2>1. ring.index + 1 \in 0 .. MaxRecords
    BY <1>3, StatusCodeAssumption
  <2> QED BY <1>4, <2>1, Zenon DEF RingType
<1>7. /\ Note(l, r) /\ ring' = g
      /\ UNCHANGED << nest, located, buffers, boot, reported >>
  BY DEF RingTakes
<1> HIDE DEF r, g
<1>8. PICK p, x, t : Turns(l, p, x, t) /\ p = "save" /\ x # "release"
  BY StatusTurns DEF Plain
<1>9. /\ report' \in [Tpls -> ReportType] /\ \A k \in Tpls : k # l => report'[k] = report[k]
  BY <1>5, <1>7, NoteType DEF TypeInv, StoreOK
<1>10. StoreType'
  BY <1>6, <1>7, <1>9 DEF TypeInv, StoreOK, StoreType, buffers, boot
<1>11. SlotOK'
  BY <1>8 DEF SlotOK, Turns
<1>12. HeldOK'
  BY <1>7, <1>8, <1>9, HeldStays DEF buffers
<1> QED BY <1>10, <1>11, <1>12 DEF StoreOK

(* ... which the record is copied to and the index wrapped, ...            *)
LEMMA RingSavesStore ==
    ASSUME TypeInv, NEW l \in Tpls, RingSaves(l)
    PROVE  StoreOK'
<1> DEFINE slots == [ring.slots EXCEPT ![report[l].slot] = report[l].item]
           index == IF ring.index = MaxRecords THEN 0 ELSE ring.index
           number == ring.number + 1
<1>1. report[l] \in ReportType /\ ring \in RingType
  BY DEF TypeInv, StoreOK, StoreType
<1>2. slots \in SlotsType
  BY <1>1 DEF ReportType, RingType, SlotsType
<1>3. index \in 0 .. MaxRecords /\ number \in Nat /\ index # MaxRecords
  BY <1>1, StatusCodeAssumption DEF RingType
<1>4. /\ ring' = [slots |-> slots, index |-> index, number |-> number]
      /\ UNCHANGED << nest, located, buffers, boot, report, reported >>
  BY DEF RingSaves
<1> HIDE DEF slots, index, number
<1>5. ring' \in RingType /\ ring'.index # MaxRecords
  BY <1>2, <1>3, <1>4 DEF RingType
<1>6. StoreType' /\ SlotOK'
  BY <1>4, <1>5 DEF TypeInv, StoreOK, StoreType, SlotOK, buffers, boot
<1>7. HeldOK'
  <2>1. PICK p, x, t : Turns(l, p, x, t) /\ p # "release" /\ x # "release"
    BY StatusTurns DEF Plain
  <2> QED BY <1>4, <2>1, HeldStays DEF buffers
<1> QED BY <1>6, <1>7 DEF StoreOK

(* The list free grows, or gives its head to the list fifo. *)
LEMMA AcquireStore ==
    ASSUME TypeInv, NEW l \in Tpls, Acquire(l)
    PROVE  StoreOK'
<1> DEFINE r == [report[l] EXCEPT !.buf = Head(free)]
<1>1. code[l].pc # "save" /\ free # << >>
  BY DEF Acquire, At
<1>2. report[l] \in ReportType /\ free \in Seq(DOMAIN pool) /\ fifo \in Seq(DOMAIN pool)
      /\ pool \in Seq(Items)
  BY DEF TypeInv, StoreOK, StoreType
<1>3. Head(free) \in DOMAIN pool /\ Tail(free) \in Seq(DOMAIN pool)
      /\ Append(fifo, Head(free)) \in Seq(DOMAIN pool)
  BY <1>1, <1>2
<1>4. r \in ReportType
  <2>1. Head(free) \in Nat
    BY <1>2, <1>3
  <2> QED BY <1>2, <2>1, Zenon DEF ReportType
<1>5. /\ Note(l, r) /\ free' = Tail(free) /\ fifo' = Append(fifo, Head(free)) /\ pool' = pool
      /\ UNCHANGED << nest, located, ring, boot, reported >>
  BY DEF Acquire
<1> HIDE DEF r
<1>6. free' \in Seq(DOMAIN pool') /\ fifo' \in Seq(DOMAIN pool') /\ pool' \in Seq(Items)
      /\ DOMAIN pool \subseteq DOMAIN pool'
  BY <1>2, <1>3, <1>5
<1> QED BY <1>1, <1>4, <1>5, <1>6, NotesStore DEF Plain, boot, TypeInv, StoreOK, StoreType

(* ... sixteen more buffers when there is none, ...                        *)
LEMMA GrowStore ==
    ASSUME TypeInv, NEW l \in Tpls, Grow(l)
    PROVE  StoreOK'
<1> DEFINE first == Len(pool) + 1
           fresh == [j \in 1 .. Batch |-> NoItem]
           more == [j \in 1 .. Batch - 1 |-> first + j]
           r == [report[l] EXCEPT !.buf = first]
<1>1. code[l].pc # "save"
  BY DEF Grow, At
<1>2. report[l] \in ReportType /\ free \in Seq(DOMAIN pool) /\ fifo \in Seq(DOMAIN pool)
      /\ pool \in Seq(Items) /\ Len(pool) \in Nat
  BY DEF TypeInv, StoreOK, StoreType
<1>3. fresh \in Seq(Items) /\ Len(fresh) = Batch
  BY NoCallType, StatusCodeAssumption
<1>4. /\ Note(l, r) /\ pool' = pool \o fresh /\ free' = free \o more /\ fifo' = Append(fifo, first)
      /\ UNCHANGED << nest, located, ring, boot, reported >>
  BY DEF Grow
<1>5. r \in ReportType
  <2>1. first \in Nat
    BY <1>2
  <2> QED BY <1>2, <2>1, Zenon DEF ReportType
<1> HIDE DEF fresh, r
<1>6. pool' \in Seq(Items) /\ DOMAIN pool' = 1 .. Len(pool) + Batch /\ DOMAIN pool = 1 .. Len(pool)
  <2>1. pool \o fresh \in Seq(Items) /\ Len(pool \o fresh) = Len(pool) + Len(fresh)
    BY <1>2, <1>3, ConcatProperties
  <2> QED BY <1>2, <1>3, <1>4, <2>1
<1>7. DOMAIN pool \subseteq DOMAIN pool' /\ first \in DOMAIN pool'
  BY <1>2, <1>6, StatusCodeAssumption
<1>8. more \in Seq(DOMAIN pool')
  BY <1>2, <1>6, StatusCodeAssumption
<1> HIDE DEF first, more
<1>9. free \in Seq(DOMAIN pool') /\ fifo \in Seq(DOMAIN pool')
  BY <1>2, <1>7
<1>10. free' \in Seq(DOMAIN pool') /\ fifo' \in Seq(DOMAIN pool')
  BY <1>4, <1>7, <1>8, <1>9
<1> QED BY <1>1, <1>4, <1>5, <1>6, <1>7, <1>10, NotesStore DEF Plain, boot, TypeInv, StoreOK, StoreType

(* ... what is put in a buffer: the data stays that of the earlier use     *)
(* when the report has none, ...                                           *)
LEMMA FilledType ==
    ASSUME NEW old \in Items, NEW item \in Items
    PROVE  /\ Filled(old, item) \in Items /\ Filled(old, item).id = item.id
           /\ Filled(old, item).class = item.class
           /\ item.data # 0 => Filled(old, item).data = item.data
<1> DEFINE d == IF item.data = 0 THEN old.data ELSE item.data
<1>1. d \in Nat
  BY DEF Items
<1>2. Filled(old, item) = [item EXCEPT !.data = d]
  BY DEF Filled, Items
<1>3. item.data # 0 => d = item.data
  OBVIOUS
<1> HIDE DEF d
<1>4. [item EXCEPT !.data = d] \in Items /\ [item EXCEPT !.data = d].id = item.id
      /\ [item EXCEPT !.data = d].class = item.class /\ [item EXCEPT !.data = d].data = d
  BY <1>1 DEF Items
<1> QED BY <1>2, <1>3, <1>4

(* ... and the buffer filled.                                              *)
LEMMA FillStore ==
    ASSUME TypeInv, NEW l \in Tpls, Fill(l)
    PROVE  StoreOK'
<1> DEFINE b == report[l].buf
           g == Filled(pool[b], report[l].item)
<1>1. code[l].pc # "save"
  BY DEF Fill, At
<1>2. pool' = [pool EXCEPT ![b] = g]
      /\ UNCHANGED << nest, located, fifo, free, ring, boot, report, reported >>
  BY DEF Fill
<1>3. pool \in Seq(Items) /\ report[l] \in ReportType
  BY DEF TypeInv, StoreOK, StoreType
<1>4. report[l].item \in Items
  BY <1>3 DEF ReportType
<1>5. b \in DOMAIN pool => g \in Items
  BY <1>3, <1>4, FilledType
<1> HIDE DEF b, g
<1>6. pool' \in Seq(Items) /\ DOMAIN pool' = DOMAIN pool
  <2>1. CASE b \in DOMAIN pool
    BY <1>2, <1>3, <1>5, <2>1
  <2>2. CASE b \notin DOMAIN pool
    <3>1. pool' = pool
      BY <1>2, <1>3, <2>2
    <3> QED BY <1>3, <3>1
  <2> QED BY <2>1, <2>2
<1>7. fifo' \in Seq(DOMAIN pool') /\ free' \in Seq(DOMAIN pool')
  BY <1>2, <1>6 DEF TypeInv, StoreOK, StoreType
<1>8. NoReport \in ReportType
  BY NoReportType
<1> QED BY <1>1, <1>2, <1>6, <1>7, <1>8, NotesStore DEF Plain, boot, TypeInv, StoreOK, StoreType

(* The drain takes the first buffer of the queue, ...                      *)
LEMMA DrainRetrievesStore ==
    ASSUME TypeInv, NEW l \in Tpls, DrainRetrieves(l)
    PROVE  StoreOK'
<1> DEFINE r == [report[l] EXCEPT !.buf = Head(fifo)]
<1>1. fifo # << >> /\ l = Callback
  BY DEF DrainRetrieves, At, TypeInv, Levels, Frames, FrameOK, DrainPCs
<1>2. report[l] \in ReportType /\ fifo \in Seq(DOMAIN pool) /\ pool \in Seq(Items)
  BY DEF TypeInv, StoreOK, StoreType
<1>3. Head(fifo) \in DOMAIN pool /\ Tail(fifo) \in Seq(DOMAIN pool)
  BY <1>1, <1>2
<1>4. r \in ReportType /\ r.buf = Head(fifo)
  BY <1>2, <1>3 DEF ReportType
<1>5. /\ Note(l, r) /\ fifo' = Tail(fifo)
      /\ UNCHANGED << nest, located, pool, free, ring, boot, reported >>
  BY DEF DrainRetrieves
<1> HIDE DEF r
<1>6. report' \in [Tpls -> ReportType] /\ report'[l] = r
  BY <1>4, <1>5, NoteType DEF TypeInv, StoreOK
<1>7. StoreType'
  BY <1>3, <1>5, <1>6 DEF TypeInv, StoreOK, StoreType, boot
<1>8. SlotOK'
  <2>1. code[l].pc = "drain" /\ Call(l, "log", "release")
    BY DEF DrainRetrieves, At
  <2>2. Turns(l, "log", "release", code[l].tpl)
    BY <2>1, CallTurns DEF TypeInv, Levels, PCs, Rets
  <2> QED BY <1>5, <2>1, <2>2, SlotStays
<1>9. HeldOK'
  BY <1>1, <1>3, <1>4, <1>5, <1>6 DEF HeldOK
<1> QED BY <1>7, <1>8, <1>9 DEF StoreOK

(* ... and puts it back on the free list.                                  *)
LEMMA DrainReleasesStore ==
    ASSUME TypeInv, NEW l \in Tpls, DrainReleases(l)
    PROVE  StoreOK'
<1>1. code[l].pc = "release" /\ l = Callback
  BY DEF DrainReleases, At, TypeInv, Levels, Frames, FrameOK, DrainPCs
<1>2. report[l].buf \in DOMAIN pool
  BY <1>1 DEF TypeInv, StoreOK, HeldOK, Held
<1>3. free' = Append(free, report[l].buf) /\ Note(l, NoReport)
      /\ UNCHANGED << nest, located, pool, fifo, ring, boot, reported >>
  BY DEF DrainReleases
<1>4. free' \in Seq(DOMAIN pool')
  BY <1>2, <1>3 DEF TypeInv, StoreOK, StoreType
<1> QED BY <1>1, <1>3, <1>4, NoReportType, NotesStore DEF Plain, boot, TypeInv, StoreOK, StoreType

(* A report is made.                                                       *)
LEMMA AskStore ==
    ASSUME TypeInv, NEW l \in Tpls, NEW q \in Reports, AskReport(l, q) \/ HandlerReports(l, q)
    PROVE  StoreOK'
<1> DEFINE item == Item(q)
           r == [NoReport EXCEPT !.item = item]
<1>1. item \in Items
  BY NoCallType, StatusCodeAssumption DEF Item, Items, NoItem
<1> HIDE DEF item
<1>2. r \in ReportType
  BY <1>1, NoReportType DEF ReportType
<1>3. Note(l, r) /\ code[l].pc # "save"
      /\ UNCHANGED << nest, located, buffers, ring, boot, reported >>
  BY DEF AskReport, HandlerReports, CanStart, Below, Active, At, item, Tpls
<1> HIDE DEF r
<1> QED BY <1>2, <1>3, NotesStore DEF Counted, buffers, boot, TypeInv, StoreOK, StoreType

(* A record of the PEI phase is handed on.                                 *)
LEMMA ReplayStore ==
    ASSUME TypeInv, NEW l \in Tpls, ReplayRecord(l)
    PROVE  StoreOK'
<1> DEFINE item == hob.slots[replayed]
           r == [NoReport EXCEPT !.item = item]
<1>1. hob \in HobType /\ replayed \in 0 .. MaxRecords
  BY DEF TypeInv, StoreOK, StoreType
<1>2. replayed < MaxRecordNumber /\ MaxRecordNumber \in Nat /\ MaxRecordNumber <= MaxRecords
  BY <1>1, StatusCodeAssumption DEF ReplayRecord, MaxRecordNumber, HobType
<1>3. replayed \in 0 .. MaxRecords - 1 /\ replayed + 1 \in 0 .. MaxRecords
  BY <1>1, <1>2, StatusCodeAssumption
<1>4. item \in Items
  BY <1>1, <1>3 DEF HobType, SlotsType
<1> HIDE DEF item
<1>5. r \in ReportType
  BY <1>4, NoReportType DEF ReportType
<1>6. Note(l, r) /\ code[l].pc # "save" /\ replayed' = replayed + 1
      /\ UNCHANGED << nest, located, buffers, ring, hubUp, phase, hob, reported >>
  BY DEF ReplayRecord, At, item
<1> HIDE DEF r
<1> QED BY <1>3, <1>5, <1>6, NotesStore DEF Plain, buffers, TypeInv, StoreOK, StoreType

(* The other steps change flags, or nothing. *)
LEMMA FlagsStore ==
    ASSUME TypeInv, NEW l \in Tpls,
           \/ HubRefuses(l) \/ HubTakes(l) \/ AcquireRefused(l) \/ GrowFails(l) \/ SignalLog(l)
           \/ DrainBegins(l) \/ DrainEmpty(l) \/ DrainEnds(l) \/ ReplayEnds(l)
    PROVE  StoreOK'
<1>1. UNCHANGED << nest, buffers, ring, hubUp, hob, replayed, report, reported >>
      /\ located' \in {located, TRUE} /\ phase' \in {phase, "boot"}
  BY DEF HubRefuses, HubTakes, AcquireRefused, GrowFails, SignalLog, DrainBegins,
     DrainEmpty, DrainEnds,
     ReplayEnds, rest, boot
<1>2. code[l].pc # "save"
  BY DEF HubRefuses, HubTakes, AcquireRefused, GrowFails, SignalLog, DrainBegins,
     DrainEmpty, DrainEnds,
     ReplayEnds, At
<1>3. Plain(l) \/ Counted(l, 0)
  BY DEF Plain, Counted
<1> QED BY <1>1, <1>2, <1>3, NoReportType, NotesStore DEF buffers, TypeInv, StoreOK, StoreType

(* The drain starts.                                                       *)
LEMMA NotifyLogStore ==
    ASSUME TypeInv, NotifyLog
    PROVE  StoreOK'
<1>1. Callback \in Tpls /\ code[Callback].pc = "idle" /\ UNCHANGED rest
  BY DEF NotifyLog, Below, Active, Tpls, Application, Callback, High
<1>2. Turns(Callback, "begin", "idle", Callback)
  BY <1>1, StartTurns DEF NotifyLog, TypeInv, Levels, PCs
<1>3. StoreType'
  BY <1>1 DEF TypeInv, StoreOK, StoreType, rest, buffers, boot
<1>4. SlotOK' /\ HeldOK'
  BY <1>1, <1>2, SlotStays, HeldStays DEF rest, buffers
<1> QED BY <1>3, <1>4 DEF StoreOK

(* The steps around the levels: the driver starts, PEI reports, the data   *)
(* hub is installed, boot services end.                                    *)
LEMMA BootStore ==
    ASSUME TypeInv,
           \/ StartDriver \/ ExitBootServices \/ DataHubInstall
           \/ \E class \in Classes : PeiReport(class)
    PROVE  StoreOK'
<1>1. CASE StartDriver
  <2>1. Application \in Tpls /\ code[Application].pc = "idle" /\ UNCHANGED << report, pool, ring >>
    BY <1>1 DEF StartDriver, CanStart, Below, Active, Tpls, Application, High, buffers
  <2>2. Turns(Application, "replay", "idle", Application)
    BY <1>1, <2>1, StartTurns DEF StartDriver, TypeInv, Levels, PCs
  <2>3. StoreType'
    BY <1>1 DEF StartDriver, TypeInv, StoreOK, StoreType, buffers
  <2>4. SlotOK' /\ HeldOK'
    BY <2>1, <2>2, SlotStays, HeldStays
  <2> QED BY <2>3, <2>4 DEF StoreOK
<1>2. CASE ExitBootServices \/ DataHubInstall
  <2>1. StoreType'
    BY <1>2 DEF ExitBootServices, DataHubInstall, TypeInv, StoreOK, StoreType, buffers
  <2>2. UNCHANGED << code, ring, report, pool >>
    BY <1>2 DEF ExitBootServices, DataHubInstall, buffers
  <2> QED BY <2>1, <2>2 DEF TypeInv, StoreOK, SlotOK, HeldOK, Held
<1>3. ASSUME NEW class \in Classes, PeiReport(class)
      PROVE  StoreOK'
  <2> DEFINE fresh == [NoItem EXCEPT !.class = class]
             item == Numbered(fresh)
             index == hob.index + 1
             slots == [hob.slots EXCEPT ![hob.index] = item]
             i == IF index = MaxRecords THEN 0 ELSE index
             packet == IF index = MaxRecords THEN hob.packet + 1 ELSE hob.packet
  <2>1. fresh \in Items
    BY DEF NoItem, Items
  <2>2. item \in Items
    BY <2>1, NumberedType DEF TypeInv, StoreOK
  <2> HIDE DEF fresh, item
  <2>3. hob \in HobType
    BY DEF TypeInv, StoreOK, StoreType
  <2>4. slots \in SlotsType
    BY <2>2, <2>3 DEF HobType, SlotsType
  <2>5. i \in 0 .. MaxRecords - 1 /\ packet \in Nat
    BY <2>3, StatusCodeAssumption DEF HobType
  <2>6. /\ hob' = [slots |-> slots, index |-> i, packet |-> packet]
        /\ reported' = Append(reported, item)
        /\ UNCHANGED << code, nest, located, buffers, ring, hubUp, phase, replayed, report >>
    BY <1>3 DEF PeiReport, fresh, item
  <2> HIDE DEF slots, i, packet
  <2>7. hob' \in HobType /\ reported' \in Seq(Items)
    BY <2>2, <2>4, <2>5, <2>6 DEF HobType, TypeInv, StoreOK, StoreType
  <2> QED BY <2>6, <2>7 DEF TypeInv, StoreOK, StoreType, SlotOK, HeldOK, Held, buffers
<1> QED BY <1>1, <1>2, <1>3

-----------------------------------------------------------------------------
(* The steps of Next, by what they do to the data hub. *)
LEMMA Steps ==
    ASSUME Next
    PROVE  \/ UNCHANGED rest /\ HubAction
           \/ \E l \in Tpls : Plain(l)
           \/ \E l \in Tpls : DrainRetrieves(l)
           \/ \E l \in Tpls : GrowFails(l)
           \/ \E l \in Tpls, q \in Reports : AskReport(l, q) \/ HandlerReports(l, q)
           \/ NotifyLog \/ StartDriver \/ ExitBootServices \/ DataHubInstall
           \/ \E class \in Classes : PeiReport(class)
<1>1. CASE Booting
  BY <1>1 DEF Booting
<1>2. CASE Asked
  BY <1>2 DEF Asked, HubAsked, HubAction
<1>3. CASE Work
  <2>1. CASE Notified
    BY <2>1 DEF Notified, HubAction
  <2>2. ASSUME NEW l \in Tpls, ReplayRecord(l) \/ ReplayEnds(l) \/ ReportStep(l) \/ DrainStep(l)
        PROVE  Plain(l) \/ DrainRetrieves(l) \/ GrowFails(l)
    BY <2>2 DEF ReportStep, DrainStep, Plain
  <2>3. ASSUME NEW l \in Tpls, HubStep(l) /\ UNCHANGED rest
        PROVE  UNCHANGED rest /\ HubAction
    BY <2>3 DEF HubAction
  <2> QED BY <1>3, <2>1, <2>2, <2>3 DEF Work
<1> QED BY <1>1, <1>2, <1>3 DEF Next

(* The invariant holds at first, ...                                       *)
LEMMA TypeInvInit == Init => TypeInv
<1> SUFFICES ASSUME Init PROVE TypeInv
  OBVIOUS
<1>1. \A l \in Tpls : code[l] = Idle(l) /\ Idle(l) \in CodeType /\ Idle(l).pc = "idle"
                      /\ Idle(l).ret = "idle" /\ Idle(l).tpl = l
  BY DEF Init, TplInit, Idle, CodeType, PCs
<1>2. Frames
  BY <1>1 DEF Frames, FrameOK, Init, TplInit, WorkPCs, ReportPCs, HubPCs, LogPCs, DrainPCs,
     Critical
<1>3. Callback \in Tpls /\ Application \in Tpls
  BY DEF Tpls, Application, Callback, High
<1>4. Levels
  BY <1>1, <1>2, <1>3 DEF Levels, NestOK, PhaseOK, DrainOK, FillOK, Drains, Reporting, Init,
     WorkPCs,
     ReportPCs
<1>5. HubType
  <2>1. left \in LeftType /\ pending \subseteq Events
    BY StatusCodeAssumption DEF Init, LeftType, TplInit
  <2>2. count \in Nat /\ records \in Seq(RecordType) /\ nodes \in Seq(NodeType)
        /\ filters \in Seq(DOMAIN nodes)
    BY DEF Init, HubInit
  <2>3. call \in [Tpls -> CallType] /\ seen \in [Filters -> SUBSET Nat]
    BY NoCallType DEF Init, HubInit
  <2> QED BY <2>1, <2>2, <2>3 DEF HubType
<1>6. LinksOK /\ CallOK /\ LockOK
  <2>1. nodes = << >> /\ locked = FALSE /\ \A l \in Tpls : call[l].at = 0
    BY DEF Init, HubInit, NoCall
  <2>2. \A l \in Tpls : code[l].pc = "idle" /\ code[l].ret = "idle"
    BY <1>1
  <2>3. LinksOK /\ CallOK
    BY <2>1, <2>2 DEF LinksOK, CallOK
  <2>4. LockOK
    BY <2>1, <2>2 DEF LockOK, Critical
  <2> QED BY <2>3, <2>4
<1>7. Ring.slots \in SlotsType
  BY NoCallType DEF Ring, SlotsType
<1>8. Ring \in RingType /\ Hob \in HobType /\ Ring.index # MaxRecords
  <2>1. 0 \in 0 .. MaxRecords /\ 0 \in 0 .. MaxRecords - 1 /\ 0 # MaxRecords
    BY StatusCodeAssumption
  <2> QED BY <1>7, <2>1 DEF Ring, Hob, RingType, HobType
<1>9. StoreType
  <2>1. pool \in Seq(Items) /\ fifo \in Seq(DOMAIN pool) /\ free \in Seq(DOMAIN pool)
        /\ reported \in Seq(Items)
    BY DEF Init
  <2>2. report \in [Tpls -> ReportType]
    BY NoReportType DEF Init
  <2>3. replayed \in 0 .. MaxRecords
    BY StatusCodeAssumption DEF Init
  <2>4. nest \in 0 .. 1 /\ ring = Ring /\ hob = Hob
        /\ phase \in {"pei", "replay", "boot", "runtime"}
    BY DEF Init
  <2>5. hubUp \in BOOLEAN /\ located \in BOOLEAN
    BY Zenon DEF Init
  <2> QED BY <1>8, <2>1, <2>2, <2>3, <2>4, <2>5 DEF StoreType
<1>10. SlotOK /\ HeldOK
  BY <1>1, <1>3, <1>8 DEF SlotOK, HeldOK, Held, Init
<1> QED BY <1>4, <1>5, <1>6, <1>9, <1>10 DEF TypeInv, HubOK, StoreOK

(* ... every step keeps it, ...                                            *)
LEMMA TypeInvNext == TypeInv /\ [Next]_vars => TypeInv'
<1> SUFFICES ASSUME TypeInv, [Next]_vars PROVE TypeInv'
  OBVIOUS
<1>1. CASE UNCHANGED rest /\ HubAction
  BY <1>1, HubActionMoves, HubActionStore DEF TypeInv
<1>2. ASSUME NEW l \in Tpls, Plain(l) PROVE TypeInv'
  <2>1. Levels' /\ HubOK'
    BY <1>2, PlainMoves
  <2>2. StoreOK'
    BY <1>2, ReportStore, RingTakesStore, RingSavesStore, AcquireStore, GrowStore, FillStore,
       DrainReleasesStore, ReplayStore, FlagsStore DEF Plain
  <2> QED BY <2>1, <2>2 DEF TypeInv
<1>3. ASSUME NEW l \in Tpls, DrainRetrieves(l) PROVE TypeInv'
  BY <1>3, DrainRetrievesMoves, DrainRetrievesStore DEF TypeInv
<1>4. ASSUME NEW l \in Tpls, GrowFails(l) PROVE TypeInv'
  BY <1>4, CountedMoves, FlagsStore DEF TypeInv
<1>5. ASSUME NEW l \in Tpls, NEW q \in Reports, AskReport(l, q) \/ HandlerReports(l, q)
      PROVE  TypeInv'
  BY <1>5, CountedMoves, AskStore DEF TypeInv
<1>6. CASE NotifyLog
  BY <1>6, NotifyLogMoves, NotifyLogStore DEF TypeInv
<1>7. CASE StartDriver \/ ExitBootServices \/ DataHubInstall \/ \E class \in Classes : PeiReport(class)
  BY <1>7, StartDriverMoves, BootMoves, BootStore DEF TypeInv
<1>8. CASE UNCHANGED vars
  <2>1. UNCHANGED << code, pending, hub, call, left, rest >>
    BY <1>8 DEF vars
  <2>2. Levels'
    BY <2>1 DEF TypeInv, Levels, Frames, FrameOK, NestOK, PhaseOK, DrainOK, FillOK, Drains,
       Reporting, rest, boot
  <2>3. HubOK'
    BY <2>1 DEF TypeInv, HubOK, HubType, LinksOK, CallOK, LockOK, hub
  <2>4. StoreOK'
    BY <2>1 DEF TypeInv, StoreOK, StoreType, SlotOK, HeldOK, Held, rest, buffers, boot
  <2> QED BY <2>2, <2>3, <2>4 DEF TypeInv
<1> QED BY <1>1, <1>2, <1>3, <1>4, <1>5, <1>6, <1>7, <1>8, Steps

(* ... and so it holds always.                                             *)
LEMMA TypeInvHolds == Spec => []TypeInv
  BY TypeInvInit, TypeInvNext, PTL DEF Spec

(* Every variable of the data hub and of the status code driver keeps its  *)
(* type: indices stay within the ring, every position in the queue and in  *)
(* the free list names a buffer, and the two flags stay 0 or 1, whatever   *)
(* interrupts what.                                                        *)
THEOREM TypeCorrect == Spec => []TypeOK
<1>1. TypeInv => TypeOK
  <2> SUFFICES ASSUME TypeInv PROVE TypeOK
    OBVIOUS
  <2>1. code \in [Tpls -> CodeType] /\ logging \in 0 .. 1
    BY DEF TypeInv, Levels, Frames, DrainOK
  <2>2. HubType /\ locked \in BOOLEAN /\ StoreType
    BY DEF TypeInv, HubOK, LockOK, StoreOK
  <2> QED BY <2>1, <2>2, Zenon DEF TypeOK, HubType, StoreType, LeftType, RecordType, NodeType,
     RingType, HobType, ReportType
<1> QED BY <1>1, TypeInvHolds, PTL

(* While level k is in the critical section, which is at Notify, nothing   *)
(* runs above it but what Notify does not keep out.                        *)
Stacked ==
    \A k, l \in Tpls : code[k].pc \in Critical /\ Active(l) => l <= k \/ l > Notify

(* A step of the running level, or of a level that starts above it, keeps  *)
(* the critical section on top.                                            *)
LEMMA StackMoves ==
    ASSUME TypeInv, Stacked, NEW l \in Tpls, \A k \in Tpls : k # l => code'[k] = code[k],
           Runs(l) \/ (Below(l) /\ code'[l].pc \notin Critical)
    PROVE  Stacked'
<1> SUFFICES ASSUME NEW j \in Tpls, NEW k \in Tpls, code'[j].pc \in Critical, code'[k].pc # "idle"
             PROVE  k <= j \/ k > Notify
  BY DEF Stacked, Active
<1>1. CASE j = l
  <2>1. k # l => ~(k > l)
    BY <1>1 DEF Runs, Active
  <2> QED BY <1>1, <2>1 DEF Tpls, Application, High
<1>2. CASE j # l /\ k # l
  BY <1>2 DEF Stacked, Active
<1>3. CASE j # l /\ k = l
  <2>1. CASE Runs(l)
    BY <1>3, <2>1 DEF Stacked, Active, Runs
  <2>2. CASE Below(l)
    <3>1. code[j].pc \in Critical /\ code[j].tpl = Notify
      BY <1>3 DEF TypeInv, Levels, Frames, FrameOK
    <3>2. j < l
      BY <1>3, <2>2, <3>1 DEF Below, Active, Critical, Tpls, Application, High
    <3> QED BY <1>3, <2>2, <3>1, <3>2 DEF Below
  <2> QED BY <2>1, <2>2
<1> QED BY <1>1, <1>2, <1>3

(* Whoever is in the critical section of the data hub is interrupted only  *)
(* by levels above Notify: EfiAcquireLock raised the priority.             *)
LEMMA StackedHolds == Spec => []Stacked
<1>1. Init => Stacked
  BY DEF Init, TplInit, Idle, Stacked, Critical
<1>2. TypeInv /\ Stacked /\ [Next]_vars => Stacked'
  <2> SUFFICES ASSUME TypeInv, Stacked, [Next]_vars PROVE Stacked'
    OBVIOUS
  <2> USE DEF At
  <2>0. code \in [Tpls -> CodeType]
    BY DEF TypeInv, Levels, Frames
  <2>1. CASE HubAction
    <3>1. ASSUME NEW l \in Tpls, HubStep(l)
          PROVE  Runs(l) /\ \A k \in Tpls : k # l => code'[k] = code[k]
      <4>1. CASE LogAcquire(l) \/ LogNoMemory(l) \/ LogNumber(l) \/ LogInsert(l) \/ LogNext(l) \/ LogSignal(l)
        BY <2>0, <4>1 DEF LogAcquire, LogNoMemory, LogNumber, LogInsert, LogNext, LogSignal,
           Goto, Lock, Unlock, End, Back
      <4>2. CASE ReadFails(l) \/ ReadFinds(l) \/ ReadStores(l) \/ ReadGoesOn(l)
        BY <2>0, <4>2 DEF ReadFails, ReadFinds, ReadStores, ReadGoesOn, Reading, Goto, End,
           Back
      <4>3. CASE \/ RegisterFinds(l) \/ RegisterLinks(l) \/ RegisterSignals(l)
                 \/ UnregisterFinds(l) \/ UnregisterUnlinks(l)
        BY <2>0, <4>3 DEF RegisterFinds, RegisterLinks, RegisterSignals, UnregisterFinds,
           UnregisterUnlinks, Goto, End, Back
      <4> QED BY <3>1, <4>1, <4>2, <4>3 DEF HubStep
    <3>2. ASSUME NEW l \in Tpls, NEW p \in {"log", "register", "unregister", "read"}, Start(l, p)
          PROVE  code'[l].pc \notin Critical /\ \A k \in Tpls : k # l => code'[k] = code[k]
      BY <2>0, <3>2 DEF Start, Idle, Critical
    <3>3. ASSUME NEW l \in Tpls, \/ \E class \in Logs : AskLog(l, class)
                                 \/ \E e \in Filters : AskRegister(l, e) \/ AskUnregister(l, e)
          PROVE  Below(l) /\ \E p \in {"log", "register", "unregister", "read"} : Start(l, p)
      BY <3>3 DEF AskLog, AskRegister, AskUnregister, CanStart
    <3>4. ASSUME NEW l \in Tpls, HandlerUnregisters(l)
          PROVE  Runs(l) /\ \A k \in Tpls : k # l => code'[k] = code[k]
      BY <2>0, <3>4 DEF HandlerUnregisters, Goto
    <3>5. ASSUME NEW e \in Filters, NotifyFilter(e)
          PROVE  /\ Below(EventTpl[e]) /\ EventTpl[e] \in Tpls
                 /\ \E p \in {"log", "register", "unregister", "read"} : Start(EventTpl[e], p)
      BY <3>5, EventTplAssumption, FiltersAssumption DEF NotifyFilter, Tpls, Application,
         Callback, Notify, High
    <3> QED BY <2>1, <3>1, <3>2, <3>3, <3>4, <3>5, StackMoves DEF HubAction
  <2>2. ASSUME NEW l \in Tpls, Plain(l) \/ DrainRetrieves(l) \/ GrowFails(l)
        PROVE  Stacked'
    <3>1. Runs(l)
      BY <2>2 DEF Plain, ReportNested, ReportBegins, RingTakes, RingSaves, HubRefuses,
         HubTakes,
         Acquire, AcquireRefused, Grow, Fill, SignalLog, ReportEnds, DrainBegins,
            DrainReleases,
         DrainEmpty, DrainEnds, ReplayRecord, ReplayEnds, DrainRetrieves, GrowFails
    <3>2. Step(l) \/ Call(l, "log", "release")
      BY <2>2, PlainSteps DEF DrainRetrieves, GrowFails, Step, WorkPCs
    <3>3. \A k \in Tpls : k # l => code'[k] = code[k]
      BY <2>0, <3>2 DEF Step, Goto, Back, Start, Call
    <3> QED BY <3>1, <3>3, StackMoves
  <2>3. ASSUME NEW l \in Tpls, NEW q \in Reports, AskReport(l, q) \/ HandlerReports(l, q)
        PROVE  Stacked'
    BY <2>0, <2>3, StackMoves DEF AskReport, HandlerReports, CanStart, Start, Call, Idle,
       Critical
  <2>4. CASE NotifyLog \/ StartDriver
    <3>1. PICK l \in Tpls : Below(l) /\ (Start(l, "begin") \/ Start(l, "replay"))
      BY <2>4 DEF NotifyLog, StartDriver, CanStart, Tpls, Application, Callback, High
    <3> QED BY <2>0, <3>1, StackMoves DEF Start, Idle, Critical
  <2>5. CASE \/ ExitBootServices \/ DataHubInstall \/ UNCHANGED vars
             \/ \E class \in Classes : PeiReport(class)
    BY <2>5 DEF ExitBootServices, DataHubInstall, PeiReport, vars, Stacked, Active
  <2> QED BY <2>1, <2>2, <2>3, <2>4, <2>5, Steps
<1> QED BY <1>1, <1>2, TypeInvHolds, PTL DEF Spec

(* The lock of the data hub is never found held: code in the critical      *)
(* section runs at Notify, and no code that takes the lock runs above it.  *)
THEOREM LockCorrect == Spec => []LockNeverHeld
<1>1. TypeInv /\ Stacked => LockNeverHeld
  <2> SUFFICES ASSUME TypeInv, Stacked, NEW l \in Tpls, Runs(l),
                      code[l].pc \in {"log", "link", "unlink"}, locked
               PROVE  FALSE
    BY DEF LockNeverHeld
  <2>1. PICK k \in Tpls : code[k].pc \in Critical
    BY DEF TypeInv, HubOK, LockOK
  <2>2. k # l /\ l <= Notify
    BY <2>1 DEF Critical, TypeInv, Levels, Frames, FrameOK, HubPCs, LogPCs
  <2>3. ~(k > l)
    BY <2>1 DEF Runs, Active, Critical
  <2>4. l <= k \/ l > Notify
    BY <2>1 DEF Stacked, Active
  <2> QED BY <2>2, <2>3, <2>4 DEF Tpls, Application, High, Notify
<1> QED BY <1>1, TypeInvHolds, StackedHolds, PTL

-----------------------------------------------------------------------------
(* A step in the data hub: one level's, which keeps the item that it logs; *)
(* it takes a count, inserts a record, or does neither.                    *)
HubEffect(l) ==
    /\ \A k \in Tpls : k # l => code'[k] = code[k] /\ call'[k] = call[k]
    /\ call'[l].status => call[l].status /\ call'[l].item = call[l].item
    /\ \/ LogNumber(l) /\ code'[l].pc = "insert" /\ call'[l].mtc = count'
       \/ LogInsert(l) /\ code'[l].pc # "insert"
       \/ records' = records /\ count' = count /\ code'[l].pc # "insert"

(* The actions of the data hub, by the level that takes the step.          *)
HubActionAt(l) ==
    \/ HubStep(l)
    \/ \E class \in Logs : AskLog(l, class)
    \/ \E e \in Filters : AskRegister(l, e) \/ AskUnregister(l, e)
    \/ HandlerUnregisters(l)
    \/ \E e \in Filters : l = EventTpl[e] /\ NotifyFilter(e)

(* A step writes the local call of its own level, ...                      *)
LEMMA LocalsEffect ==
    ASSUME TypeInv, NEW l \in Tpls, NEW c, Locals(l, c) \/ (c = call[l] /\ call' = call)
    PROVE  call'[l] = c /\ \A k \in Tpls : k # l => call'[k] = call[k]
  BY DEF TypeInv, HubOK, HubType, Locals

(* ... and the place of its own level.                                     *)
LEMMA CodeEffect ==
    ASSUME TypeInv, NEW l \in Tpls, NEW p,
           Goto(l, p) \/ Lock(l, p) \/ Unlock(l, p) \/ Start(l, p) \/ (Back(l) /\ p =
              code[l].ret)
    PROVE  code'[l].pc = p /\ \A k \in Tpls : k # l => code'[k] = code[k]
  BY DEF TypeInv, Levels, Frames, CodeType, Goto, Lock, Unlock, Start, Back, Idle

(* What a step of the data hub may do to records and counts: a function    *)
(* that ends does nothing, ...                                             *)
LEMMA EndEffect ==
    ASSUME TypeInv, NEW l \in Tpls, End(l), records' = records, count' = count
    PROVE  HubEffect(l)
<1>1. code'[l].pc = code[l].ret /\ \A k \in Tpls : k # l => code'[k] = code[k]
  BY CodeEffect DEF End
<1>2. code[l].ret # "insert"
  BY DEF TypeInv, Levels, Frames, CodeType
<1>3. call'[l] = NoCall /\ \A k \in Tpls : k # l => call'[k] = call[k]
  BY LocalsEffect DEF End, Locals
<1>4. NoCall.status = FALSE
  BY Zenon DEF NoCall
<1> QED BY <1>1, <1>2, <1>3, <1>4 DEF HubEffect

(* Code goes on to place p with locals c. *)
LEMMA GoesOnEffect ==
    ASSUME TypeInv, NEW l \in Tpls, NEW p, NEW c, p # "insert",
           Goto(l, p) \/ Lock(l, p) \/ Unlock(l, p) \/ Start(l, p),
           Locals(l, c) \/ (c = call[l] /\ call' = call),
           c.status => call[l].status /\ c.item = call[l].item,
           (records' = records /\ count' = count) \/ LogInsert(l)
    PROVE  HubEffect(l)
<1>1. code'[l].pc = p /\ \A k \in Tpls : k # l => code'[k] = code[k]
  BY CodeEffect
<1>2. call'[l] = c /\ \A k \in Tpls : k # l => call'[k] = call[k]
  BY LocalsEffect
<1> QED BY <1>1, <1>2 DEF HubEffect

(* ... and so each of them numbers a record, inserts it, or leaves both    *)
(* alone.                                                                  *)
LEMMA HubEffects ==
    ASSUME TypeInv, HubAction
    PROVE  \E l \in Tpls : HubEffect(l) /\ HubActionAt(l)
<1> USE DEF hub
<1>0. \A l \in Tpls : call[l] \in CallType
  BY DEF TypeInv, HubOK, HubType
<1>1. ASSUME NEW l \in Tpls, HubStep(l) PROVE HubEffect(l)
  <2>1. CASE LogAcquire(l)
    BY <2>1, EndEffect, GoesOnEffect DEF LogAcquire
  <2>2. CASE LogNoMemory(l)
    BY <2>2, EndEffect DEF LogNoMemory
  <2>3. CASE LogNumber(l)
    <3> DEFINE c == [call[l] EXCEPT !.mtc = count + 1]
    <3>1. Goto(l, "insert") /\ Locals(l, c) /\ count' = count + 1
      BY <2>3 DEF LogNumber
    <3>2. c.mtc = count + 1 /\ c.status = call[l].status /\ c.item = call[l].item
      BY <1>0, Zenon DEF CallType
    <3> HIDE DEF c
    <3>3. code'[l].pc = "insert" /\ \A k \in Tpls : k # l => code'[k] = code[k]
      BY <3>1, CodeEffect
    <3>4. call'[l] = c /\ \A k \in Tpls : k # l => call'[k] = call[k]
      BY <3>1, LocalsEffect
    <3> QED BY <2>3, <3>1, <3>2, <3>3, <3>4 DEF HubEffect
  <2>4. CASE LogInsert(l)
    <3> DEFINE c == [call[l] EXCEPT !.at = 0]
    <3>1. c.status = call[l].status /\ c.item = call[l].item
      BY <1>0, Zenon DEF CallType
    <3>2. Locals(l, c) /\ Unlock(l, "next")
      BY <2>4 DEF LogInsert
    <3> HIDE DEF c
    <3> QED BY <2>4, <3>1, <3>2, GoesOnEffect
  <2>5. CASE LogNext(l)
    <3> DEFINE n == ForwardLink(call[l].at)
               c == [call[l] EXCEPT !.at = n]
    <3>1. c.status = call[l].status /\ c.item = call[l].item
      BY <1>0, Zenon DEF CallType
    <3>2. records' = records /\ count' = count /\ (End(l) \/ (Locals(l, c) /\ Goto(l, "walk")))
      BY <2>5 DEF LogNext
    <3> HIDE DEF n, c
    <3> QED BY <3>1, <3>2, EndEffect, GoesOnEffect
  <2>6. CASE LogSignal(l)
    BY <2>6, GoesOnEffect DEF LogSignal
  <2>7. CASE ReadFails(l)
    BY <2>7, EndEffect DEF ReadFails
  <2>8. CASE ReadFinds(l)
    <3> DEFINE n == FindFilterDriverByEvent(call[l].ev)
               again == call[l].mtc = 0 /\ nodes[n].next # 0
               c == [call[l] EXCEPT !.at = n, !.rec = Found(l, n).rec, !.mtc = Found(l, n).next,
                                    !.again = again]
    <3>1. Locals(l, c) /\ Goto(l, "store") /\ records' = records /\ count' = count
      BY <2>8 DEF ReadFinds
    <3> HIDE DEF n, again
    <3>2. c.status = call[l].status /\ c.item = call[l].item
      BY <1>0, Zenon DEF CallType
    <3> HIDE DEF c
    <3> QED BY <3>1, <3>2, GoesOnEffect
  <2>9. CASE ReadStores(l)
    <3> DEFINE after == GetNextDataRecord(ClassesOf[call[l].ev], call[l].mtc)
               moved == call[l].again /\ call[l].mtc # 0
               returned == IF moved THEN after.rec ELSE call[l].rec
               mtc == IF moved THEN after.next ELSE call[l].mtc
               c == [call[l] EXCEPT !.rec = returned, !.mtc = mtc]
    <3>1. Locals(l, c) /\ Goto(l, "got") /\ records' = records /\ count' = count
      BY <2>9 DEF ReadStores
    <3> HIDE DEF returned, mtc
    <3>2. c.status = call[l].status /\ c.item = call[l].item
      BY <1>0, Zenon DEF CallType
    <3> HIDE DEF c
    <3> QED BY <3>1, <3>2, GoesOnEffect
  <2>10. CASE ReadGoesOn(l)
    BY <2>10, EndEffect, GoesOnEffect DEF ReadGoesOn
  <2>11. CASE RegisterFinds(l)
    BY <2>11, EndEffect, GoesOnEffect DEF RegisterFinds
  <2>12. CASE RegisterLinks(l)
    BY <2>12, GoesOnEffect DEF RegisterLinks
  <2>13. CASE RegisterSignals(l)
    BY <2>13, EndEffect DEF RegisterSignals
  <2>14. CASE UnregisterFinds(l)
    <3> DEFINE n == FindFilterDriverByEvent(call[l].ev)
               c == [call[l] EXCEPT !.at = n]
    <3>1. c.status = call[l].status /\ c.item = call[l].item
      BY <1>0, Zenon DEF CallType
    <3>2. records' = records /\ count' = count /\ (End(l) \/ (Locals(l, c) /\ Goto(l, "unlink")))
      BY <2>14 DEF UnregisterFinds
    <3> HIDE DEF n, c
    <3> QED BY <3>1, <3>2, EndEffect, GoesOnEffect
  <2>15. CASE UnregisterUnlinks(l)
    BY <2>15, EndEffect DEF UnregisterUnlinks
  <2> QED BY <1>1, <2>1, <2>2, <2>3, <2>4, <2>5, <2>6, <2>7, <2>8, <2>9, <2>10, <2>11, <2>12, <2>13,
             <2>14, <2>15 DEF HubStep
<1>2. ASSUME NEW l \in Tpls, NEW class \in Logs, AskLog(l, class) PROVE HubEffect(l)
  <2> DEFINE c == [NoCall EXCEPT !.item.class = class]
  <2>1. c.status = FALSE
    BY Zenon DEF NoCall
  <2>2. Locals(l, c) /\ Start(l, "log") /\ records' = records /\ count' = count
    BY <1>2 DEF AskLog
  <2> HIDE DEF c
  <2> QED BY <2>1, <2>2, GoesOnEffect
<1>3. ASSUME NEW l \in Tpls, NEW e \in Filters, NEW p \in {"register", "unregister", "read"},
             Locals(l, [NoCall EXCEPT !.ev = e]), Start(l, p), records' = records, count' =
                count
      PROVE  HubEffect(l)
  <2> DEFINE c == [NoCall EXCEPT !.ev = e]
  <2>1. c.status = FALSE /\ Locals(l, c)
    BY <1>3, Zenon DEF NoCall
  <2> HIDE DEF c
  <2> QED BY <1>3, <2>1, GoesOnEffect
<1>4. ASSUME NEW l \in Tpls, NEW e \in Filters, AskRegister(l, e) \/ AskUnregister(l, e)
      PROVE  HubEffect(l)
  BY <1>3, <1>4 DEF AskRegister, AskUnregister
<1>5. ASSUME NEW l \in Tpls, HandlerUnregisters(l) PROVE HubEffect(l)
  BY <1>5, GoesOnEffect DEF HandlerUnregisters
<1>6. ASSUME NEW e \in Filters, NotifyFilter(e) PROVE HubEffect(EventTpl[e]) /\ EventTpl[e] \in Tpls
  <2>1. EventTpl[e] \in Tpls
    BY EventTplAssumption, FiltersAssumption DEF Tpls, Application, Callback, Notify, High
  <2> QED BY <1>3, <1>6, <2>1 DEF NotifyFilter
<1> QED BY <1>1, <1>2, <1>4, <1>5, <1>6 DEF HubAction, HubActionAt

-----------------------------------------------------------------------------
(* The counts in the log are below the last one, but for that of a record  *)
(* which is about to be inserted: it is the last one, and nobody's yet.    *)
CountOK ==
    /\ \A j \in DOMAIN records : records[j].mtc <= count
    /\ \A l \in Tpls : code[l].pc = "insert" =>
          call[l].mtc = count /\ \A j \in DOMAIN records : records[j].mtc < count
    /\ CountsAscend

(* The counts of the records are numbers.                                  *)
LEMMA RecordsNat ==
    ASSUME TypeInv
    PROVE  /\ records \in Seq(RecordType) /\ Len(records) \in Nat /\ count \in Nat
           /\ DOMAIN records = 1 .. Len(records)
           /\ \A j \in DOMAIN records : records[j].mtc \in Nat
<1>1. records \in Seq(RecordType) /\ count \in Nat
  BY DEF TypeInv, HubOK, HubType
<1>2. \A j \in DOMAIN records : records[j] \in RecordType
  BY <1>1
<1>3. \A j \in DOMAIN records : records[j].mtc \in Nat
  BY <1>2 DEF RecordType
<1> QED BY <1>1, <1>3

(* A record is inserted at the tail.                                       *)
LEMMA InsertAppends ==
    ASSUME TypeInv, NEW l \in Tpls, LogInsert(l)
    PROVE  /\ records' = Append(records, LogRecord(l)) /\ count' = count
           /\ DOMAIN records' = 1 .. Len(records) + 1
           /\ records'[Len(records) + 1] = LogRecord(l)
           /\ \A j \in DOMAIN records : records'[j] = records[j]
  BY RecordsNat DEF LogInsert

(* Steps that touch neither list nor count, and bring nobody to the        *)
(* insertion, keep CountOK.                                                *)
LEMMA CountKept ==
    ASSUME TypeInv, CountOK, UNCHANGED << count, records >>,
           \A l \in Tpls : code'[l].pc = "insert" => code[l].pc = "insert" /\ call'[l] = call[l]
    PROVE  CountOK'
  BY DEF CountOK, CountsAscend

(* The steps of the data hub keep CountOK.                                 *)
LEMMA CountHub ==
    ASSUME TypeInv, CountOK, NEW l \in Tpls, HubEffect(l)
    PROVE  CountOK'
<1>1. CASE LogNumber(l) /\ code'[l].pc = "insert" /\ call'[l].mtc = count'
  <2>1. records' = records /\ count' = count + 1 /\ code[l].pc = "number"
    BY <1>1 DEF LogNumber, At
  <2>2. \A k \in Tpls : k # l => code'[k].pc # "insert"
    BY <2>1 DEF HubEffect, TypeInv, HubOK, LockOK, Critical
  <2>3. \A j \in DOMAIN records : records[j].mtc < count'
    BY <2>1, RecordsNat DEF CountOK
  <2>4. CountsAscend'
    BY <2>1 DEF CountOK, CountsAscend
  <2>5. \A j \in DOMAIN records' : records'[j].mtc <= count'
    BY <2>1, <2>3, RecordsNat
  <2> QED BY <1>1, <2>1, <2>2, <2>3, <2>4, <2>5 DEF CountOK
<1>2. CASE LogInsert(l) /\ code'[l].pc # "insert"
  <2>1. code[l].pc = "insert"
    BY <1>2 DEF LogInsert, At
  <2>2. LogRecord(l).mtc = count /\ \A j \in DOMAIN records : records[j].mtc < count
    BY <2>1 DEF CountOK, LogRecord
  <2>3. \A k \in Tpls : code'[k].pc # "insert"
    BY <1>2, <2>1 DEF HubEffect, TypeInv, HubOK, LockOK, Critical
  <2>4. CountsAscend'
    BY <1>2, <2>2, InsertAppends, RecordsNat DEF CountOK, CountsAscend
  <2>5. \A j \in DOMAIN records' : records'[j].mtc <= count'
    BY <1>2, <2>2, InsertAppends, RecordsNat
  <2> QED BY <2>3, <2>4, <2>5 DEF CountOK
<1>3. CASE records' = records /\ count' = count /\ code'[l].pc # "insert"
  BY <1>3, CountKept DEF HubEffect
<1> QED BY <1>1, <1>2, <1>3 DEF HubEffect

(* What a step of the status code driver leaves of the data hub. *)
LEMMA StatusEffect ==
    ASSUME TypeInv, Next, ~HubAction
    PROVE  /\ UNCHANGED << count, records >>
           /\ \A k \in Tpls : code'[k].pc \in LogPCs =>
                 \/ code[k].pc = code'[k].pc /\ call'[k] = call[k]
                 \/ DrainRetrieves(k) /\ code'[k].pc = "log"
<1>1. Frames /\ \A k \in Tpls : code[k].ret \notin LogPCs
  BY DEF TypeInv, Levels, Frames, CodeType, LogPCs
<1>2. ASSUME NEW l \in Tpls, Step(l)
      PROVE  \A k \in Tpls : code'[k].pc \in LogPCs => code[k].pc = code'[k].pc
  <2>1. CASE \E p \in WorkPCs \cup {"drain", "end"} : Goto(l, p)
    BY <1>1, <2>1, GotoTurns DEF Turns, WorkPCs, LogPCs, PCs
  <2>2. CASE Back(l)
    BY <1>1, <2>2, BackTurns DEF Turns
  <2>3. CASE \E p \in {"report", "begin", "replay"} : Start(l, p)
    BY <1>1, <2>3, StartTurns DEF Turns, LogPCs, PCs
  <2>4. CASE Call(l, "report", "got") \/ Call(l, "ring", "replay")
    BY <1>1, <2>4, CallTurns DEF Turns, LogPCs, PCs, Rets
  <2> QED BY <1>2, <2>1, <2>2, <2>3, <2>4 DEF Step
<1>3. ASSUME NEW l \in Tpls, Plain(l) \/ GrowFails(l)
      PROVE  Step(l) /\ UNCHANGED << hub, call >>
  BY <1>3, PlainSteps DEF GrowFails, Step, WorkPCs
<1>4. ASSUME NEW l \in Tpls, NEW q \in Reports, AskReport(l, q) \/ HandlerReports(l, q)
      PROVE  Step(l) /\ UNCHANGED << hub, call >>
  BY <1>4 DEF AskReport, HandlerReports, Step, At
<1>5. CASE NotifyLog \/ StartDriver
  <2>1. \E l \in Tpls : Step(l)
    BY <1>5 DEF NotifyLog, StartDriver, Step, Tpls, Application, Callback, High
  <2>2. UNCHANGED << hub, call >>
    BY <1>5 DEF NotifyLog, StartDriver
  <2> QED BY <1>2, <2>1, <2>2 DEF hub
<1>6. CASE ExitBootServices \/ DataHubInstall \/ \E class \in Classes : PeiReport(class)
  BY <1>6 DEF ExitBootServices, DataHubInstall, PeiReport, hub
<1>7. ASSUME NEW l \in Tpls, DrainRetrieves(l)
      PROVE  /\ UNCHANGED hub /\ code'[l].pc = "log"
             /\ \A k \in Tpls : k # l => code'[k] = code[k] /\ call'[k] = call[k]
  <2>1. Call(l, "log", "release") /\ UNCHANGED hub
    BY <1>7 DEF DrainRetrieves
  <2>2. \A k \in Tpls : k # l => call'[k] = call[k]
    BY <1>7 DEF DrainRetrieves, Locals, TypeInv, HubOK, HubType
  <2> QED BY <1>1, <2>1, <2>2, CallTurns DEF Turns, PCs, Rets
<1>8. CASE \E l \in Tpls : Plain(l) \/ GrowFails(l)
  BY <1>2, <1>3, <1>8 DEF hub
<1>9. CASE \E l \in Tpls, q \in Reports : AskReport(l, q) \/ HandlerReports(l, q)
  BY <1>2, <1>4, <1>9 DEF hub
<1>10. CASE \E l \in Tpls : DrainRetrieves(l)
  BY <1>7, <1>10 DEF hub
<1> QED BY <1>5, <1>6, <1>8, <1>9, <1>10, Steps

(* CountOK is inductive.                                                   *)
LEMMA CountHolds == Spec => []CountOK
<1>1. Init => CountOK
  BY DEF Init, HubInit, TplInit, Idle, CountOK, CountsAscend
<1>2. TypeInv /\ CountOK /\ [Next]_vars => CountOK'
  <2> SUFFICES ASSUME TypeInv, CountOK, [Next]_vars PROVE CountOK'
    OBVIOUS
  <2>1. CASE HubAction
    BY <2>1, HubEffects, CountHub
  <2>2. CASE Next /\ ~HubAction
    <3>1. \A l \in Tpls : code'[l].pc = "insert" => code[l].pc = "insert" /\ call'[l] = call[l]
      BY <2>2, StatusEffect DEF LogPCs
    <3> QED BY <2>2, <3>1, StatusEffect, CountKept
  <2>3. CASE UNCHANGED vars
    BY <2>3, CountKept DEF vars, hub
  <2> QED BY <2>1, <2>2, <2>3
<1> QED BY <1>1, <1>2, TypeInvHolds, PTL DEF Spec

(* The log is in ascending order of the counts: the count is taken and the *)
(* record inserted in one critical section.                                *)
THEOREM CountCorrect == Spec => []CountsAscend
<1>1. CountOK => CountsAscend
  BY DEF CountOK
<1> QED BY <1>1, CountHolds, PTL

-----------------------------------------------------------------------------
(* The steps of reports and of the replay, aside from the notify function. *)
Aside(l, q) ==
    \/ ReportStep(l) \/ ReplayRecord(l) \/ ReplayEnds(l)
    \/ q \in Reports /\ (AskReport(l, q) \/ HandlerReports(l, q))

(* The steps of reports leave the drain alone.                             *)
LEMMA AsideKeeps ==
    ASSUME TypeInv, NEW l \in Tpls, NEW q, Aside(l, q)
    PROVE  /\ Held' <=> Held
           /\ Draining' <=> Draining
           /\ Held => report'[Callback] = report[Callback]
           /\ code[l].pc \in ReportPCs \cup {"replay", "idle", "got"}
           /\ \A k \in Tpls : k # l => code'[k] = code[k] /\ report'[k] = report[k]
<1>1. Plain(l) \/ Counted(l, q)
  BY DEF Aside, Plain, Counted, ReportStep
<1>2. code[l].pc \in ReportPCs \cup {"replay", "idle", "got"}
  BY DEF Aside, ReportStep, ReportNested, ReportBegins, RingTakes, RingSaves, HubRefuses,
     HubTakes,
     Acquire, AcquireRefused, GrowFails, Grow, Fill, SignalLog, ReportEnds, ReplayRecord,
        ReplayEnds,
     AskReport, HandlerReports, At, CanStart, Below, Active, WorkPCs, ReportPCs, Tpls
<1>3. PICK p, r, t : /\ Turns(l, p, r, t) /\ p # "release" /\ r # "release"
                     /\ p \in {"begin", "drain"} => code[l].pc \in DrainPCs
  BY <1>1, StatusTurns
<1>4. p \notin {"begin", "drain", "release"}
  BY <1>2, <1>3 DEF WorkPCs, ReportPCs, DrainPCs
<1>5. code[l].pc \notin DrainPCs /\ code[l].ret # "release"
  BY <1>2 DEF TypeInv, Levels, Frames, FrameOK, WorkPCs, ReportPCs, DrainPCs, LogPCs
<1>6. \A k \in Tpls : k # l => report'[k] = report[k]
  <2>1. \/ report' = report \/ \E x : Note(l, x)
    BY DEF Aside, ReportStep, ReportNested, ReportBegins, RingTakes, RingSaves, HubRefuses,
       HubTakes,
       Acquire, AcquireRefused, GrowFails, Grow, Fill, SignalLog, ReportEnds, ReplayRecord,
          ReplayEnds,
       AskReport, HandlerReports, rest
  <2> QED BY <2>1 DEF Note, TypeInv, StoreOK, StoreType
<1>7. CASE l = Callback
  BY <1>2, <1>3, <1>4, <1>5, <1>6, <1>7 DEF Held, Draining, Turns, DrainPCs
<1>8. CASE l # Callback
  BY <1>2, <1>3, <1>6, <1>8 DEF Held, Draining, Turns, Tpls, Application, Callback, High
<1> QED BY <1>7, <1>8

(* What the notify function of the log does to its own place. *)
LEMMA DrainTurns ==
    ASSUME TypeInv, NEW l \in Tpls, DrainStep(l)
    PROVE  /\ l = Callback /\ code[Callback].ret = "idle" /\ Runs(l)
           /\ \A k \in Tpls : k # l => code'[k] = code[k]
           /\ DrainBegins(l) => code'[l].pc = "drain" /\ code'[l].ret = "idle"
           /\ DrainRetrieves(l) => code'[l].pc = "log" /\ code'[l].ret = "release"
           /\ DrainReleases(l) => code'[l].pc = "drain" /\ code'[l].ret = "idle"
           /\ DrainEmpty(l) => code'[l].pc = "end" /\ code'[l].ret = "idle"
           /\ DrainEnds(l) => code'[l].pc = "idle" /\ code'[l].ret = "idle"
<1>1. code[l].pc \in DrainPCs /\ Runs(l) /\ Frames
  BY DEF DrainStep, DrainBegins, DrainRetrieves, DrainReleases, DrainEmpty, DrainEnds, At,
     DrainPCs,
     TypeInv, Levels
<1>2. l = Callback /\ code[l].ret = "idle"
  BY <1>1 DEF Frames, FrameOK, CodeType, WorkPCs, ReportPCs, HubPCs, LogPCs, DrainPCs
<1>3. DrainBegins(l) => logging = 0
  BY <1>2 DEF DrainBegins, At, TypeInv, Levels, DrainOK, Drains
<1>4. CASE DrainRetrieves(l)
  <2>1. Call(l, "log", "release") /\ code[l].pc = "drain"
    BY <1>4 DEF DrainRetrieves, At
  <2>2. ~DrainBegins(l) /\ ~DrainReleases(l) /\ ~DrainEmpty(l) /\ ~DrainEnds(l)
    BY <1>4 DEF DrainRetrieves, DrainBegins, DrainReleases, DrainEmpty, DrainEnds, At
  <2>3. Turns(l, "log", "release", code[l].tpl)
    BY <1>1, <2>1, CallTurns DEF PCs, Rets
  <2> QED BY <1>1, <1>2, <2>2, <2>3 DEF Turns
<1>5. CASE DrainEnds(l)
  <2>1. Back(l) /\ code[l].pc = "end"
    BY <1>5 DEF DrainEnds, At
  <2> QED BY <1>1, <1>2, <2>1, BackTurns DEF Turns, DrainBegins, DrainReleases, DrainEmpty, DrainRetrieves, At
<1>6. CASE DrainBegins(l)
  <2>1. Goto(l, "drain") /\ code[l].pc = "begin"
    BY <1>3, <1>6 DEF DrainBegins, At
  <2> QED BY <1>1, <1>2, <2>1, GotoTurns DEF Turns, PCs, DrainReleases, DrainEmpty, DrainRetrieves, DrainEnds, At
<1>7. CASE DrainReleases(l)
  <2>1. Goto(l, "drain") /\ code[l].pc = "release"
    BY <1>7 DEF DrainReleases, At
  <2> QED BY <1>1, <1>2, <2>1, GotoTurns DEF Turns, PCs, DrainBegins, DrainEmpty, DrainRetrieves, DrainEnds, At
<1>8. CASE DrainEmpty(l)
  <2>1. Goto(l, "end") /\ code[l].pc = "drain" /\ fifo = << >>
    BY <1>8 DEF DrainEmpty, At
  <2> QED BY <1>1, <1>2, <2>1, GotoTurns DEF Turns, PCs, DrainBegins, DrainReleases, DrainRetrieves, DrainEnds, At
<1> QED BY <1>4, <1>5, <1>6, <1>7, <1>8 DEF DrainStep

(* The steps of the system, by who takes them.                             *)
LEMMA NextCases ==
    ASSUME Next
    PROVE  \/ UNCHANGED rest /\ HubAction
           \/ \E l \in Tpls : DrainStep(l)
           \/ \E l \in Tpls : \E q : Aside(l, q)
           \/ NotifyLog \/ StartDriver \/ ExitBootServices \/ DataHubInstall
           \/ \E class \in Classes : PeiReport(class)
<1>1. ASSUME NEW l \in Tpls, ReportStep(l) \/ ReplayRecord(l) \/ ReplayEnds(l)
      PROVE  Aside(l, 0)
  BY <1>1 DEF Aside
<1>2. ASSUME NEW l \in Tpls, NEW q \in Reports, AskReport(l, q) \/ HandlerReports(l, q)
      PROVE  Aside(l, q)
  BY <1>2 DEF Aside
<1> QED BY <1>1, <1>2 DEF Next, Booting, Asked, HubAsked, HubAction, Work, Notified

-----------------------------------------------------------------------------
(* The log of status codes is signaled by reports and by nobody else. *)
LEMMA HubPending ==
    ASSUME TypeInv, HubAction
    PROVE  LogEvent \in pending => LogEvent \in pending'
<1>1. ASSUME NEW l \in Tpls, HubStep(l) PROVE LogEvent \in pending => LogEvent \in pending'
  BY <1>1 DEF HubStep, LogAcquire, LogNoMemory, LogNumber, LogInsert, LogNext, LogSignal,
     ReadFails,
     ReadFinds, ReadStores, ReadGoesOn, RegisterFinds, RegisterLinks, RegisterSignals,
     UnregisterFinds, UnregisterUnlinks, Signal
<1>2. ASSUME NEW l \in Tpls,
             \/ \E class \in Logs : AskLog(l, class)
             \/ \E e \in Filters : AskRegister(l, e) \/ AskUnregister(l, e)
             \/ HandlerUnregisters(l)
      PROVE  pending' = pending
  BY <1>2 DEF AskLog, AskRegister, AskUnregister, HandlerUnregisters
<1>3. ASSUME NEW e \in Filters, NotifyFilter(e)
      PROVE  LogEvent \in pending => LogEvent \in pending'
  BY <1>3, StatusCodeAssumption DEF NotifyFilter
<1> QED BY <1>1, <1>2, <1>3 DEF HubAction

(* The data hub leaves the drain and the reports where they are.           *)
LEMMA HubKeepsDraining ==
    ASSUME RestKept
    PROVE  /\ Draining' <=> Draining
           /\ \A k \in Tpls : code[k].pc \in {"fill", "signal"} => code'[k].pc = code[k].pc
<1>1. Callback \in Tpls
  BY DEF Tpls, Application, Callback, High
<1> QED BY <1>1 DEF RestKept, Draining, Held, ReportPCs, WorkPCs

(* A step that queues a buffer, or ends the drain, leaves somebody to      *)
(* serve the queue.                                                        *)
LEMMA StrandedNext ==
    ASSUME TypeInv, NothingStranded, [Next]_vars
    PROVE  NothingStranded'
<1> SUFFICES ASSUME fifo' # << >>, LogEvent \notin pending', ~Draining'
             PROVE  \E l \in Tpls : code'[l].pc \in {"fill", "signal"}
  BY DEF NothingStranded
<1>0. Callback \in Tpls
  BY DEF Tpls, Application, Callback, High
<1>1. CASE UNCHANGED rest /\ HubAction
  <2>1. RestKept /\ fifo' = fifo
    BY <1>1, HubActionMoves DEF TypeInv, rest, buffers
  <2> QED BY <1>1, <2>1, HubPending, HubKeepsDraining DEF NothingStranded
<1>2. ASSUME NEW l \in Tpls, NEW q, Aside(l, q)
      PROVE  \E k \in Tpls : code'[k].pc \in {"fill", "signal"}
  <2>1. ~Draining /\ \A k \in Tpls : k # l => code'[k] = code[k]
    BY <1>2, AsideKeeps
  <2>2. CASE Acquire(l) \/ Grow(l) \/ Fill(l)
    <3>1. code'[l].pc \in {"fill", "signal"}
      BY <2>2, CodeEffect DEF Acquire, Grow, Fill
    <3> QED BY <3>1
  <2>3. CASE SignalLog(l)
    BY <2>3 DEF SignalLog, Signal
  <2>4. CASE ~Acquire(l) /\ ~Grow(l) /\ ~Fill(l) /\ ~SignalLog(l)
    <3>1. fifo' = fifo /\ pending' = pending /\ code[l].pc \notin {"fill", "signal"}
      BY <1>2, <2>4 DEF Aside, ReportStep, ReportNested, ReportBegins, RingTakes, RingSaves,
         HubRefuses, HubTakes, AcquireRefused, GrowFails, ReportEnds, ReplayRecord, ReplayEnds,
         AskReport, HandlerReports, At, CanStart, Below, Active, rest, buffers, Tpls
    <3> QED BY <2>1, <3>1 DEF NothingStranded
  <2> QED BY <2>2, <2>3, <2>4
<1>3. ASSUME NEW l \in Tpls, DrainStep(l)
      PROVE  \E k \in Tpls : code'[k].pc \in {"fill", "signal"}
  <2>1. l = Callback /\ code[l].ret = "idle" /\ \A k \in Tpls : k # l => code'[k] = code[k]
    BY <1>3, DrainTurns
  <2>2. ~DrainBegins(l) /\ ~DrainRetrieves(l) /\ ~DrainReleases(l)
    BY <1>3, <2>1, DrainTurns DEF Draining
  <2>3. ~DrainEmpty(l)
    BY DEF DrainEmpty, rest, buffers
  <2>4. code[l].pc = "end" /\ fifo' = fifo /\ pending' = pending
    BY <1>3, <2>2, <2>3 DEF DrainStep, DrainEnds, At, buffers
  <2> QED BY <2>1, <2>4 DEF NothingStranded, Draining
<1>4. CASE NotifyLog
  <2>1. code'[Callback].pc = "begin"
    BY <1>0, <1>4, CodeEffect DEF NotifyLog
  <2> QED BY <2>1 DEF Draining
<1>5. CASE StartDriver
  <2>1. UNCHANGED << fifo, pending >> /\ Application \in Tpls /\ code[Application].pc = "idle"
        /\ Application # Callback
    BY <1>5 DEF StartDriver, buffers, CanStart, Below, Active, Tpls, Application, Callback,
       High
  <2>2. \A k \in Tpls : k # Application => code'[k] = code[k]
    BY <1>5, <2>1, CodeEffect DEF StartDriver
  <2> QED BY <1>0, <2>1, <2>2 DEF NothingStranded, Draining
<1>6. CASE \/ ExitBootServices \/ DataHubInstall \/ UNCHANGED vars
           \/ \E class \in Classes : PeiReport(class)
  <2>1. UNCHANGED << code, pending, fifo >>
    BY <1>6 DEF ExitBootServices, DataHubInstall, PeiReport, buffers, rest, vars
  <2> QED BY <2>1 DEF NothingStranded, Draining
<1> QED BY <1>1, <1>2, <1>3, <1>4, <1>5, <1>6, NextCases

(* A queued record is not forgotten: the queue is never left with records  *)
(* in it and nobody on the way to drain it.                                *)
THEOREM QueueServed == Spec => []NothingStranded
<1>1. Init => NothingStranded
  BY DEF Init, NothingStranded
<1>2. TypeInv /\ NothingStranded /\ [Next]_vars => NothingStranded'
  BY StrandedNext
<1> QED BY <1>1, <1>2, TypeInvHolds, PTL DEF Spec

-----------------------------------------------------------------------------
(* The buffers in the lists, and the one that is held. *)
Elements(s) == {s[j] : j \in DOMAIN s}
(* The buffer the drain has taken and not put back.                        *)
InHands == IF Held THEN {report[Callback].buf} ELSE {}
(* BuffersOwned in terms of the sets of positions and the lengths of the   *)
(* two lists.                                                              *)
Owned ==
    /\ Elements(fifo) \cup Elements(free) \cup InHands = DOMAIN pool
    /\ Len(fifo) + Len(free) + (IF Held THEN 1 ELSE 0) = Len(pool)

(* The elements of a concatenation, ...                                    *)
LEMMA ElementsConcat ==
    ASSUME NEW S, NEW s \in Seq(S), NEW t \in Seq(S)
    PROVE  Elements(s \o t) = Elements(s) \cup Elements(t)
<1>1. /\ s \o t \in Seq(S) /\ Len(s \o t) = Len(s) + Len(t)
      /\ \A i \in 1 .. Len(s) + Len(t) : (s \o t)[i] = IF i <= Len(s) THEN s[i] ELSE t[i - Len(s)]
  BY ConcatProperties
<1> DEFINE u == s \o t
<1>2. u \in Seq(S) /\ Len(u) = Len(s) + Len(t)
      /\ \A i \in 1 .. Len(s) + Len(t) : u[i] = IF i <= Len(s) THEN s[i] ELSE t[i - Len(s)]
  BY <1>1
<1> HIDE DEF u
<1>3. DOMAIN u = 1 .. Len(s) + Len(t) /\ DOMAIN s = 1 .. Len(s) /\ DOMAIN t = 1 .. Len(t)
      /\ Len(s) \in Nat /\ Len(t) \in Nat
  BY <1>2
<1>4. \A i \in DOMAIN u : u[i] \in Elements(s) \cup Elements(t)
  <2> SUFFICES ASSUME NEW i \in DOMAIN u PROVE u[i] \in Elements(s) \cup Elements(t)
    OBVIOUS
  <2>1. CASE i <= Len(s)
    BY <1>2, <1>3, <2>1 DEF Elements
  <2>2. CASE ~(i <= Len(s))
    <3>1. i - Len(s) \in DOMAIN t /\ u[i] = t[i - Len(s)]
      BY <1>2, <1>3, <2>2
    <3> QED BY <3>1 DEF Elements
  <2> QED BY <2>1, <2>2
<1>5. \A i \in DOMAIN s : s[i] \in Elements(u)
  <2> SUFFICES ASSUME NEW i \in DOMAIN s PROVE s[i] \in Elements(u)
    OBVIOUS
  <2>1. i \in DOMAIN u /\ u[i] = s[i]
    BY <1>2, <1>3
  <2> QED BY <2>1 DEF Elements
<1>6. \A i \in DOMAIN t : t[i] \in Elements(u)
  <2> SUFFICES ASSUME NEW i \in DOMAIN t PROVE t[i] \in Elements(u)
    OBVIOUS
  <2>1. i + Len(s) \in DOMAIN u /\ u[i + Len(s)] = t[i]
    BY <1>2, <1>3
  <2> QED BY <2>1 DEF Elements
<1>7. Elements(u) = Elements(s) \cup Elements(t)
  BY <1>4, <1>5, <1>6 DEF Elements
<1> QED BY <1>7 DEF u

(* ... of a list with one more at its end, ...                             *)
LEMMA ElementsAppend ==
    ASSUME NEW S, NEW s \in Seq(S), NEW x \in S
    PROVE  Elements(Append(s, x)) = Elements(s) \cup {x} /\ Len(Append(s, x)) = Len(s) + 1
<1> DEFINE u == Append(s, x)
<1>1. u \in Seq(S) /\ Len(u) = Len(s) + 1 /\ u[Len(s) + 1] = x
      /\ \A i \in 1 .. Len(s) : u[i] = s[i]
  OBVIOUS
<1> HIDE DEF u
<1>2. DOMAIN u = 1 .. Len(s) + 1 /\ DOMAIN s = 1 .. Len(s) /\ Len(s) \in Nat
  BY <1>1
<1>3. Elements(u) = Elements(s) \cup {x}
  <2>1. \A i \in DOMAIN u : u[i] \in Elements(s) \cup {x}
    BY <1>1, <1>2 DEF Elements
  <2>2. \A i \in DOMAIN s : s[i] \in Elements(u)
    BY <1>1, <1>2 DEF Elements
  <2>3. x \in Elements(u)
    BY <1>1, <1>2 DEF Elements
  <2> QED BY <2>1, <2>2, <2>3 DEF Elements
<1> QED BY <1>1, <1>3 DEF u

(* ... and of a list without its first.                                    *)
LEMMA ElementsHead ==
    ASSUME NEW S, NEW s \in Seq(S), s # << >>
    PROVE  /\ Elements(s) = {Head(s)} \cup Elements(Tail(s)) /\ Len(Tail(s)) = Len(s) - 1
           /\ Head(s) \in S /\ Tail(s) \in Seq(S)
<1> DEFINE u == Tail(s)
<1>1. /\ Head(s) \in S /\ u \in Seq(S) /\ Len(u) = Len(s) - 1
      /\ \A i \in 1 .. Len(u) : u[i] = s[i + 1]
  BY HeadTailProperties
<1>2. Head(s) = s[1] /\ Len(s) \in Nat \ {0}
  OBVIOUS
<1> HIDE DEF u
<1>3. DOMAIN u = 1 .. Len(s) - 1 /\ DOMAIN s = 1 .. Len(s)
  BY <1>1
<1>4. Elements(s) = {Head(s)} \cup Elements(u)
  <2>1. \A i \in DOMAIN u : u[i] \in Elements(s)
    <3> SUFFICES ASSUME NEW i \in DOMAIN u PROVE u[i] \in Elements(s)
      OBVIOUS
    <3>1. i + 1 \in DOMAIN s /\ u[i] = s[i + 1]
      BY <1>1, <1>2, <1>3
    <3> QED BY <3>1 DEF Elements
  <2>2. \A i \in DOMAIN s : s[i] \in {Head(s)} \cup Elements(u)
    <3> SUFFICES ASSUME NEW i \in DOMAIN s, i # 1 PROVE s[i] \in Elements(u)
      BY <1>2
    <3>1. i - 1 \in DOMAIN u /\ u[i - 1] = s[i]
      BY <1>1, <1>2, <1>3
    <3> QED BY <3>1 DEF Elements
  <2>3. Head(s) \in Elements(s)
    BY <1>2, <1>3 DEF Elements
  <2> QED BY <2>1, <2>2, <2>3 DEF Elements
<1> QED BY <1>1, <1>4 DEF u

(* The two forms say the same.                                             *)
LEMMA OwnedIsOwned ==
    ASSUME TypeInv
    PROVE  Owned <=> BuffersOwned
<1>1. fifo \in Seq(Nat) /\ free \in Seq(Nat) /\ HeldBuffers \in Seq(Nat)
  <2>1. DOMAIN pool \subseteq Nat /\ fifo \in Seq(DOMAIN pool) /\ free \in Seq(DOMAIN pool)
    BY DEF TypeInv, StoreOK, StoreType
  <2>2. report[Callback].buf \in Nat
    <3>1. report[Callback] \in ReportType
      BY DEF TypeInv, StoreOK, StoreType, Tpls, Application, Callback, High
    <3> QED BY <3>1 DEF ReportType
  <2> QED BY <2>1, <2>2 DEF HeldBuffers
<1>2. HeldBuffers = IF Held THEN << report[Callback].buf >> ELSE << >>
  BY DEF HeldBuffers, Held
<1>3. Len(HeldBuffers) = (IF Held THEN 1 ELSE 0) /\ Elements(HeldBuffers) = InHands
  BY <1>2 DEF Elements, InHands
<1> DEFINE h == HeldBuffers
           u == fifo \o free
<1>4. u \in Seq(Nat) /\ Elements(u) = Elements(fifo) \cup Elements(free)
      /\ Len(u) = Len(fifo) + Len(free)
  BY <1>1, ElementsConcat, ConcatProperties
<1> HIDE DEF u
<1>5. Elements(u \o h) = Elements(u) \cup Elements(h) /\ Len(u \o h) = Len(u) + Len(h)
  <2>1. h \in Seq(Nat)
    BY <1>1
  <2> HIDE DEF h
  <2>2. Elements(u \o h) = Elements(u) \cup Elements(h)
    BY <1>4, <2>1, ElementsConcat
  <2>3. Len(u \o h) = Len(u) + Len(h)
    BY <1>4, <2>1, ConcatProperties
  <2> QED BY <2>2, <2>3
<1>6. Places = u \o h
  BY <1>1 DEF Places, u
<1>7. Elements(Places) = Elements(fifo) \cup Elements(free) \cup InHands
      /\ Len(Places) = Len(fifo) + Len(free) + (IF Held THEN 1 ELSE 0)
  BY <1>3, <1>4, <1>5, <1>6
<1>8. BuffersOwned <=> Elements(Places) = DOMAIN pool /\ Len(Places) = Len(pool)
  BY DEF BuffersOwned, Elements
<1> QED BY <1>7, <1>8 DEF Owned

(* Each step that moves a buffer takes it from one owner and gives it to   *)
(* one other.                                                              *)
LEMMA OwnedNext ==
    ASSUME TypeInv, Owned, [Next]_vars
    PROVE  Owned'
<1>0. /\ fifo \in Seq(DOMAIN pool) /\ free \in Seq(DOMAIN pool) /\ pool \in Seq(Items)
      /\ Len(fifo) \in Nat /\ Len(free) \in Nat /\ Len(pool) \in Nat
      /\ report \in [Tpls -> ReportType] /\ Callback \in Tpls
  BY DEF TypeInv, StoreOK, StoreType, Tpls, Application, Callback, High
<1>1. ASSUME Held' <=> Held, Held => report'[Callback] = report[Callback], UNCHANGED buffers
      PROVE  Owned'
  BY <1>1 DEF Owned, InHands, buffers
<1>2. CASE UNCHANGED rest /\ HubAction
  <2>1. RestKept
    BY <1>2, HubActionMoves DEF TypeInv
  <2> QED BY <1>1, <1>2, <2>1 DEF RestKept, rest
<1>3. ASSUME NEW l \in Tpls, NEW q, Aside(l, q)
      PROVE  Owned'
  <2>1. (Held' <=> Held) /\ (Held => report'[Callback] = report[Callback])
    BY <1>3, AsideKeeps
  <2>2. InHands' = InHands
    BY <2>1 DEF InHands
  <2>3. CASE Acquire(l)
    <3>1. free # << >> /\ fifo' = Append(fifo, Head(free)) /\ free' = Tail(free) /\ pool' = pool
      BY <2>3 DEF Acquire
    <3>2. /\ Elements(free) = {Head(free)} \cup Elements(free') /\ Len(free') = Len(free) - 1
          /\ Head(free) \in DOMAIN pool
      BY <1>0, <3>1, ElementsHead
    <3>3. Elements(fifo') = Elements(fifo) \cup {Head(free)} /\ Len(fifo') = Len(fifo) + 1
      BY <1>0, <3>1, <3>2, ElementsAppend
    <3>4. Elements(fifo') \cup Elements(free') \cup InHands' = DOMAIN pool'
      BY <2>2, <3>1, <3>2, <3>3 DEF Owned
    <3>5. Len(fifo') + Len(free') + (IF Held' THEN 1 ELSE 0) = Len(pool')
      BY <1>0, <2>1, <3>1, <3>2, <3>3 DEF Owned
    <3> QED BY <3>4, <3>5 DEF Owned, Elements
  <2>4. CASE Grow(l)
    <3> DEFINE first == Len(pool) + 1
               fresh == [j \in 1 .. Batch |-> NoItem]
               more == [j \in 1 .. Batch - 1 |-> first + j]
    <3>1. pool' = pool \o fresh /\ free' = free \o more /\ fifo' = Append(fifo, first)
      BY <2>4 DEF Grow
    <3>2. fresh \in Seq(Items) /\ Len(fresh) = Batch /\ Batch \in Nat \ {0}
      BY NoCallType, StatusCodeAssumption
    <3>3. more \in Seq(Nat) /\ Len(more) = Batch - 1
      BY <1>0, <3>2
    <3>4. Elements(more) = first + 1 .. first + Batch - 1
      <4>1. \A n \in first + 1 .. first + Batch - 1 :
               n - first \in 1 .. Batch - 1 /\ n = first + (n - first)
        BY <1>0, <3>2
      <4>2. \A j \in 1 .. Batch - 1 : first + j \in first + 1 .. first + Batch - 1
        BY <1>0, <3>2
      <4>3. DOMAIN more = 1 .. Batch - 1 /\ \A j \in 1 .. Batch - 1 : more[j] = first + j
        OBVIOUS
      <4> HIDE DEF first, more
      <4> QED BY <4>1, <4>2, <4>3 DEF Elements
    <3>5. Len(pool') = Len(pool) + Batch /\ DOMAIN pool' = 1 .. Len(pool) + Batch
      <4>1. pool \o fresh \in Seq(Items) /\ Len(pool \o fresh) = Len(pool) + Len(fresh)
        BY <1>0, <3>2, ConcatProperties
      <4> QED BY <3>1, <3>2, <4>1
    <3> HIDE DEF fresh, more
    <3>6. free \in Seq(Nat) /\ fifo \in Seq(Nat) /\ first \in Nat
      BY <1>0
    <3> HIDE DEF first
    <3>7. Elements(free') = Elements(free) \cup Elements(more) /\ Len(free') = Len(free) + Batch - 1
      <4>1. Len(free \o more) = Len(free) + Len(more)
        BY <3>3, <3>6, ConcatProperties
      <4>2. Elements(free \o more) = Elements(free) \cup Elements(more)
        BY <3>3, <3>6, ElementsConcat
      <4> QED BY <1>0, <3>1, <3>2, <3>3, <4>1, <4>2
    <3>8. Elements(fifo') = Elements(fifo) \cup {first} /\ Len(fifo') = Len(fifo) + 1
      BY <3>1, <3>6, ElementsAppend
    <3>9. {first} \cup Elements(more) = Len(pool) + 1 .. Len(pool) + Batch
      BY <1>0, <3>2, <3>4 DEF first
    <3>10. DOMAIN pool' = DOMAIN pool \cup (Len(pool) + 1 .. Len(pool) + Batch)
      BY <1>0, <3>2, <3>5
    <3>11. Elements(fifo') \cup Elements(free') \cup InHands' = DOMAIN pool'
      BY <2>2, <3>7, <3>8, <3>9, <3>10 DEF Owned
    <3>12. Len(fifo') + Len(free') + (IF Held' THEN 1 ELSE 0) = Len(pool')
      <4>1. Len(fifo) + Len(free) + (IF Held THEN 1 ELSE 0) = Len(pool)
        BY DEF Owned
      <4>2. Len(fifo) \in Nat /\ Len(free) \in Nat /\ Len(pool) \in Nat /\ Batch \in Nat
        BY <1>0, <3>2
      <4>3. Len(fifo') = Len(fifo) + 1 /\ Len(free') = Len(free) + Batch - 1
            /\ Len(pool') = Len(pool) + Batch
        BY <3>5, <3>7, <3>8
      <4>4. CASE Held
        BY <2>1, <4>1, <4>2, <4>3, <4>4
      <4>5. CASE ~Held
        BY <2>1, <4>1, <4>2, <4>3, <4>5
      <4> QED BY <4>4, <4>5
    <3> QED BY <3>11, <3>12 DEF Owned, Elements
  <2>5. CASE Fill(l)
    <3>1. UNCHANGED << fifo, free >> /\ DOMAIN pool' = DOMAIN pool /\ Len(pool') = Len(pool)
      <4>1. \E g : pool' = [pool EXCEPT ![report[l].buf] = g]
        BY <2>5 DEF Fill
      <4> QED BY <1>0, <2>5, <4>1 DEF Fill
    <3> QED BY <2>1, <2>2, <3>1 DEF Owned
  <2>6. CASE ~Acquire(l) /\ ~Grow(l) /\ ~Fill(l)
    <3>1. UNCHANGED buffers
      BY <1>3, <2>6 DEF Aside, ReportStep, ReportNested, ReportBegins, RingTakes, RingSaves,
         HubRefuses, HubTakes, AcquireRefused, GrowFails, SignalLog, ReportEnds, ReplayRecord,
         ReplayEnds, AskReport, HandlerReports, rest
    <3> QED BY <1>1, <2>1, <3>1
  <2> QED BY <2>3, <2>4, <2>5, <2>6
<1>4. ASSUME NEW l \in Tpls, DrainStep(l)
      PROVE  Owned'
  <2>1. l = Callback /\ code[l].ret = "idle"
    BY <1>4, DrainTurns
  <2>2. CASE DrainRetrieves(l)
    <3>1. fifo # << >> /\ fifo' = Tail(fifo) /\ UNCHANGED << pool, free >> /\ code[l].pc = "drain"
          /\ Note(l, [report[l] EXCEPT !.buf = Head(fifo)])
      BY <2>2 DEF DrainRetrieves, At
    <3>2. ~Held /\ Held'
      BY <1>4, <2>1, <2>2, <3>1, DrainTurns DEF Held
    <3>3. report'[Callback].buf = Head(fifo)
      BY <1>0, <2>1, <3>1 DEF Note, ReportType
    <3>4. Elements(fifo) = {Head(fifo)} \cup Elements(fifo') /\ Len(fifo') = Len(fifo) - 1
      BY <1>0, <3>1, ElementsHead
    <3>5. Elements(fifo') \cup Elements(free') \cup InHands' = DOMAIN pool'
      BY <3>1, <3>2, <3>3, <3>4 DEF Owned, InHands
    <3>6. Len(fifo') + Len(free') + (IF Held' THEN 1 ELSE 0) = Len(pool')
      BY <1>0, <3>1, <3>2, <3>4 DEF Owned
    <3> QED BY <3>5, <3>6 DEF Owned, Elements
  <2>3. CASE DrainReleases(l)
    <3>1. free' = Append(free, report[l].buf) /\ UNCHANGED << pool, fifo >> /\ code[l].pc = "release"
      BY <2>3 DEF DrainReleases, At
    <3>2. Held /\ ~Held'
      BY <1>4, <2>1, <2>3, <3>1, DrainTurns DEF Held
    <3>3. report[l].buf \in DOMAIN pool
      BY <2>1, <3>2 DEF TypeInv, StoreOK, HeldOK
    <3>4. Elements(free') = Elements(free) \cup {report[l].buf} /\ Len(free') = Len(free) + 1
      BY <1>0, <3>1, <3>3, ElementsAppend
    <3>5. Elements(fifo') \cup Elements(free') \cup InHands' = DOMAIN pool'
      BY <2>1, <3>1, <3>2, <3>4 DEF Owned, InHands
    <3>6. Len(fifo') + Len(free') + (IF Held' THEN 1 ELSE 0) = Len(pool')
      BY <1>0, <3>1, <3>2, <3>4 DEF Owned
    <3> QED BY <3>5, <3>6 DEF Owned, Elements
  <2>4. CASE DrainBegins(l) \/ DrainEmpty(l) \/ DrainEnds(l)
    <3>1. ~Held /\ UNCHANGED buffers
      BY <2>1, <2>4 DEF Held, DrainBegins, DrainEmpty, DrainEnds, At, rest
    <3>2. ~Held'
      BY <1>4, <2>1, <2>4, DrainTurns DEF Held
    <3> QED BY <1>1, <3>1, <3>2
  <2> QED BY <1>4, <2>2, <2>3, <2>4 DEF DrainStep
<1>5. CASE NotifyLog \/ StartDriver
  <2>1. UNCHANGED << buffers, report >>
    BY <1>5 DEF NotifyLog, StartDriver, rest
  <2>2. PICK l \in Tpls : code[l].pc = "idle" /\ \E p \in {"begin", "replay"} : Start(l, p)
    BY <1>5 DEF NotifyLog, StartDriver, CanStart, Below, Active, Tpls, Application,
       Callback, High
  <2>3. PICK p \in {"begin", "replay"} : Turns(l, p, "idle", l)
    BY <2>2, StartTurns DEF TypeInv, Levels, PCs
  <2>4. code[l].ret = "idle"
    BY <2>2 DEF TypeInv, Levels, Frames, FrameOK, CodeType, WorkPCs, ReportPCs, LogPCs
  <2>5. Held' <=> Held
    BY <1>0, <2>2, <2>3, <2>4 DEF Turns, Held
  <2> QED BY <1>1, <2>1, <2>5
<1>6. CASE \/ ExitBootServices \/ DataHubInstall \/ UNCHANGED vars
           \/ \E class \in Classes : PeiReport(class)
  <2>1. UNCHANGED << code, buffers, report >>
    BY <1>6 DEF ExitBootServices, DataHubInstall, PeiReport, rest, vars
  <2> QED BY <1>1, <2>1 DEF Held
<1> QED BY <1>2, <1>3, <1>4, <1>5, <1>6, NextCases

(* Every record buffer is in the FIFO, in the free list or held by the     *)
(* notify function of the log, and in one of them only once.               *)
THEOREM BuffersCorrect == Spec => []BuffersOwned
<1>1. Init => Owned
  BY DEF Init, TplInit, Idle, Owned, Elements, InHands, Held, Tpls, Application, Callback, High
<1>2. TypeInv /\ Owned /\ [Next]_vars => Owned'
  BY OwnedNext
<1>3. TypeInv => (Owned => BuffersOwned)
  BY OwnedIsOwned
<1> QED BY <1>1, <1>2, <1>3, TypeInvHolds, PTL DEF Spec
=============================================================================
