---------------------------- MODULE MCStatusCode ----------------------------
(***************************************************************************)
(* Levels, filters and budgets for model checking StatusCode.              *)
(***************************************************************************)
EXTENDS StatusCode

CONSTANTS stderr, watcher, log, error, progress

MCEventTpl == [e \in {stderr, watcher, log} |-> IF e = watcher THEN Notify ELSE Callback]
MCClassesOf ==
    [e \in {stderr, watcher} |-> IF e = watcher THEN {error} ELSE {error, progress}]

MCReports == {[class |-> error, data |-> TRUE], [class |-> progress, data |-> FALSE]}

Allow(handoff, reports, logs, registers, unregisters, failures) ==
    [handoff |-> handoff, reports |-> reports, logs |-> logs, registers |-> registers,
     unregisters |-> unregisters, failures |-> failures]
(* Status codes alone, with failures and with buffers reused; with a filter; *)
(* with records of other drivers; these alone; filters that come and go.     *)
Mixed == {Allow(1, 2, 0, 0, 0, 1), Allow(0, 3, 0, 0, 0, 0), Allow(0, 2, 0, 1, 0, 0),
          Allow(0, 1, 1, 1, 0, 0), Allow(0, 0, 3, 1, 0, 0), Allow(0, 0, 1, 2, 1, 0)}
ThreeReports == {Allow(0, 3, 0, 0, 0, 0)}
OneFilter == {Allow(0, 0, 2, 1, 0, 0)}
=============================================================================
