------------------------- MODULE GlueOptimizerModel -------------------------
(***************************************************************************)
(* The aggregate of glue/domain/table_optimizer.py: one table optimizer    *)
(* with its configuration, its schedule and its bounded run history, and   *)
(* the changes its methods make.  A method that raises is a precondition   *)
(* here; GlueOptimizer supplies the transactions around it.                *)
(*                                                                         *)
(* The clock is abstracted to what the schedule compares: a run time is    *)
(* in the past ("due"), in the future ("later") or absent ("none").        *)
(***************************************************************************)
EXTENDS Naturals, Sequences

CONSTANTS
  RunIds,        \* identifiers Uuid generators return; each is used at most once
  HistoryLimit,  \* policy.history_limit
  FailureLimit   \* policy.compaction_failure_limit

ASSUME PolicyAssumption ==
  /\ HistoryLimit \in Nat \ {0}
  /\ FailureLimit \in Nat \ {0}

OptimizerType == {"compaction", "retention", "orphan_file_deletion"}

ActiveRunState   == {"starting", "in_progress"}
TerminalRunState == {"completed", "failed"}

Run == [id : RunIds, state : ActiveRunState \cup TerminalRunState]

Schedule == {"none", "later", "due"}

Optimizer ==
  [type     : OptimizerType \cup {"none"},
   enabled  : BOOLEAN,
   revision : Nat,
   next     : Schedule,
   failures : Nat,
   runs     : Seq(Run)]

\* What a table without an optimizer has.
NoOptimizer ==
  [type |-> "none", enabled |-> FALSE, revision |-> 0, next |-> "none",
   failures |-> 0, runs |-> <<>>]

-----------------------------------------------------------------------------
\* active_run: the last run, unless it is terminal.
HasActiveRun(o) == o.runs # <<>> /\ o.runs[Len(o.runs)].state \in ActiveRunState

IsActiveRun(o, id) == HasActiveRun(o) /\ o.runs[Len(o.runs)].id = id

SetActiveRun(o, state) == [o.runs EXCEPT ![Len(o.runs)].state = state]

NextRun(enabled) == IF enabled THEN "later" ELSE "none"

NewOptimizer(type, enabled) ==
  [type |-> type, enabled |-> enabled, revision |-> 0, next |-> NextRun(enabled),
   failures |-> 0, runs |-> <<>>]

Revise(o, enabled) ==
  [o EXCEPT !.enabled = enabled, !.next = NextRun(enabled),
            !.revision = @ + 1, !.failures = 0]

Mut_UnboundedHistory(runs) == runs

\* runs[-history_limit:]
LastRuns(runs) ==
  IF Len(runs) <= HistoryLimit THEN runs
  ELSE SubSeq(runs, Len(runs) - HistoryLimit + 1, Len(runs))

\* claim of an optimizer that is enabled, due and has no active run.
ClaimRun(o, id) ==
  [o EXCEPT !.runs = LastRuns(Append(@, [id |-> id, state |-> "starting"])),
            !.next = "none"]

MarkInProgress(o) == [o EXCEPT !.runs = SetActiveRun(o, "in_progress")]

CompleteRun(o) ==
  [o EXCEPT !.runs = SetActiveRun(o, "completed"), !.next = "later", !.failures = 0]

\* A compaction that has failed too often in a row is given up.
GivenUp(o) == o.type = "compaction" /\ o.failures + 1 >= FailureLimit

FailRun(o) ==
  [o EXCEPT !.runs = SetActiveRun(o, "failed"),
            !.failures = @ + 1,
            !.enabled = o.enabled /\ ~GivenUp(o),
            !.next = IF GivenUp(o) THEN "none" ELSE "later"]

Mut_UnknownState(o) == [o EXCEPT !.runs = SetActiveRun(o, "cancelled"), !.next = "due"]

Mut_CancelWithoutSchedule(o) == [o EXCEPT !.runs = SetActiveRun(o, "failed")]

\* cancel_active_run of an optimizer that has one: not a failure of the worker.
CancelRun(o) ==
  [o EXCEPT !.runs = SetActiveRun(o, "failed"),
            !.next = IF o.enabled THEN "due" ELSE "none"]

CancelActiveRun(o) == IF HasActiveRun(o) THEN CancelRun(o) ELSE o
=============================================================================
