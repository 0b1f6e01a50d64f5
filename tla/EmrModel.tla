------------------------------ MODULE EmrModel ------------------------------
(***************************************************************************)
(* The EMR aggregates of emr/domain/model.py: a cluster with its ordered   *)
(* steps, the two transition tables, and the pure changes the command      *)
(* handlers and the queue driver make to a private copy of an aggregate    *)
(* before they save it.  Nothing here is a state machine yet: EmrCluster   *)
(* supplies the repository, the tasks and the interleavings.               *)
(*                                                                         *)
(* A step is known by its position: RandomAwsIds gives every step a fresh  *)
(* identifier and steps are only ever appended, so position i of one       *)
(* cluster always names the same step.                                     *)
(***************************************************************************)
EXTENDS Naturals, Sequences, FiniteSets

ClusterState ==
  {"STARTING", "BOOTSTRAPPING", "RUNNING", "WAITING",
   "TERMINATING", "TERMINATED", "TERMINATED_WITH_ERRORS"}

StepState ==
  {"PENDING", "CANCEL_PENDING", "RUNNING",
   "COMPLETED", "CANCELLED", "FAILED", "INTERRUPTED"}

ActionOnFailure ==
  {"TERMINATE_JOB_FLOW", "TERMINATE_CLUSTER", "CANCEL_AND_WAIT", "CONTINUE"}

\* The state of an identifier the repository has no aggregate for.
Absent == "ABSENT"

StepTransitions ==
  [s \in StepState |->
     CASE s = "PENDING"        -> {"RUNNING", "CANCELLED"}
       [] s = "RUNNING"        -> {"COMPLETED", "FAILED", "CANCEL_PENDING", "INTERRUPTED"}
       [] s = "CANCEL_PENDING" -> {"CANCELLED", "INTERRUPTED"}
       [] OTHER                -> {}]

ClusterTransitions ==
  [s \in ClusterState |->
     CASE s = "STARTING"      -> {"BOOTSTRAPPING", "TERMINATING", "TERMINATED_WITH_ERRORS"}
       [] s = "BOOTSTRAPPING" -> {"RUNNING", "TERMINATING", "TERMINATED_WITH_ERRORS"}
       [] s = "RUNNING"       -> {"WAITING", "TERMINATING", "TERMINATED_WITH_ERRORS"}
       [] s = "WAITING"       -> {"RUNNING", "TERMINATING", "TERMINATED_WITH_ERRORS"}
       [] s = "TERMINATING"   -> {"TERMINATED", "TERMINATED_WITH_ERRORS"}
       [] OTHER               -> {}]

\* Step.terminal and Cluster.terminal.
StepTerminal    == {"COMPLETED", "CANCELLED", "FAILED", "INTERRUPTED"}
ClusterTerminal == {"TERMINATED", "TERMINATED_WITH_ERRORS"}

Mut_ServingWhileBootstrapping == {"BOOTSTRAPPING", "RUNNING", "WAITING"}

\* Cluster states in which AddSteps is accepted and the queue loop keeps going.
Serving == {"RUNNING", "WAITING"}

Step == [state : StepState, onFailure : ActionOnFailure]

Cluster ==
  [state      : ClusterState \cup {Absent},
   keepAlive  : BOOLEAN,
   protected  : BOOLEAN,
   visible    : BOOLEAN,
   bootstraps : Nat,
   steps      : Seq(Step)]

NoCluster ==
  [state |-> Absent, keepAlive |-> FALSE, protected |-> FALSE, visible |-> FALSE,
   bootstraps |-> 0, steps |-> <<>>]

-----------------------------------------------------------------------------
\* Positions of the steps a cluster still owes an outcome.
ActiveSteps(cl)  == {i \in DOMAIN cl.steps : cl.steps[i].state \notin StepTerminal}

\* Positions of the steps that a runner has been given.
StartedSteps(cl) == {i \in DOMAIN cl.steps : cl.steps[i].state \in {"RUNNING", "CANCEL_PENDING"}}

PendingSteps(cl) == {i \in DOMAIN cl.steps : cl.steps[i].state = "PENDING"}

Mut_LastPending(cl, i) ==
  /\ i \in PendingSteps(cl)
  /\ \A j \in PendingSteps(cl) : j <= i

\* next(step for step in cluster.steps if step.state is PENDING)
IsNextPending(cl, i) ==
  /\ i \in PendingSteps(cl)
  /\ \A j \in PendingSteps(cl) : i <= j

NewStep(action) == [state |-> "PENDING", onFailure |-> action]

SetCluster(cl, state) == [cl EXCEPT !.state = state]

SetStep(cl, i, state) == [cl EXCEPT !.steps[i].state = state]

\* The steps with every state mapped by NewState.
MapSteps(steps, NewState(_)) ==
  [i \in DOMAIN steps |-> [steps[i] EXCEPT !.state = NewState(steps[i].state)]]

\* A step of a cluster that is being given up: pending work is cancelled.
CancelledIfPending(s) == IF s = "PENDING" THEN "CANCELLED" ELSE s

CancelPending(cl) == [cl EXCEPT !.steps = MapSteps(cl.steps, CancelledIfPending)]

Mut_RunningStepIsKept(s) == IF s \in {"PENDING", "CANCEL_PENDING"} THEN "CANCELLED" ELSE s

(***************************************************************************)
(* The copy terminate_clusters saves: TERMINATING, and no step is active.  *)
(* A running step was interrupted, a step whose cancellation was under way *)
(* counts as cancelled.                                                    *)
(***************************************************************************)
TerminatedStepState(s) ==
  CASE s \in {"PENDING", "CANCEL_PENDING"} -> "CANCELLED"
    [] s = "RUNNING"                       -> "INTERRUPTED"
    [] OTHER                               -> s

TerminateSteps(cl) ==
  [cl EXCEPT !.state = "TERMINATING",
             !.steps = MapSteps(cl.steps, TerminatedStepState)]

(***************************************************************************)
(* QueueCompletionPolicy.  Its two TERMINATING branches save, await        *)
(* cleanup, read back and save the terminal state.  cleanup stops the      *)
(* registered processes of the cluster; when the driver calls it, the only *)
(* operation of the cluster has just returned, so there is none to stop    *)
(* and the coroutine never suspends (EmrCluster!OneOperation): the branch  *)
(* is one step.                                                            *)
(***************************************************************************)
ApplyFailure(cl, i) ==
  LET action == cl.steps[i].onFailure IN
  CASE action = "CONTINUE"        -> cl
    [] action = "CANCEL_AND_WAIT" -> SetCluster(CancelPending(cl), "WAITING")
    [] OTHER                      -> SetCluster(CancelPending(cl), "TERMINATED_WITH_ERRORS")

CompleteEmptyQueue(cl) ==
  CASE cl.state = "WAITING" -> cl
    [] cl.keepAlive         -> SetCluster(cl, "WAITING")
    [] OTHER                -> SetCluster(cl, "TERMINATED")

\* The cluster transition ApplyFailure makes has to be legal, or it raises.
FailureIsLegal(cl, i) ==
  LET action == cl.steps[i].onFailure IN
  CASE action = "CONTINUE"        -> TRUE
    [] action = "CANCEL_AND_WAIT" -> "WAITING" \in ClusterTransitions[cl.state]
    [] OTHER                      -> "TERMINATING" \in ClusterTransitions[cl.state]
=============================================================================
