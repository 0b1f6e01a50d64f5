------------------------ MODULE EmrClusterRefinement ------------------------
(***************************************************************************)
(* EmrCluster implements the queue a client sees (EmrQueue), under the     *)
(* fairness of the event loop.                                             *)
(***************************************************************************)
EXTENDS EmrCluster

\* The phase of a cluster: TERMINATING, like the terminal states, is past serving.
QueuePhase(c) ==
  CASE repo[c].state = Absent                          -> "absent"
    [] repo[c].state \in {"STARTING", "BOOTSTRAPPING"} -> "booting"
    [] repo[c].state \in {"RUNNING", "WAITING"}        -> "open"
    [] OTHER                                           -> "ended"

\* The step a driver task of c is inside run() with.
CurrentStep(c) ==
  LET current == {i \in 1..StepBound :
                    \E t \in Tasks : Running(t) /\ task[t].cluster = c /\ task[t].op = <<"step", i>>}
  IN IF current = {} THEN 0 ELSE CHOOSE i \in current : TRUE

QueueOf(c) ==
  IF QueuePhase(c) = "ended"
  THEN [phase |-> "ended", accepted |-> 0, waiting |-> {}, current |-> CurrentStep(c)]
  ELSE [phase    |-> QueuePhase(c),
        accepted |-> Len(repo[c].steps),
        waiting  |-> PendingSteps(repo[c]),
        current  |-> CurrentStep(c)]

Abstract == INSTANCE EmrQueue WITH queue <- [c \in Clusters |-> QueueOf(c)]

\* However tasks, requests and children interleave, a client sees a queue that runs the
\* accepted steps one at a time, once, in order, only between set-up and end, that never
\* reopens, and that gets on with its work while it is alive.
QueueIsImplemented == Abstract!Spec
=============================================================================
