----------------------------- MODULE EmrCluster -----------------------------
(***************************************************************************)
(* The EMR control plane: the in-memory repository, the cluster and step   *)
(* command handlers, the queue driver with its tasks and locks, and the    *)
(* child processes the driver starts.                                      *)
(*                                                                         *)
(* Everything runs on one asyncio event loop, so a handler is atomic       *)
(* between two points at which it really suspends.  The repository's       *)
(* asyncio.Lock is never contended (its body never suspends), so get, save *)
(* and add are not such points.  What is left:                             *)
(*   - the driver suspends in bootstrap_runner.run and step_runner.run;    *)
(*   - terminate_clusters suspends in step_runner.cancel and in cleanup,   *)
(*     and then only while a live child process is being stopped.          *)
(* An action below is one such segment.                                    *)
(*                                                                         *)
(* A request that waits for a child to exit and the runner that owns the   *)
(* child are woken by the same event-loop callback, in the same iteration. *)
(* The step runner then still has work to do on a thread (removing its UI  *)
(* file, the journal, the log publication), the request has none: it       *)
(* finishes before the runner returns.  StepReturn is guarded by it.       *)
(***************************************************************************)
EXTENDS EmrModel

CONSTANTS
  Clusters,        \* identifiers RandomAwsIds can return
  Tasks,           \* asyncio tasks: bounds the tasks outstanding at a time
  Requests,        \* TerminateJobFlows requests that may be in flight together
  NoTask,          \* the holder of a free worker lock
  MaxActiveSteps,  \* EmrPolicy.max_active_steps
  StepBound,       \* bound: steps ever accepted by one cluster
  BootstrapBound,  \* bound: bootstrap actions of one cluster
  FailureActions,  \* the ActionOnFailure values clients use
  KeepAlives,      \* the KeepJobFlowAliveWhenNoSteps values clients use
  Protections,     \* the termination protection values clients set
  Visibilities     \* the visibility values clients set

ASSUME ConstantsAssumption ==
  /\ NoTask \notin Tasks
  /\ MaxActiveSteps \in Nat
  /\ StepBound \in Nat
  /\ BootstrapBound \in Nat
  /\ FailureActions \subseteq ActionOnFailure
  /\ KeepAlives \subseteq BOOLEAN
  /\ Protections \subseteq BOOLEAN
  /\ Visibilities \subseteq BOOLEAN

VARIABLES
  repo,           \* InMemoryClusterRepository._clusters
  task,           \* the driver's tasks, with the run() coroutine each is in
  lock,           \* ClusterQueueDriver._worker_locks: who holds the lock of a cluster
  cancellations,  \* LocalProcessExecutor._cancellations
  request         \* terminate_clusters calls

vars == <<repo, task, lock, cancellations, request>>

-----------------------------------------------------------------------------
\* operation_id: a bootstrap action or a step, by position.
Operation == {"bootstrap", "step"} \X (Nat \ {0})
NoOperation == <<"none", 0>>

\* The three places a run() coroutine suspends in: before the executor has registered
\* the child, while the registered child lives, and after it has been unregistered.
Phase == {"preparing", "running", "finishing"}

Task ==
  [pc       : {"free", "scheduled", "failed"} \cup Phase,
   cluster  : Clusters \cup {Absent},
   op       : Operation \cup {NoOperation},
   stopping : BOOLEAN,   \* _stop has been called on the child
   ok       : BOOLEAN]   \* RuntimeResult.succeeded

FreeTask == [pc |-> "free", cluster |-> Absent, op |-> NoOperation,
             stopping |-> FALSE, ok |-> FALSE]

ScheduledTask(c) == [FreeTask EXCEPT !.pc = "scheduled", !.cluster = c]

Request ==
  [pc      : {"idle", "next", "cancel", "cleanup"},
   todo    : SUBSET Clusters,                        \* cluster_ids not reached yet
   cluster : Clusters \cup {Absent},
   copy    : Cluster,                                \* the aggregate it works on
   awaited : SUBSET (Operation)]                     \* the children it is stopping

IdleRequest == [pc |-> "idle", todo |-> {}, cluster |-> Absent,
                copy |-> NoCluster, awaited |-> {}]

Init ==
  /\ repo = [c \in Clusters |-> NoCluster]
  /\ task = [t \in Tasks |-> FreeTask]
  /\ lock = [c \in Clusters |-> NoTask]
  /\ cancellations = {}
  /\ request = [r \in Requests |-> IdleRequest]

-----------------------------------------------------------------------------
Running(t) == task[t].pc \in Phase

\* Children of a cluster the executor has registered, by operation_id.
Registered(c) == {task[t].op : t \in {u \in Tasks : task[u].pc = "running" /\ task[u].cluster = c}}

\* LocalProcessExecutor.cancel of operations `ops` of c: a registered child is stopped,
\* for any other operation the cancellation is remembered.
StopRegistered(c, ops) ==
  [t \in Tasks |->
     IF task[t].pc = "running" /\ task[t].cluster = c /\ task[t].op \in ops
     THEN [task[t] EXCEPT !.stopping = TRUE]
     ELSE task[t]]

Mut_DropCancellations(c, ops) == cancellations

Mut_DeferWithoutCluster(c, ops) == cancellations \cup (ops \ Registered(c))

DeferCancellations(c, ops) ==
  cancellations \cup {<<c, op>> : op \in ops \ Registered(c)}

Mut_RunnerReturnsFirst(c, op) == FALSE

\* Some request still has to be resumed after the exit of operation op of c.
HasWokenWaiter(c, op) ==
  \E r \in Requests : /\ request[r].pc \in {"cancel", "cleanup"}
                      /\ request[r].cluster = c
                      /\ op \in request[r].awaited

\* driver.schedule: one more task, in the state it has before its first step.
Schedule(c) ==
  \E t \in Tasks : /\ task[t].pc = "free"
                   /\ task' = [task EXCEPT ![t] = ScheduledTask(c)]

-----------------------------------------------------------------------------
(***************************************************************************)
(* Command handlers that never suspend.                                    *)
(***************************************************************************)
StepLists == UNION {[1..n -> {NewStep(a) : a \in FailureActions}] : n \in 0..StepBound}

\* The policy's limit on the active steps of a cluster that gets n more.
WithinLimit(cl, n) == Cardinality(ActiveSteps(cl)) + n <= MaxActiveSteps

CreateCluster(c) ==
  /\ repo[c].state = Absent
  /\ \E keepAlive \in KeepAlives, protected \in Protections \cup {FALSE},
        visible \in Visibilities \cup {FALSE}, n \in 0..BootstrapBound, steps \in StepLists :
       /\ WithinLimit(NoCluster, Len(steps))
       /\ repo' = [repo EXCEPT ![c] =
                     [state |-> "STARTING", keepAlive |-> keepAlive, protected |-> protected,
                      visible |-> visible, bootstraps |-> n, steps |-> steps]]
  /\ Schedule(c)
  /\ UNCHANGED <<lock, cancellations, request>>

AddSteps(c) ==
  /\ repo[c].state \in Serving
  /\ \E steps \in StepLists \ {<<>>} :
       /\ Len(repo[c].steps) + Len(steps) <= StepBound
       /\ WithinLimit(repo[c], Len(steps))
       /\ repo' = [repo EXCEPT ![c].state = "RUNNING", ![c].steps = @ \o steps]
  /\ Schedule(c)
  /\ UNCHANGED <<lock, cancellations, request>>

Mut_CancelAnyStep(c, i) ==
  /\ repo[c].steps[i].state \notin {"RUNNING", "CANCEL_PENDING"}
  /\ repo' = [repo EXCEPT ![c] = SetStep(@, i, "CANCELLED")]
  /\ UNCHANGED <<task, lock, cancellations, request>>

CancelPendingStep(c, i) ==
  /\ repo[c].steps[i].state = "PENDING"
  /\ repo' = [repo EXCEPT ![c] = SetStep(@, i, "CANCELLED")]
  /\ UNCHANGED <<task, lock, cancellations, request>>

Mut_CancelNow(c, i) ==
  /\ repo[c].steps[i].state = "RUNNING"
  /\ repo' = [repo EXCEPT ![c] = SetStep(SetStep(@, i, "CANCEL_PENDING"), i, "CANCELLED")]
  /\ task' = StopRegistered(c, {<<"step", i>>})
  /\ cancellations' = DeferCancellations(c, {<<"step", i>>})
  /\ UNCHANGED <<lock, request>>

\* The handler then waits for the child to stop, and changes nothing afterwards.
CancelRunningStep(c, i) ==
  /\ repo[c].steps[i].state = "RUNNING"
  /\ repo' = [repo EXCEPT ![c] = SetStep(@, i, "CANCEL_PENDING")]
  /\ task' = StopRegistered(c, {<<"step", i>>})
  /\ cancellations' = DeferCancellations(c, {<<"step", i>>})
  /\ UNCHANGED <<lock, request>>

\* cancel_steps, for one of its identifiers.
CancelStep(c) ==
  \E i \in DOMAIN repo[c].steps : CancelPendingStep(c, i) \/ CancelRunningStep(c, i)

SetTerminationProtection(c) ==
  /\ repo[c].state # Absent
  /\ \E enabled \in Protections : repo' = [repo EXCEPT ![c].protected = enabled]
  /\ UNCHANGED <<task, lock, cancellations, request>>

SetVisibleToAllUsers(c) ==
  /\ repo[c].state # Absent
  /\ \E visible \in Visibilities : repo' = [repo EXCEPT ![c].visible = visible]
  /\ UNCHANGED <<task, lock, cancellations, request>>

-----------------------------------------------------------------------------
(***************************************************************************)
(* terminate_clusters, one cluster identifier after the other.  It works   *)
(* on the copy it read before stopping the children and saves that copy    *)
(* afterwards.                                                             *)
(***************************************************************************)
TerminateClusters(r, cs) ==
  /\ request[r].pc = "idle"
  /\ cs # {}
  /\ \A c \in cs : repo[c].state # Absent
  /\ request' = [request EXCEPT ![r] = [IdleRequest EXCEPT !.pc = "next", !.todo = cs]]
  /\ UNCHANGED <<repo, task, lock, cancellations>>

\* The request is done with one cluster and has `todo` left.
Proceed(r, todo) ==
  request' = [request EXCEPT ![r] =
                [IdleRequest EXCEPT !.pc = IF todo = {} THEN "idle" ELSE "next",
                                    !.todo = todo]]

Await(r, pc, c, copy, ops, todo) ==
  request' = [request EXCEPT ![r] =
                [pc |-> pc, todo |-> todo, cluster |-> c, copy |-> copy, awaited |-> ops]]

\* The children this request is stopping have all exited.
ChildrenStopped(r) == request[r].awaited \cap Registered(request[r].cluster) = {}

\* save, cleanup and, when cleanup has no child to wait for, the final transition.
SaveAndCleanUp(r, c, copy, todo) ==
  \/ /\ Registered(c) = {}
     /\ repo' = [repo EXCEPT ![c] = SetCluster(TerminateSteps(copy), "TERMINATED")]
     /\ Proceed(r, todo)
     /\ UNCHANGED task
  \/ /\ Registered(c) # {}
     /\ repo' = [repo EXCEPT ![c] = TerminateSteps(copy)]
     /\ task' = StopRegistered(c, Registered(c))
     /\ Await(r, "cleanup", c, NoCluster, Registered(c), todo)

TerminateSkip(r, c) ==
  /\ request[r].pc = "next" /\ c \in request[r].todo
  /\ repo[c].protected \/ repo[c].state \in ClusterTerminal
  /\ Proceed(r, request[r].todo \ {c})
  /\ UNCHANGED <<repo, task, lock, cancellations>>

\* The transition raises: the request fails and its remaining clusters are not visited.
TerminateRefused(r, c) ==
  /\ request[r].pc = "next" /\ c \in request[r].todo
  /\ ~repo[c].protected /\ repo[c].state = "TERMINATING"
  /\ Proceed(r, {})
  /\ UNCHANGED <<repo, task, lock, cancellations>>

TerminateBegin(r, c) ==
  LET started == {<<"step", i>> : i \in StartedSteps(repo[c])}
      live    == started \cap Registered(c)
      todo    == request[r].todo \ {c}
  IN
  /\ request[r].pc = "next" /\ c \in request[r].todo
  /\ ~repo[c].protected /\ "TERMINATING" \in ClusterTransitions[repo[c].state]
  /\ cancellations' = DeferCancellations(c, started)
  /\ \/ /\ live # {}
        /\ task' = StopRegistered(c, live)
        /\ Await(r, "cancel", c, repo[c], live, todo)
        /\ UNCHANGED repo
     \/ /\ live = {}
        /\ SaveAndCleanUp(r, c, repo[c], todo)
  /\ UNCHANGED lock

TerminateSave(r) ==
  /\ request[r].pc = "cancel"
  /\ ChildrenStopped(r)
  /\ SaveAndCleanUp(r, request[r].cluster, request[r].copy, request[r].todo)
  /\ UNCHANGED <<lock, cancellations>>

TerminateFinish(r) ==
  LET c == request[r].cluster IN
  /\ request[r].pc = "cleanup"
  /\ ChildrenStopped(r)
  /\ repo' = IF repo[c].state = "TERMINATING"
             THEN [repo EXCEPT ![c] = SetCluster(@, "TERMINATED")]
             ELSE repo
  /\ Proceed(r, request[r].todo)
  /\ UNCHANGED <<task, lock, cancellations>>

Terminate(r) ==
  \/ \E c \in Clusters : TerminateSkip(r, c) \/ TerminateRefused(r, c) \/ TerminateBegin(r, c)
  \/ TerminateSave(r)
  \/ TerminateFinish(r)

-----------------------------------------------------------------------------
(***************************************************************************)
(* The queue driver.                                                       *)
(***************************************************************************)
Mut_LeaveHoldingLock(t) ==
  /\ task' = [task EXCEPT ![t] = FreeTask]
  /\ UNCHANGED lock

\* The task ends and its worker lock is released.
Leave(t) ==
  /\ task' = [task EXCEPT ![t] = FreeTask]
  /\ lock' = [lock EXCEPT ![task[t].cluster] = NoTask]

\* The task ends with an exception; the lock is released all the same.
Fail(t) ==
  /\ task' = [task EXCEPT ![t] = [FreeTask EXCEPT !.pc = "failed", !.cluster = task[t].cluster]]
  /\ lock' = [lock EXCEPT ![task[t].cluster] = NoTask]

\* The task suspends in runner.run for operation op.
StartOperation(t, op) ==
  /\ task' = [task EXCEPT ![t] = [FreeTask EXCEPT !.pc = "preparing",
                                                  !.cluster = task[t].cluster, !.op = op]]
  /\ lock' = [lock EXCEPT ![task[t].cluster] = t]

\* The queue loop from its first get, which returns cl, to its next suspension point.
RunQueue(t, cl) ==
  LET c == task[t].cluster IN
  \/ /\ cl.state \notin Serving
     /\ repo' = [repo EXCEPT ![c] = cl]
     /\ Leave(t)
  \/ /\ cl.state \in Serving
     /\ PendingSteps(cl) = {}
     /\ repo' = [repo EXCEPT ![c] = CompleteEmptyQueue(cl)]
     /\ Leave(t)
  \/ /\ cl.state \in Serving
     /\ \E i \in PendingSteps(cl) :
          /\ IsNextPending(cl, i)
          /\ repo' = [repo EXCEPT ![c] = SetStep(SetCluster(cl, "RUNNING"), i, "RUNNING")]
          /\ StartOperation(t, <<"step", i>>)

\* The bootstrap runner returned success.
BootstrapDone(t, cl) == RunQueue(t, SetCluster(cl, "RUNNING"))

Mut_LockIgnored(c) == TRUE

LockFree(c) == lock[c] = NoTask

\* _drive of a task that finds the worker lock taken.
SkipDuplicate(t) ==
  /\ task[t].pc = "scheduled"
  /\ ~LockFree(task[t].cluster)
  /\ task' = [task EXCEPT ![t] = FreeTask]
  /\ UNCHANGED <<repo, lock, cancellations, request>>

\* _drive of a task that takes it.  A bootstrap runner with no actions does not suspend.
Drive(t) ==
  LET c == task[t].cluster
      booting == SetCluster(repo[c], "BOOTSTRAPPING")
  IN
  /\ task[t].pc = "scheduled"
  /\ LockFree(c)
  /\ \/ /\ repo[c].state = "STARTING" /\ repo[c].bootstraps > 0
        /\ repo' = [repo EXCEPT ![c] = booting]
        /\ StartOperation(t, <<"bootstrap", 1>>)
     \/ /\ repo[c].state = "STARTING" /\ repo[c].bootstraps = 0
        /\ BootstrapDone(t, booting)
     \/ /\ repo[c].state # "STARTING"
        /\ RunQueue(t, repo[c])
  /\ UNCHANGED <<cancellations, request>>

Mut_NotTerminating(c) == repo[c].state # "TERMINATING"

\* The cluster was not terminated while the bootstrap runner was at work.
StillBootstrapping(c) == repo[c].state = "BOOTSTRAPPING"

\* run() of a bootstrap action returned: the next action, or back in the driver.
BootstrapReturn(t) ==
  LET c == task[t].cluster
      n == task[t].op[2]
  IN
  /\ task[t].pc = "finishing" /\ task[t].op[1] = "bootstrap"
  /\ \/ /\ task[t].ok /\ n < repo[c].bootstraps
        /\ StartOperation(t, <<"bootstrap", n + 1>>)
        /\ UNCHANGED repo
     \/ /\ ~task[t].ok \/ n >= repo[c].bootstraps
        /\ \/ /\ ~StillBootstrapping(c)
              /\ Leave(t)
              /\ UNCHANGED repo
           \/ /\ StillBootstrapping(c) /\ ~task[t].ok
              /\ repo' = [repo EXCEPT ![c] = SetCluster(@, "TERMINATED_WITH_ERRORS")]
              /\ Leave(t)
           \/ /\ StillBootstrapping(c) /\ task[t].ok
              /\ BootstrapDone(t, repo[c])
  /\ UNCHANGED <<cancellations, request>>

Mut_CancelPendingIgnored(state, ok) ==
  CASE state = "RUNNING" -> IF ok THEN "COMPLETED" ELSE "FAILED"
    [] OTHER             -> state

\* The state the driver gives a step whose run() has returned.
SettledState(state, ok) ==
  CASE state = "CANCEL_PENDING" -> "CANCELLED"
    [] state = "RUNNING"        -> IF ok THEN "COMPLETED" ELSE "FAILED"
    [] OTHER                    -> state

SettleStep(t, cl, i) ==
  LET settled == SetStep(cl, i, SettledState(cl.steps[i].state, task[t].ok))
      failed  == cl.steps[i].state = "RUNNING" /\ ~task[t].ok
  IN
  \/ ~failed /\ RunQueue(t, settled)
  \/ failed /\ FailureIsLegal(settled, i) /\ RunQueue(t, ApplyFailure(settled, i))
  \/ failed /\ ~FailureIsLegal(settled, i) /\ Fail(t) /\ UNCHANGED repo

\* run() of a step returned.  cluster.step raises for a step that is no longer there.
StepReturn(t) ==
  LET c == task[t].cluster
      i == task[t].op[2]
  IN
  /\ task[t].pc = "finishing" /\ task[t].op[1] = "step"
  /\ ~HasWokenWaiter(c, task[t].op)
  /\ \/ /\ i \in DOMAIN repo[c].steps
        /\ SettleStep(t, repo[c], i)
     \/ /\ i \notin DOMAIN repo[c].steps
        /\ Fail(t)
        /\ UNCHANGED repo
  /\ UNCHANGED <<cancellations, request>>

-----------------------------------------------------------------------------
(***************************************************************************)
(* The runner inside run(): LocalProcessExecutor.execute and what the      *)
(* runners do around it.                                                   *)
(***************************************************************************)
\* An artifact cannot be materialised, or the child cannot be started.
PrepareFails(t) ==
  /\ task[t].pc = "preparing"
  /\ task' = [task EXCEPT ![t].pc = "finishing", ![t].ok = FALSE]
  /\ UNCHANGED <<repo, lock, cancellations, request>>

\* The child is started and registered; a remembered cancellation is applied.
Register(t) ==
  LET key == <<task[t].cluster, task[t].op>> IN
  /\ task[t].pc = "preparing"
  /\ task' = [task EXCEPT ![t].pc = "running", ![t].stopping = (key \in cancellations)]
  /\ cancellations' = cancellations \ {key}
  /\ UNCHANGED <<repo, lock, request>>

Mut_ExitNeedsStopper(t) ==
  /\ task[t].pc = "running"
  /\ ~HasWokenWaiter(task[t].cluster, task[t].op)
  /\ \E ok \in BOOLEAN :
       task' = [task EXCEPT ![t].pc = "finishing", ![t].stopping = FALSE, ![t].ok = ok]
  /\ cancellations' = cancellations \ {<<task[t].cluster, task[t].op>>}
  /\ UNCHANGED <<repo, lock, request>>

\* The child exits by itself, at its timeout or because it is being stopped (which it may
\* survive long enough to exit with 0); it is unregistered.
Exit(t) ==
  /\ task[t].pc = "running"
  /\ \E ok \in BOOLEAN :
       task' = [task EXCEPT ![t].pc = "finishing", ![t].stopping = FALSE, ![t].ok = ok]
  /\ cancellations' = cancellations \ {<<task[t].cluster, task[t].op>>}
  /\ UNCHANGED <<repo, lock, request>>

Work(t) ==
  \/ SkipDuplicate(t) \/ Drive(t)
  \/ BootstrapReturn(t) \/ StepReturn(t)
  \/ PrepareFails(t) \/ Register(t) \/ Exit(t)

Command(c) ==
  \/ CreateCluster(c) \/ AddSteps(c) \/ CancelStep(c)
  \/ SetTerminationProtection(c) \/ SetVisibleToAllUsers(c)

Next ==
  \/ \E c \in Clusters : Command(c)
  \/ \E r \in Requests, cs \in SUBSET Clusters : TerminateClusters(r, cs)
  \/ \E r \in Requests : Terminate(r)
  \/ \E t \in Tasks : Work(t)

Spec == Init /\ [][Next]_vars

\* The loop runs every ready task and request; children end, at the latest at their
\* timeout; the clients promise nothing.
Fairness ==
  /\ \A t \in Tasks : WF_vars(Work(t))
  /\ \A r \in Requests : WF_vars(Terminate(r))

FairSpec == Spec /\ Fairness

-----------------------------------------------------------------------------
(***************************************************************************)
(* Properties.                                                             *)
(***************************************************************************)
\* Every variable stays in the shape the code gives it; a task that is not free belongs to a
\* cluster and, inside run(), to an operation; a suspended request is at a cluster.
TypeOK ==
  /\ repo \in [Clusters -> Cluster]
  /\ task \in [Tasks -> Task]
  /\ lock \in [Clusters -> Tasks \cup {NoTask}]
  /\ cancellations \subseteq (Clusters \X Operation)
  /\ request \in [Requests -> Request]
  /\ \A t \in Tasks : /\ task[t].pc # "free" => task[t].cluster \in Clusters
                      /\ Running(t) => task[t].op \in Operation
  /\ \A r \in Requests : request[r].pc \in {"cancel", "cleanup"} => request[r].cluster \in Clusters

\* The driver serialises the work of a cluster: however many tasks were scheduled for it,
\* at most one of them has an operation under way.
OneOperation ==
  \A t, u \in Tasks :
    Running(t) /\ Running(u) /\ task[t].cluster = task[u].cluster => t = u

\* A step that DescribeStep reports as RUNNING or CANCEL_PENDING is one a driver task is
\* inside run() with, in a cluster that is RUNNING: no step is left behind in an active
\* state that nobody will ever settle.
StartedStepHasRunner ==
  \A c \in Clusters : \A i \in StartedSteps(repo[c]) :
    /\ repo[c].state = "RUNNING"
    /\ \E t \in Tasks : Running(t) /\ task[t].cluster = c /\ task[t].op = <<"step", i>>

\* No lost wake-up between the loop that finds the queue empty and AddJobFlowSteps whose
\* task finds the lock taken: while a step of a cluster that has not ended is pending, a
\* task of the cluster is there.
PendingStepHasTask ==
  \A c \in Clusters :
    PendingSteps(repo[c]) # {} /\ repo[c].state \notin ClusterTerminal =>
      \E t \in Tasks : task[t].cluster = c /\ task[t].pc \in {"scheduled"} \cup Phase

\* A cancellation is never lost between the request and the child, whichever of the two
\* comes first: once the repository says that the step being run is not to run, its child
\* is being stopped, or will be in the moment it is registered.
CancellationReachesChild ==
  \A t \in Tasks :
    LET c == task[t].cluster
        i == task[t].op[2]
    IN
    (/\ Running(t) /\ task[t].op[1] = "step"
     /\ i \in DOMAIN repo[c].steps => repo[c].steps[i].state # "RUNNING")
    => CASE task[t].pc = "preparing" -> <<c, task[t].op>> \in cancellations
         [] task[t].pc = "running"   -> task[t].stopping
         [] OTHER                    -> TRUE

\* Steps are started in the order in which they were accepted.
StepsRunInOrder ==
  \A c \in Clusters : \A i, j \in DOMAIN repo[c].steps :
    i < j /\ repo[c].steps[i].state = "PENDING" =>
      repo[c].steps[j].state \in {"PENDING", "CANCELLED"}

\* The bootstrap actions have all returned before a cluster serves steps.
BootstrapBeforeService ==
  \A t \in Tasks :
    Running(t) =>
      /\ task[t].op[1] = "bootstrap" => repo[task[t].cluster].state \notin Serving
      /\ task[t].op[1] = "step" =>
           repo[task[t].cluster].state \notin {"STARTING", "BOOTSTRAPPING", "WAITING"}

\* No driver task ends with an exception: every transition it makes is legal in the state
\* it reads back, and the step it ran is still there.
NoTaskFails == \A t \in Tasks : task[t].pc # "failed"

\* A terminal cluster state is never left or replaced, neither by the driver nor by a
\* request that is still working on an older copy.
ClusterEndIsFinal ==
  [][\A c \in Clusters : repo[c].state \in ClusterTerminal => repo'[c].state = repo[c].state]_vars

\* A terminal step state is never replaced.
StepEndIsFinal ==
  [][\A c \in Clusters : \A i \in DOMAIN repo[c].steps \cap DOMAIN repo'[c].steps :
       repo[c].steps[i].state \in StepTerminal =>
         repo'[c].steps[i].state = repo[c].steps[i].state]_vars

\* A step whose identifier was returned to a client stays in its cluster.
AcceptedStepIsKept ==
  [][\A c \in Clusters : DOMAIN repo[c].steps \subseteq DOMAIN repo'[c].steps]_vars

\* A step becomes terminal only after its runner has returned, so after its logs have
\* been published.
StepEndIsPublished ==
  \A t \in Tasks :
    LET c == task[t].cluster
        i == task[t].op[2]
    IN Running(t) /\ task[t].op[1] = "step" /\ i \in DOMAIN repo[c].steps
         => repo[c].steps[i].state \notin StepTerminal

\* A cluster that has ended has no child that is not being stopped.
EndedClusterHasNoChild ==
  \A t \in Tasks :
    task[t].pc = "running" /\ ~task[t].stopping => repo[task[t].cluster].state \notin ClusterTerminal

\* Every accepted step is eventually started or settled, or its cluster has ended.
PendingStepIsTaken ==
  \A c \in Clusters, i \in 1..StepBound :
    (i \in PendingSteps(repo[c]))
      ~> (i \notin PendingSteps(repo[c]) \/ repo[c].state \in ClusterTerminal)

\* A requested cancellation eventually settles the step.
CancellationSettles ==
  \A c \in Clusters, i \in 1..StepBound :
    (i \in DOMAIN repo[c].steps /\ repo[c].steps[i].state = "CANCEL_PENDING")
      ~> (i \in DOMAIN repo[c].steps => repo[c].steps[i].state \in StepTerminal)

\* TerminateJobFlows returns.
TerminateReturns ==
  \A r \in Requests : (request[r].pc # "idle") ~> (request[r].pc = "idle")
=============================================================================
