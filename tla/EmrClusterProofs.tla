-------------------------- MODULE EmrClusterProofs --------------------------
(***************************************************************************)
(* Proofs about EmrCluster for every value of its constants: any number of *)
(* clusters, tasks and requests, any bound.  First what holds of every     *)
(* behaviour; then what the service promises about cancellations, for any  *)
(* requests, about the end of a step, as long as terminations do not       *)
(* overlap, and about the logs and children of what has ended, as long as  *)
(* nobody calls TerminateJobFlows; at the end, that every step of the      *)
(* cluster is a step of the abstract queue EmrQueue, or changes nothing a  *)
(* client of the queue sees.                                               *)
(***************************************************************************)
EXTENDS EmrClusterRefinement, SequenceTheorems, TLAPS

-----------------------------------------------------------------------------
(***************************************************************************)
(* The changes of EmrModel keep an aggregate an aggregate.                 *)
(***************************************************************************)
\* A function on 1..n is a sequence.
LEMMA FunctionIsSequence ==
  ASSUME NEW S, NEW n \in Nat, NEW f \in [1..n -> S]
  PROVE  /\ f \in Seq(S)
         /\ Len(f) = n
         /\ DOMAIN f = 1..n
<1>1. f \in Seq(S)
  BY SeqDef
<1> QED BY <1>1

\* The steps of an aggregate, position by position.
LEMMA StepsOfCluster ==
  ASSUME NEW cl \in Cluster
  PROVE  /\ cl.steps \in Seq(Step)
         /\ Len(cl.steps) \in Nat
         /\ DOMAIN cl.steps = 1..Len(cl.steps)
         /\ \A j \in DOMAIN cl.steps : cl.steps[j] \in Step /\ cl.steps[j].state \in StepState
<1>1. cl.steps \in Seq(Step)
  BY DEF Cluster
<1>2. Len(cl.steps) \in Nat /\ DOMAIN cl.steps = 1..Len(cl.steps)
  BY <1>1, LenProperties
<1>3. \A j \in DOMAIN cl.steps : cl.steps[j] \in Step
  BY <1>1, <1>2, ElementOfSeq
<1> QED BY <1>1, <1>2, <1>3 DEF Step

\* A cluster transition changes the state alone.
LEMMA SetClusterType ==
  ASSUME NEW cl \in Cluster, NEW state \in ClusterState
  PROVE  /\ SetCluster(cl, state) \in Cluster
         /\ SetCluster(cl, state).state = state
         /\ SetCluster(cl, state).steps = cl.steps
BY DEF SetCluster, Cluster

\* Replacing the step states of an aggregate position by position gives an aggregate.
LEMMA SetStepsType ==
  ASSUME NEW cl \in Cluster, NEW u,
         u = [j \in DOMAIN cl.steps |-> u[j]],
         \A j \in DOMAIN cl.steps : u[j] \in Step
  PROVE  /\ [cl EXCEPT !.steps = u] \in Cluster
         /\ DOMAIN u = DOMAIN cl.steps
<1>1. Len(cl.steps) \in Nat /\ DOMAIN cl.steps = 1..Len(cl.steps)
  BY StepsOfCluster
<1>2. u \in [1..Len(cl.steps) -> Step]
  BY <1>1
<1>3. u \in Seq(Step)
  BY <1>1, <1>2, FunctionIsSequence
<1> QED BY <1>1, <1>2, <1>3 DEF Cluster

\* A step transition keeps the other steps and the position of every step.
LEMMA SetStepType ==
  ASSUME NEW cl \in Cluster, NEW i, NEW state \in StepState
  PROVE  /\ SetStep(cl, i, state) \in Cluster
         /\ SetStep(cl, i, state).state = cl.state
         /\ DOMAIN SetStep(cl, i, state).steps = DOMAIN cl.steps
         /\ \A j \in DOMAIN cl.steps :
              SetStep(cl, i, state).steps[j].state = IF j = i THEN state ELSE cl.steps[j].state
<1> DEFINE u == [cl.steps EXCEPT ![i].state = state]
<1>1. \A j \in DOMAIN cl.steps : cl.steps[j] \in Step
  BY StepsOfCluster
<1>2. \A j \in DOMAIN cl.steps :
        /\ u[j] \in Step
        /\ u[j].state = IF j = i THEN state ELSE cl.steps[j].state
  BY <1>1 DEF Step
<1>3. u = [j \in DOMAIN cl.steps |-> u[j]]
  OBVIOUS
<1>4. SetStep(cl, i, state) = [cl EXCEPT !.steps = u]
  BY DEF SetStep, Cluster
<1> HIDE DEF u
<1>5. [cl EXCEPT !.steps = u] \in Cluster /\ DOMAIN u = DOMAIN cl.steps
  BY <1>2, <1>3, SetStepsType
<1>6. [cl EXCEPT !.steps = u].steps = u /\ [cl EXCEPT !.steps = u].state = cl.state
  BY DEF Cluster
<1> QED BY <1>2, <1>4, <1>5, <1>6

\* Giving up the pending steps changes no other step.
LEMMA CancelPendingType ==
  ASSUME NEW cl \in Cluster
  PROVE  /\ CancelPending(cl) \in Cluster
         /\ CancelPending(cl).state = cl.state
         /\ DOMAIN CancelPending(cl).steps = DOMAIN cl.steps
         /\ \A j \in DOMAIN cl.steps :
              CancelPending(cl).steps[j].state = CancelledIfPending(cl.steps[j].state)
<1> DEFINE u == MapSteps(cl.steps, CancelledIfPending)
<1>1. \A j \in DOMAIN cl.steps : cl.steps[j] \in Step
  BY StepsOfCluster
<1>2. u = [j \in DOMAIN cl.steps |-> [cl.steps[j] EXCEPT !.state = CancelledIfPending(cl.steps[j].state)]]
  BY DEF MapSteps
<1>3. \A j \in DOMAIN cl.steps :
        /\ u[j] \in Step
        /\ u[j].state = CancelledIfPending(cl.steps[j].state)
  <2> SUFFICES ASSUME NEW j \in DOMAIN cl.steps
               PROVE  u[j] \in Step /\ u[j].state = CancelledIfPending(cl.steps[j].state)
    OBVIOUS
  <2> DEFINE s == CancelledIfPending(cl.steps[j].state)
  <2>1. s \in StepState
    BY <1>1 DEF Step, StepState, CancelledIfPending
  <2>2. u[j] = [cl.steps[j] EXCEPT !.state = s]
    BY <1>2
  <2>3. s = CancelledIfPending(cl.steps[j].state)
    OBVIOUS
  <2> HIDE DEF s, u
  <2> QED BY <1>1, <2>1, <2>2, <2>3 DEF Step
<1>4. CancelPending(cl) = [cl EXCEPT !.steps = u]
  BY DEF CancelPending
<1> HIDE DEF u
<1>5. u = [j \in DOMAIN cl.steps |-> u[j]]
  BY <1>2
<1>6. [cl EXCEPT !.steps = u] \in Cluster /\ DOMAIN u = DOMAIN cl.steps
  BY <1>3, <1>5, SetStepsType
<1>7. [cl EXCEPT !.steps = u].steps = u /\ [cl EXCEPT !.steps = u].state = cl.state
  BY DEF Cluster
<1> QED BY <1>3, <1>4, <1>6, <1>7

\* A terminated aggregate has no step that is pending or started.
LEMMA TerminateStepsType ==
  ASSUME NEW cl \in Cluster
  PROVE  /\ TerminateSteps(cl) \in Cluster
         /\ TerminateSteps(cl).state = "TERMINATING"
         /\ DOMAIN TerminateSteps(cl).steps = DOMAIN cl.steps
         /\ \A j \in DOMAIN cl.steps :
              /\ TerminateSteps(cl).steps[j].state = TerminatedStepState(cl.steps[j].state)
              /\ TerminateSteps(cl).steps[j].state \in StepTerminal
<1> DEFINE u == MapSteps(cl.steps, TerminatedStepState)
           v == [cl EXCEPT !.state = "TERMINATING"]
<1>1. \A j \in DOMAIN cl.steps : cl.steps[j] \in Step
  BY StepsOfCluster
<1>2. u = [j \in DOMAIN cl.steps |-> [cl.steps[j] EXCEPT !.state = TerminatedStepState(cl.steps[j].state)]]
  BY DEF MapSteps
<1>3. \A j \in DOMAIN cl.steps :
        /\ u[j] \in Step
        /\ u[j].state = TerminatedStepState(cl.steps[j].state)
        /\ u[j].state \in StepTerminal
  <2> DEFINE s(j) == TerminatedStepState(cl.steps[j].state)
  <2> SUFFICES ASSUME NEW j \in DOMAIN cl.steps
               PROVE  u[j] \in Step /\ u[j].state = s(j) /\ u[j].state \in StepTerminal
    OBVIOUS
  <2>1. s(j) \in StepState /\ s(j) \in StepTerminal
    BY <1>1 DEF Step, StepState, TerminatedStepState, StepTerminal
  <2>2. u[j] = [cl.steps[j] EXCEPT !.state = s(j)]
    BY <1>2
  <2> HIDE DEF s, u
  <2> QED BY <1>1, <2>1, <2>2 DEF Step
<1>4. v \in Cluster /\ v.steps = cl.steps /\ v.state = "TERMINATING"
  BY DEF Cluster, ClusterState
<1>5. TerminateSteps(cl) = [v EXCEPT !.steps = u]
  BY DEF TerminateSteps, Cluster
<1> HIDE DEF u, v
<1>6. u = [j \in DOMAIN v.steps |-> u[j]]
  BY <1>2, <1>4
<1>7. [v EXCEPT !.steps = u] \in Cluster /\ DOMAIN u = DOMAIN v.steps
  BY <1>3, <1>4, <1>6, SetStepsType
<1>8. [v EXCEPT !.steps = u].steps = u /\ [v EXCEPT !.steps = u].state = v.state
  BY <1>4 DEF Cluster
<1> QED BY <1>3, <1>4, <1>5, <1>7, <1>8

\* A cluster without steps has the empty sequence of steps, and added steps are pending.
LEMMA StepListsType ==
  ASSUME NEW steps \in StepLists
  PROVE  /\ steps \in Seq(Step)
         /\ \A j \in DOMAIN steps : steps[j].state = "PENDING"
<1> DEFINE P == {NewStep(a) : a \in FailureActions}
<1>1. P \subseteq Step /\ \A p \in P : p.state = "PENDING"
  BY ConstantsAssumption DEF NewStep, Step, StepState
<1>2. PICK n \in 0..StepBound : steps \in [1..n -> P]
  BY DEF StepLists
<1>3. n \in Nat
  BY ConstantsAssumption
<1> HIDE DEF P
<1>4. steps \in [1..n -> Step]
  BY <1>1, <1>2
<1> QED BY <1>1, <1>2, <1>3, <1>4, FunctionIsSequence

-----------------------------------------------------------------------------
(***************************************************************************)
(* The segments of the driver, for a task t of a cluster.                  *)
(***************************************************************************)
\* What the queue loop saves and where it leaves the task: it ends with the steps as it
\* found them, or it is inside run() with the first pending step.
LEMMA RunQueueEffect ==
  ASSUME NEW t \in Tasks, NEW cl \in Cluster, RunQueue(t, cl)
  PROVE  \E new \in Cluster :
           /\ repo' = [repo EXCEPT ![task[t].cluster] = new]
           /\ \/ /\ Leave(t)
                 /\ new.steps = cl.steps
                 /\ \/ cl.state \notin Serving /\ new.state = cl.state
                    \/ /\ cl.state \in Serving /\ PendingSteps(cl) = {}
                       /\ new.state \in {"WAITING", "TERMINATED"}
              \/ \E i \in PendingSteps(cl) :
                   /\ IsNextPending(cl, i)
                   /\ StartOperation(t, <<"step", i>>)
                   /\ cl.state \in Serving /\ new.state = "RUNNING"
                   /\ DOMAIN new.steps = DOMAIN cl.steps
                   /\ \A j \in DOMAIN cl.steps :
                        new.steps[j].state = IF j = i THEN "RUNNING" ELSE cl.steps[j].state
<1> DEFINE c == task[t].cluster
<1>1. CASE cl.state \notin Serving /\ repo' = [repo EXCEPT ![c] = cl] /\ Leave(t)
  BY <1>1
<1>2. CASE /\ cl.state \in Serving /\ PendingSteps(cl) = {}
           /\ repo' = [repo EXCEPT ![c] = CompleteEmptyQueue(cl)] /\ Leave(t)
  <2>1. /\ CompleteEmptyQueue(cl) \in Cluster
        /\ CompleteEmptyQueue(cl).steps = cl.steps
        /\ CompleteEmptyQueue(cl).state \in {"WAITING", "TERMINATED"}
    BY SetClusterType DEF CompleteEmptyQueue, ClusterState
  <2> QED BY <1>2, <2>1
<1>3. CASE /\ cl.state \in Serving
           /\ \E i \in PendingSteps(cl) :
                /\ IsNextPending(cl, i)
                /\ repo' = [repo EXCEPT ![c] = SetStep(SetCluster(cl, "RUNNING"), i, "RUNNING")]
                /\ StartOperation(t, <<"step", i>>)
  <2>0. PICK i \in PendingSteps(cl) :
          /\ IsNextPending(cl, i)
          /\ repo' = [repo EXCEPT ![c] = SetStep(SetCluster(cl, "RUNNING"), i, "RUNNING")]
          /\ StartOperation(t, <<"step", i>>)
    BY <1>3
  <2> DEFINE busy == SetCluster(cl, "RUNNING")
             new  == SetStep(busy, i, "RUNNING")
  <2>1. busy \in Cluster /\ busy.steps = cl.steps /\ busy.state = "RUNNING"
    BY SetClusterType DEF ClusterState
  <2> HIDE DEF busy
  <2>2. /\ new \in Cluster /\ new.state = "RUNNING" /\ DOMAIN new.steps = DOMAIN cl.steps
        /\ \A j \in DOMAIN cl.steps :
             new.steps[j].state = IF j = i THEN "RUNNING" ELSE cl.steps[j].state
    BY <2>1, SetStepType DEF StepState
  <2>3. repo' = [repo EXCEPT ![c] = new]
    BY <2>0 DEF busy
  <2> HIDE DEF new
  <2> QED BY <1>3, <2>0, <2>2, <2>3
<1> QED BY <1>1, <1>2, <1>3 DEF RunQueue

\* All pending steps stay pending, or a started step has failed and none does.
PendingFollow(old, new) ==
  \/ PendingSteps(new) = PendingSteps(old)
  \/ PendingSteps(new) = {} /\ StartedSteps(old) # {}

\* What the driver makes of the aggregate after step i of it has returned: the step is no
\* longer started, pending steps may have been given up, and in a RUNNING cluster every
\* transition was legal.
LEMMA SettleStepEffect ==
  ASSUME NEW t \in Tasks, NEW cl \in Cluster, NEW i \in DOMAIN cl.steps,
         task[t].ok \in BOOLEAN, SettleStep(t, cl, i)
  PROVE  \E settled \in Cluster :
           /\ \/ RunQueue(t, settled)
              \/ i \in StartedSteps(cl) /\ cl.state # "RUNNING" /\ Fail(t) /\ UNCHANGED repo
           /\ \/ settled.state = cl.state
              \/ i \in StartedSteps(cl) /\ settled.state \in {"WAITING", "TERMINATED_WITH_ERRORS"}
           /\ DOMAIN settled.steps = DOMAIN cl.steps
           /\ settled.steps[i].state \notin {"RUNNING", "CANCEL_PENDING"}
           /\ \A j \in DOMAIN cl.steps :
                \/ settled.steps[j].state = cl.steps[j].state
                \/ cl.steps[j].state = "PENDING" /\ settled.steps[j].state = "CANCELLED"
                \/ j = i /\ settled.steps[j].state \in StepTerminal
                         /\ cl.steps[j].state \in {"RUNNING", "CANCEL_PENDING"}
           /\ PendingFollow(cl, settled)
<1> DEFINE state == SettledState(cl.steps[i].state, task[t].ok)
           done  == SetStep(cl, i, state)
           given == CancelPending(done)
           failed == cl.steps[i].state = "RUNNING" /\ ~task[t].ok
<1>1. \A j \in DOMAIN cl.steps : cl.steps[j] \in Step /\ cl.steps[j].state \in StepState
  BY StepsOfCluster
<1>2. /\ state \in StepState
      /\ state \notin {"RUNNING", "CANCEL_PENDING"}
      /\ \/ state = cl.steps[i].state
         \/ state \in StepTerminal /\ cl.steps[i].state \in {"RUNNING", "CANCEL_PENDING"}
  BY <1>1 DEF SettledState, StepState, StepTerminal
<1> HIDE DEF state
<1>3. /\ done \in Cluster /\ done.state = cl.state /\ DOMAIN done.steps = DOMAIN cl.steps
      /\ \A j \in DOMAIN cl.steps :
           done.steps[j].state = IF j = i THEN state ELSE cl.steps[j].state
  BY <1>2, SetStepType
<1> HIDE DEF done
<1>4. /\ given \in Cluster /\ given.state = cl.state /\ DOMAIN given.steps = DOMAIN cl.steps
      /\ \A j \in DOMAIN cl.steps :
           given.steps[j].state = CancelledIfPending(done.steps[j].state)
  BY <1>3, CancelPendingType
<1> HIDE DEF given
<1>5. \A j \in DOMAIN cl.steps :
        /\ j = i => done.steps[j].state = state
        /\ j # i => done.steps[j].state = cl.steps[j].state
        /\ \/ given.steps[j].state = done.steps[j].state
           \/ done.steps[j].state = "PENDING" /\ given.steps[j].state = "CANCELLED"
  BY <1>3, <1>4 DEF CancelledIfPending
<1>6. given.steps[i].state \notin {"RUNNING", "CANCEL_PENDING"}
  BY <1>2, <1>5
<1>s. failed => i \in StartedSteps(cl)
  BY DEF StartedSteps
<1>d. PendingFollow(cl, done)
  BY <1>2, <1>3, <1>5 DEF PendingFollow, PendingSteps, StepTerminal
<1>7. CASE ~failed /\ RunQueue(t, done)
  BY <1>2, <1>3, <1>5, <1>7, <1>d
<1>8. CASE failed /\ RunQueue(t, ApplyFailure(done, i))
  <2>1. \/ ApplyFailure(done, i) = done
        \/ /\ ApplyFailure(done, i).steps = given.steps
           /\ ApplyFailure(done, i) \in Cluster
           /\ ApplyFailure(done, i).state \in {"WAITING", "TERMINATED_WITH_ERRORS"}
    BY <1>4, SetClusterType DEF ApplyFailure, ClusterState, given
  <2>2. CASE ApplyFailure(done, i) = done
    BY <1>2, <1>3, <1>5, <1>8, <1>d, <2>2
  <2>3. CASE /\ ApplyFailure(done, i).steps = given.steps
             /\ ApplyFailure(done, i) \in Cluster
             /\ ApplyFailure(done, i).state \in {"WAITING", "TERMINATED_WITH_ERRORS"}
    <3> DEFINE new == ApplyFailure(done, i)
    <3> HIDE DEF new
    <3>1. new \in Cluster /\ new.steps = given.steps /\ RunQueue(t, new)
          /\ new.state \in {"WAITING", "TERMINATED_WITH_ERRORS"}
      BY <1>8, <2>3 DEF new
    <3>2. \A j \in DOMAIN cl.steps :
                \/ given.steps[j].state = cl.steps[j].state
                \/ cl.steps[j].state = "PENDING" /\ given.steps[j].state = "CANCELLED"
                \/ j = i /\ given.steps[j].state \in StepTerminal
                         /\ cl.steps[j].state \in {"RUNNING", "CANCEL_PENDING"}
      BY <1>2, <1>5 DEF StepTerminal
    <3>3. PendingFollow(cl, new)
      <4>1. PendingSteps(new) = {}
        BY <1>4, <3>1 DEF PendingSteps, CancelledIfPending
      <4> QED BY <1>8, <1>s, <4>1 DEF PendingFollow
    <3> QED BY <1>4, <1>6, <1>8, <1>s, <3>1, <3>2, <3>3
  <2> QED BY <2>1, <2>2, <2>3
<1>9. CASE failed /\ ~FailureIsLegal(done, i) /\ Fail(t) /\ UNCHANGED repo
  <2>1. cl.state # "RUNNING"
    BY <1>3, <1>9 DEF FailureIsLegal, ClusterTransitions, ClusterState
  <2> QED BY <1>2, <1>3, <1>5, <1>9, <1>d, <1>s, <2>1
<1> QED BY <1>7, <1>8, <1>9 DEF SettleStep, done, state

-----------------------------------------------------------------------------
(***************************************************************************)
(* Type correctness.                                                       *)
(***************************************************************************)
\* A save puts an aggregate where one was.
LEMMA SaveType ==
  ASSUME repo \in [Clusters -> Cluster], NEW c, NEW new \in Cluster,
         repo' = [repo EXCEPT ![c] = new]
  PROVE  repo' \in [Clusters -> Cluster]
OBVIOUS

\* The ways a driver task can leave a segment keep the types.
LEMMA DriverType ==
  ASSUME TypeOK, NEW t \in Tasks, task[t].cluster \in Clusters,
         repo' \in [Clusters -> Cluster], UNCHANGED <<cancellations, request>>,
         Leave(t) \/ Fail(t) \/ \E op \in Operation : StartOperation(t, op)
  PROVE  TypeOK'
<1>1. CASE Leave(t)
  BY <1>1 DEF TypeOK, Leave, FreeTask, Task, Running, Phase
<1>2. CASE Fail(t)
  BY <1>2 DEF TypeOK, Fail, FreeTask, Task, Running, Phase
<1>3. CASE \E op \in Operation : StartOperation(t, op)
  <2>1. PICK op \in Operation : StartOperation(t, op)
    BY <1>3
  <2> DEFINE new == [FreeTask EXCEPT !.pc = "preparing", !.cluster = task[t].cluster, !.op = op]
  <2>2. new \in Task /\ new.cluster \in Clusters /\ new.op \in Operation
    BY DEF FreeTask, Task, Phase
  <2>3. task' = [task EXCEPT ![t] = new] /\ lock' = [lock EXCEPT ![task[t].cluster] = t]
    BY <2>1 DEF StartOperation
  <2> HIDE DEF new
  <2> QED BY <2>2, <2>3 DEF TypeOK, Running
<1> QED BY <1>1, <1>2, <1>3

\* The queue loop keeps the types.
LEMMA RunQueueType ==
  ASSUME TypeOK, NEW t \in Tasks, NEW cl \in Cluster, task[t].cluster \in Clusters,
         RunQueue(t, cl), UNCHANGED <<cancellations, request>>
  PROVE  TypeOK'
<1>1. PICK new \in Cluster :
        /\ repo' = [repo EXCEPT ![task[t].cluster] = new]
        /\ Leave(t) \/ \E i \in PendingSteps(cl) : StartOperation(t, <<"step", i>>)
  BY RunQueueEffect
<1>2. repo' \in [Clusters -> Cluster]
  BY <1>1, SaveType DEF TypeOK
<1>3. \A i \in PendingSteps(cl) : <<"step", i>> \in Operation
  BY StepsOfCluster DEF PendingSteps, Operation
<1> QED BY <1>1, <1>2, <1>3, DriverType

\* A task is scheduled: one free task becomes a scheduled one.
LEMMA ScheduleType ==
  ASSUME TypeOK, NEW c \in Clusters, Schedule(c)
  PROVE  /\ task' \in [Tasks -> Task]
         /\ \A t \in Tasks : /\ task'[t].pc # "free" => task'[t].cluster \in Clusters
                             /\ task'[t].pc \in Phase => task'[t].op \in Operation
<1>1. PICK u \in Tasks : task' = [task EXCEPT ![u] = ScheduledTask(c)]
  BY DEF Schedule
<1>2. /\ ScheduledTask(c) \in Task
      /\ ScheduledTask(c).cluster = c
      /\ ScheduledTask(c).pc \notin Phase
  BY DEF ScheduledTask, FreeTask, Task, Phase
<1> QED BY <1>1, <1>2 DEF TypeOK, Running

\* Children are told to stop: nothing else changes in their tasks.
LEMMA StopRegisteredType ==
  ASSUME TypeOK, NEW c, NEW ops, task' = StopRegistered(c, ops)
  PROVE  /\ task' \in [Tasks -> Task]
         /\ \A t \in Tasks : /\ task'[t].pc = task[t].pc
                             /\ task'[t].cluster = task[t].cluster
                             /\ task'[t].op = task[t].op
<1>1. task \in [Tasks -> Task]
  BY DEF TypeOK
<1>2. ASSUME NEW t \in Tasks
      PROVE  /\ task'[t] \in Task
             /\ task'[t].pc = task[t].pc
             /\ task'[t].cluster = task[t].cluster
             /\ task'[t].op = task[t].op
  <2>1. task[t] \in Task
    BY <1>1
  <2>2. task'[t] = task[t] \/ task'[t] = [task[t] EXCEPT !.stopping = TRUE]
    BY DEF StopRegistered
  <2> QED BY <2>1, <2>2 DEF Task
<1>3. task' = [t \in Tasks |-> task'[t]]
  BY DEF StopRegistered
<1> QED BY <1>2, <1>3

\* Remembered cancellations are of operations of clusters.
LEMMA DeferType ==
  ASSUME TypeOK, NEW c \in Clusters, NEW ops \in SUBSET Operation
  PROVE  DeferCancellations(c, ops) \subseteq (Clusters \X Operation)
BY DEF TypeOK, DeferCancellations

\* The children of a cluster are operations.
LEMMA RegisteredType ==
  ASSUME TypeOK, NEW c
  PROVE  Registered(c) \subseteq Operation
BY DEF TypeOK, Registered, Running, Phase

\* The handlers of one cluster keep the types.
LEMMA CommandType ==
  ASSUME TypeOK, NEW c \in Clusters, Command(c)
  PROVE  TypeOK'
<1>c. repo[c] \in Cluster
  BY DEF TypeOK
<1>1. CASE CreateCluster(c)
  <2>1. PICK keepAlive \in KeepAlives, protected \in Protections \cup {FALSE},
             visible \in Visibilities \cup {FALSE}, n \in 0..BootstrapBound, steps \in StepLists :
          repo' = [repo EXCEPT ![c] =
                     [state |-> "STARTING", keepAlive |-> keepAlive, protected |-> protected,
                      visible |-> visible, bootstraps |-> n, steps |-> steps]]
    BY <1>1 DEF CreateCluster
  <2>2. [state |-> "STARTING", keepAlive |-> keepAlive, protected |-> protected,
         visible |-> visible, bootstraps |-> n, steps |-> steps] \in Cluster
    <3>1. keepAlive \in BOOLEAN /\ protected \in BOOLEAN /\ visible \in BOOLEAN
      BY ConstantsAssumption
    <3>2. n \in Nat /\ steps \in Seq(Step)
      BY ConstantsAssumption, StepListsType
    <3> QED BY <3>1, <3>2 DEF Cluster, ClusterState
  <2>3. repo' \in [Clusters -> Cluster]
    BY <2>1, <2>2 DEF TypeOK
  <2> QED BY <1>1, <2>3, ScheduleType DEF CreateCluster, TypeOK, Running
<1>2. CASE AddSteps(c)
  <2>1. PICK steps \in StepLists :
          repo' = [repo EXCEPT ![c].state = "RUNNING", ![c].steps = @ \o steps]
    BY <1>2 DEF AddSteps
  <2>2. repo[c].steps \o steps \in Seq(Step)
    BY <1>c, StepListsType, StepsOfCluster, ConcatProperties
  <2>3. repo' \in [Clusters -> Cluster]
    BY <1>c, <2>1, <2>2 DEF TypeOK, Cluster, ClusterState
  <2> QED BY <1>2, <2>3, ScheduleType DEF AddSteps, TypeOK, Running
<1>3. CASE CancelStep(c)
  <2>1. PICK i \in DOMAIN repo[c].steps : CancelPendingStep(c, i) \/ CancelRunningStep(c, i)
    BY <1>3 DEF CancelStep
  <2>2. <<"step", i>> \in Operation
    BY <1>c, StepsOfCluster DEF Operation
  <2>3. repo' \in [Clusters -> Cluster]
    BY <1>c, <2>1, SetStepType DEF CancelPendingStep, CancelRunningStep, TypeOK, StepState
  <2>4. CASE CancelPendingStep(c, i)
    BY <2>3, <2>4 DEF CancelPendingStep, TypeOK, Running
  <2>5. CASE CancelRunningStep(c, i)
    <3>1. cancellations' \subseteq (Clusters \X Operation)
      BY <2>2, <2>5, DeferType DEF CancelRunningStep
    <3> QED BY <2>3, <2>5, <3>1, StopRegisteredType DEF CancelRunningStep, TypeOK, Running
  <2> QED BY <2>1, <2>4, <2>5
<1>4. CASE SetTerminationProtection(c)
  <2>1. PICK enabled \in Protections : repo' = [repo EXCEPT ![c].protected = enabled]
    BY <1>4 DEF SetTerminationProtection
  <2>2. enabled \in BOOLEAN
    BY ConstantsAssumption
  <2>3. [repo[c] EXCEPT !.protected = enabled] \in Cluster
    BY <1>c, <2>2 DEF Cluster
  <2>4. repo' \in [Clusters -> Cluster]
    BY <2>1, <2>3 DEF TypeOK
  <2> QED BY <1>4, <2>4 DEF SetTerminationProtection, TypeOK, Running
<1>5. CASE SetVisibleToAllUsers(c)
  <2>1. PICK visible \in Visibilities : repo' = [repo EXCEPT ![c].visible = visible]
    BY <1>5 DEF SetVisibleToAllUsers
  <2>2. visible \in BOOLEAN
    BY ConstantsAssumption
  <2>3. [repo[c] EXCEPT !.visible = visible] \in Cluster
    BY <1>c, <2>2 DEF Cluster
  <2>4. repo' \in [Clusters -> Cluster]
    BY <2>1, <2>3 DEF TypeOK
  <2> QED BY <1>5, <2>4 DEF SetVisibleToAllUsers, TypeOK, Running
<1> QED BY <1>1, <1>2, <1>3, <1>4, <1>5 DEF Command

\* The request records the handlers build are requests.
LEMMA RequestType ==
  ASSUME TypeOK, NEW r \in Requests
  PROVE  /\ NoCluster \in Cluster
         /\ IdleRequest \in Request
         /\ request[r].todo \in SUBSET Clusters /\ request[r].copy \in Cluster
         /\ \A todo \in SUBSET Clusters : Proceed(r, todo) =>
              /\ request' \in [Requests -> Request]
              /\ \A q \in Requests :
                   request'[q].pc \in {"cancel", "cleanup"} => request'[q].cluster \in Clusters
         /\ \A todo \in SUBSET Clusters, pc \in {"cancel", "cleanup"}, c \in Clusters,
              copy \in Cluster, ops \in SUBSET Operation : Await(r, pc, c, copy, ops, todo) =>
              /\ request' \in [Requests -> Request]
              /\ \A q \in Requests :
                   request'[q].pc \in {"cancel", "cleanup"} => request'[q].cluster \in Clusters
<1>1. NoCluster \in Cluster
  BY EmptySeq DEF NoCluster, Cluster
<1>2. IdleRequest \in Request
  BY <1>1 DEF IdleRequest, Request
<1>3. request[r] \in Request
  BY DEF TypeOK
<1>4. ASSUME NEW todo \in SUBSET Clusters, Proceed(r, todo)
      PROVE  /\ request' \in [Requests -> Request]
             /\ \A q \in Requests :
                  request'[q].pc \in {"cancel", "cleanup"} => request'[q].cluster \in Clusters
  <2> DEFINE new == [IdleRequest EXCEPT !.pc = IF todo = {} THEN "idle" ELSE "next", !.todo = todo]
  <2>1. new \in Request /\ new.pc \notin {"cancel", "cleanup"}
    BY <1>1 DEF IdleRequest, Request
  <2>2. request' = [request EXCEPT ![r] = new]
    BY <1>4 DEF Proceed
  <2> HIDE DEF new
  <2> QED BY <2>1, <2>2 DEF TypeOK
<1>5. ASSUME NEW todo \in SUBSET Clusters, NEW pc \in {"cancel", "cleanup"}, NEW c \in Clusters,
             NEW copy \in Cluster, NEW ops \in SUBSET Operation,
             Await(r, pc, c, copy, ops, todo)
      PROVE  /\ request' \in [Requests -> Request]
             /\ \A q \in Requests :
                  request'[q].pc \in {"cancel", "cleanup"} => request'[q].cluster \in Clusters
  <2> DEFINE new == [pc |-> pc, todo |-> todo, cluster |-> c, copy |-> copy, awaited |-> ops]
  <2>1. new \in Request /\ new.cluster \in Clusters
    BY DEF Request
  <2>2. request' = [request EXCEPT ![r] = new]
    BY <1>5 DEF Await
  <2> HIDE DEF new
  <2> QED BY <2>1, <2>2 DEF TypeOK
<1>6. request[r].todo \in SUBSET Clusters /\ request[r].copy \in Cluster
  BY <1>3 DEF Request
<1> QED BY <1>1, <1>2, <1>4, <1>5, <1>6

\* Saving the terminated copy and cleaning up keeps the types.
LEMMA SaveAndCleanUpType ==
  ASSUME TypeOK, NEW r \in Requests, NEW c \in Clusters, NEW copy \in Cluster,
         NEW todo \in SUBSET Clusters, SaveAndCleanUp(r, c, copy, todo),
         lock' = lock, cancellations' \subseteq (Clusters \X Operation)
  PROVE  TypeOK'
<1>1. /\ TerminateSteps(copy) \in Cluster
      /\ SetCluster(TerminateSteps(copy), "TERMINATED") \in Cluster
  BY TerminateStepsType, SetClusterType DEF ClusterState
<1>2. repo' \in [Clusters -> Cluster]
  BY <1>1, SaveType DEF SaveAndCleanUp, TypeOK
<1>3. CASE Proceed(r, todo) /\ UNCHANGED task
  BY <1>2, <1>3, RequestType DEF TypeOK, Running
<1>4. CASE /\ task' = StopRegistered(c, Registered(c))
           /\ Await(r, "cleanup", c, NoCluster, Registered(c), todo)
  <2>1. Registered(c) \in SUBSET Operation
    BY RegisteredType
  <2>2. /\ request' \in [Requests -> Request]
        /\ \A q \in Requests :
             request'[q].pc \in {"cancel", "cleanup"} => request'[q].cluster \in Clusters
    BY <1>4, <2>1, RequestType
  <2> QED BY <1>2, <1>4, <2>2, StopRegisteredType DEF TypeOK, Running
<1> QED BY <1>3, <1>4 DEF SaveAndCleanUp

\* TerminateJobFlows keeps the types.
LEMMA TerminateType ==
  ASSUME TypeOK, NEW r \in Requests, Terminate(r)
  PROVE  TypeOK'
<1>0. /\ \A c \in Clusters : repo[c] \in Cluster
      /\ request[r].todo \in SUBSET Clusters
      /\ request[r].copy \in Cluster
      /\ cancellations \subseteq (Clusters \X Operation)
  BY RequestType DEF TypeOK
<1>1. ASSUME NEW c \in Clusters, TerminateSkip(r, c) \/ TerminateRefused(r, c)
      PROVE  TypeOK'
  <2>1. PICK todo \in SUBSET Clusters : Proceed(r, todo)
    BY <1>0, <1>1 DEF TerminateSkip, TerminateRefused
  <2>2. UNCHANGED <<repo, task, lock, cancellations>>
    BY <1>1 DEF TerminateSkip, TerminateRefused
  <2> QED BY <2>1, <2>2, RequestType DEF TypeOK, Running
<1>2. ASSUME NEW c \in Clusters, TerminateBegin(r, c)
      PROVE  TypeOK'
  <2> DEFINE started == {<<"step", i>> : i \in StartedSteps(repo[c])}
             live    == started \cap Registered(c)
             todo    == request[r].todo \ {c}
  <2>1. started \in SUBSET Operation /\ live \in SUBSET Operation /\ todo \in SUBSET Clusters
    BY <1>0, StepsOfCluster DEF StartedSteps, Operation
  <2>2. cancellations' \subseteq (Clusters \X Operation)
    BY <1>2, <2>1, DeferType DEF TerminateBegin
  <2>3. CASE /\ task' = StopRegistered(c, live)
             /\ Await(r, "cancel", c, repo[c], live, todo)
             /\ UNCHANGED <<repo, lock>>
    <3>1. /\ request' \in [Requests -> Request]
          /\ \A q \in Requests :
               request'[q].pc \in {"cancel", "cleanup"} => request'[q].cluster \in Clusters
      BY <1>0, <2>1, <2>3, RequestType
    <3> QED BY <2>2, <2>3, <3>1, StopRegisteredType DEF TypeOK, Running
  <2>4. CASE SaveAndCleanUp(r, c, repo[c], todo) /\ UNCHANGED lock
    BY <1>0, <2>1, <2>2, <2>4, SaveAndCleanUpType
  <2> QED BY <1>2, <2>3, <2>4 DEF TerminateBegin
<1>3. CASE TerminateSave(r)
  <2>1. request[r].cluster \in Clusters
    BY <1>3 DEF TerminateSave, TypeOK
  <2> QED BY <1>0, <1>3, <2>1, SaveAndCleanUpType DEF TerminateSave
<1>4. CASE TerminateFinish(r)
  <2> DEFINE c == request[r].cluster
  <2>1. c \in Clusters
    BY <1>4 DEF TerminateFinish, TypeOK
  <2>2. SetCluster(repo[c], "TERMINATED") \in Cluster
    BY <1>0, <2>1, SetClusterType DEF ClusterState
  <2>3. repo' \in [Clusters -> Cluster]
    BY <1>4, <2>2 DEF TerminateFinish, TypeOK
  <2> QED BY <1>0, <1>4, <2>3, RequestType DEF TerminateFinish, TypeOK, Running
<1> QED BY <1>1, <1>2, <1>3, <1>4 DEF Terminate

\* A segment of a task keeps the types.
LEMMA WorkType ==
  ASSUME TypeOK, NEW t \in Tasks, Work(t)
  PROVE  TypeOK'
<1> DEFINE c == task[t].cluster
<1>0. /\ task[t] \in Task
      /\ task[t].pc # "free" => c \in Clusters /\ repo[c] \in Cluster
      /\ Running(t) => task[t].op \in Operation
  BY DEF TypeOK
<1>1. CASE SkipDuplicate(t)
  BY <1>1 DEF SkipDuplicate, FreeTask, Task, TypeOK, Running, Phase
<1>2. CASE Drive(t)
  <2> DEFINE booting == SetCluster(repo[c], "BOOTSTRAPPING")
  <2>1. c \in Clusters /\ repo[c] \in Cluster /\ UNCHANGED <<cancellations, request>>
    BY <1>0, <1>2 DEF Drive
  <2>2. booting \in Cluster
    BY <2>1, SetClusterType DEF ClusterState
  <2>3. CASE repo' = [repo EXCEPT ![c] = booting] /\ StartOperation(t, <<"bootstrap", 1>>)
    <3>1. <<"bootstrap", 1>> \in Operation
      BY DEF Operation
    <3>2. repo' \in [Clusters -> Cluster]
      BY <2>2, <2>3, SaveType DEF TypeOK
    <3> QED BY <2>1, <2>3, <3>1, <3>2, DriverType
  <2>4. CASE BootstrapDone(t, booting)
    <3>1. SetCluster(booting, "RUNNING") \in Cluster
      BY <2>2, SetClusterType DEF ClusterState
    <3> QED BY <2>1, <2>4, <3>1, RunQueueType DEF BootstrapDone
  <2>5. CASE RunQueue(t, repo[c])
    BY <2>1, <2>5, RunQueueType
  <2> QED BY <1>2, <2>3, <2>4, <2>5 DEF Drive
<1>3. CASE BootstrapReturn(t)
  <2> DEFINE n == task[t].op[2]
  <2>1. /\ c \in Clusters /\ repo[c] \in Cluster /\ repo \in [Clusters -> Cluster]
        /\ task[t].op \in Operation /\ task[t].op[1] = "bootstrap"
        /\ UNCHANGED <<cancellations, request>>
    BY <1>0, <1>3 DEF BootstrapReturn, Running, Phase, TypeOK
  <2>2. CASE StartOperation(t, <<"bootstrap", n + 1>>) /\ UNCHANGED repo
    <3>1. <<"bootstrap", n + 1>> \in Operation
      BY <2>1 DEF Operation
    <3> QED BY <2>1, <2>2, <3>1, DriverType
  <2>3. CASE Leave(t) /\ UNCHANGED repo
    BY <2>1, <2>3, DriverType
  <2>4. CASE /\ repo' = [repo EXCEPT ![c] = SetCluster(@, "TERMINATED_WITH_ERRORS")]
             /\ Leave(t)
    <3>1. SetCluster(repo[c], "TERMINATED_WITH_ERRORS") \in Cluster
      BY <2>1, SetClusterType DEF ClusterState
    <3>2. repo' \in [Clusters -> Cluster]
      BY <2>1, <2>4, <3>1
    <3> QED BY <2>1, <2>4, <3>2, DriverType
  <2>5. CASE BootstrapDone(t, repo[c])
    <3>1. SetCluster(repo[c], "RUNNING") \in Cluster
      BY <2>1, SetClusterType DEF ClusterState
    <3> QED BY <2>1, <2>5, <3>1, RunQueueType DEF BootstrapDone
  <2> QED BY <1>3, <2>2, <2>3, <2>4, <2>5 DEF BootstrapReturn
<1>4. CASE StepReturn(t)
  <2> DEFINE i == task[t].op[2]
  <2>1. /\ c \in Clusters /\ repo[c] \in Cluster /\ repo \in [Clusters -> Cluster]
        /\ task[t].ok \in BOOLEAN
        /\ UNCHANGED <<cancellations, request>>
    BY <1>0, <1>4 DEF StepReturn, TypeOK, Task
  <2>2. CASE i \in DOMAIN repo[c].steps /\ SettleStep(t, repo[c], i)
    <3>1. PICK settled \in Cluster : RunQueue(t, settled) \/ (Fail(t) /\ UNCHANGED repo)
      BY <2>1, <2>2, SettleStepEffect
    <3> QED BY <2>1, <3>1, RunQueueType, DriverType
  <2>3. CASE Fail(t) /\ UNCHANGED repo
    BY <2>1, <2>3, DriverType
  <2> QED BY <1>4, <2>2, <2>3 DEF StepReturn
<1>5. CASE PrepareFails(t)
  BY <1>0, <1>5 DEF PrepareFails, TypeOK, Task, Running, Phase
<1>6. CASE Register(t)
  <2> DEFINE key == <<c, task[t].op>>
             new == [task[t] EXCEPT !.pc = "running", !.stopping = (key \in cancellations)]
  <2>1. (key \in cancellations) \in BOOLEAN
    OBVIOUS
  <2>2. new \in Task /\ new.cluster = c /\ new.op = task[t].op
    BY <1>0, <2>1 DEF Task, Phase
  <2>3. task' = [task EXCEPT ![t] = new]
    BY <1>0, <1>6 DEF Register, TypeOK, Task
  <2> HIDE DEF new
  <2> QED BY <1>0, <1>6, <2>2, <2>3 DEF Register, TypeOK, Running, Phase
<1>7. CASE Exit(t)
  <2>1. PICK ok \in BOOLEAN :
          task' = [task EXCEPT ![t].pc = "finishing", ![t].stopping = FALSE, ![t].ok = ok]
    BY <1>7 DEF Exit
  <2> DEFINE new == [task[t] EXCEPT !.pc = "finishing", !.stopping = FALSE, !.ok = ok]
  <2>2. new \in Task /\ new.cluster = c /\ new.op = task[t].op
    BY <1>0 DEF Task, Phase
  <2>3. task' = [task EXCEPT ![t] = new]
    BY <1>0, <2>1 DEF TypeOK, Task
  <2> HIDE DEF new
  <2> QED BY <1>0, <1>7, <2>2, <2>3 DEF Exit, TypeOK, Running, Phase
<1> QED BY <1>1, <1>2, <1>3, <1>4, <1>5, <1>6, <1>7 DEF Work

\* TypeOK is an invariant: the handlers, the driver and the runners never leave the shapes
\* declared for the repository, the tasks, the locks and the requests.
THEOREM TypeCorrect == Spec => []TypeOK
<1>1. Init => TypeOK
  <2> SUFFICES ASSUME Init PROVE TypeOK
    OBVIOUS
  <2>1. NoCluster \in Cluster
    BY EmptySeq DEF NoCluster, Cluster
  <2>2. FreeTask \in Task /\ FreeTask.pc = "free"
    BY DEF FreeTask, Task
  <2>3. IdleRequest \in Request /\ IdleRequest.pc = "idle"
    BY <2>1 DEF IdleRequest, Request
  <2> QED BY <2>1, <2>2, <2>3 DEF Init, TypeOK, Running, Phase
<1>2. TypeOK /\ [Next]_vars => TypeOK'
  <2> SUFFICES ASSUME TypeOK, [Next]_vars PROVE TypeOK'
    OBVIOUS
  <2>1. ASSUME NEW c \in Clusters, Command(c) PROVE TypeOK'
    BY <2>1, CommandType
  <2>2. ASSUME NEW r \in Requests, NEW cs \in SUBSET Clusters, TerminateClusters(r, cs)
        PROVE  TypeOK'
    <3> DEFINE new == [IdleRequest EXCEPT !.pc = "next", !.todo = cs]
    <3>1. new \in Request /\ new.pc = "next"
      BY RequestType DEF IdleRequest, Request
    <3>2. request' = [request EXCEPT ![r] = new] /\ UNCHANGED <<repo, task, lock, cancellations>>
      BY <2>2 DEF TerminateClusters
    <3> HIDE DEF new
    <3> QED BY <3>1, <3>2 DEF TypeOK, Running
  <2>3. ASSUME NEW r \in Requests, Terminate(r) PROVE TypeOK'
    BY <2>3, TerminateType
  <2>4. ASSUME NEW t \in Tasks, Work(t) PROVE TypeOK'
    BY <2>4, WorkType
  <2>5. CASE UNCHANGED vars
    BY <2>5 DEF vars, TypeOK, Running
  <2> QED BY <2>1, <2>2, <2>3, <2>4, <2>5 DEF Next
<1> QED BY <1>1, <1>2, PTL DEF Spec

-----------------------------------------------------------------------------
(***************************************************************************)
(* One operation per cluster.  Which task is inside run(), and for what,   *)
(* changes in three actions alone: everything else keeps the runners.      *)
(***************************************************************************)
RunnersKept ==
  /\ lock' = lock
  /\ \A t \in Tasks :
       /\ Running(t)' <=> Running(t)
       /\ Running(t) => task'[t].cluster = task[t].cluster /\ task'[t].op = task[t].op
       /\ task'[t].pc = "failed" => task[t].pc = "failed"

\* Steps that neither start an operation nor return from one.
QuietStep ==
  \/ \E c \in Clusters : Command(c)
  \/ \E r \in Requests, cs \in SUBSET Clusters : TerminateClusters(r, cs)
  \/ \E r \in Requests : Terminate(r)
  \/ \E t \in Tasks : SkipDuplicate(t) \/ PrepareFails(t) \/ Register(t) \/ Exit(t)
  \/ UNCHANGED vars

\* A quiet step keeps the runners.
LEMMA QuietStepKeepsRunners ==
  ASSUME TypeOK, QuietStep
  PROVE  RunnersKept
<1>0. \A t \in Tasks : task[t] \in Task
  BY DEF TypeOK
<1>1. CASE UNCHANGED <<task, lock>>
  BY <1>1 DEF RunnersKept, Running
<1>2. ASSUME NEW c, Schedule(c), UNCHANGED lock PROVE RunnersKept
  <2>1. PICK u \in Tasks : task[u].pc = "free" /\ task' = [task EXCEPT ![u] = ScheduledTask(c)]
    BY <1>2 DEF Schedule
  <2>2. ScheduledTask(c).pc = "scheduled"
    BY DEF ScheduledTask, FreeTask
  <2> QED BY <1>0, <1>2, <2>1, <2>2 DEF RunnersKept, Running, Phase, TypeOK
<1>3. ASSUME NEW c, NEW ops, task' = StopRegistered(c, ops), UNCHANGED lock PROVE RunnersKept
  BY <1>3, StopRegisteredType DEF RunnersKept, Running
<1>4. ASSUME NEW c \in Clusters, Command(c) PROVE RunnersKept
  <2>1. CASE CreateCluster(c)
    BY <1>2, <2>1 DEF CreateCluster
  <2>2. CASE AddSteps(c)
    BY <1>2, <2>2 DEF AddSteps
  <2>3. CASE CancelStep(c)
    BY <1>1, <1>3, <2>3 DEF CancelStep, CancelPendingStep, CancelRunningStep
  <2> QED BY <1>1, <1>4, <2>1, <2>2, <2>3
        DEF Command, SetTerminationProtection, SetVisibleToAllUsers
<1>5. ASSUME NEW r \in Requests, NEW cs, TerminateClusters(r, cs) PROVE RunnersKept
  BY <1>1, <1>5 DEF TerminateClusters
<1>6. ASSUME NEW r \in Requests, Terminate(r) PROVE RunnersKept
  BY <1>1, <1>3, <1>6
     DEF Terminate, TerminateSkip, TerminateRefused, TerminateBegin, TerminateSave,
         TerminateFinish, SaveAndCleanUp
<1>7. ASSUME NEW t \in Tasks, SkipDuplicate(t) PROVE RunnersKept
  BY <1>0, <1>7 DEF SkipDuplicate, FreeTask, RunnersKept, Running, Phase, TypeOK
<1>8. ASSUME NEW t \in Tasks, PrepareFails(t) \/ Register(t) \/ Exit(t) PROVE RunnersKept
  <2>1. CASE PrepareFails(t)
    BY <1>0, <2>1 DEF PrepareFails, RunnersKept, Running, Phase, TypeOK, Task
  <2>2. CASE Register(t)
    BY <1>0, <2>2 DEF Register, RunnersKept, Running, Phase, TypeOK, Task
  <2>3. CASE Exit(t)
    BY <1>0, <2>3 DEF Exit, RunnersKept, Running, Phase, TypeOK, Task
  <2> QED BY <1>8, <2>1, <2>2, <2>3
<1> QED BY <1>1, <1>4, <1>5, <1>6, <1>7, <1>8 DEF QuietStep, vars

\* Where a task is after a segment of the driver.
LEMMA MovesOfTask ==
  ASSUME TypeOK, NEW t \in Tasks, task[t].cluster \in Clusters
  PROVE  /\ (Leave(t) \/ Fail(t)) =>
              /\ ~Running(t)'
              /\ lock' = [lock EXCEPT ![task[t].cluster] = NoTask]
         /\ \A op : StartOperation(t, op) =>
              /\ Running(t)' /\ task'[t].op = op /\ task'[t].cluster = task[t].cluster
              /\ lock' = [lock EXCEPT ![task[t].cluster] = t]
         /\ (Leave(t) \/ Fail(t) \/ \E op : StartOperation(t, op)) =>
              \A u \in Tasks \ {t} : task'[u] = task[u]
<1>1. task \in [Tasks -> Task]
  BY DEF TypeOK
<1>2. ASSUME NEW op, StartOperation(t, op)
      PROVE  /\ Running(t)' /\ task'[t].op = op /\ task'[t].cluster = task[t].cluster
             /\ lock' = [lock EXCEPT ![task[t].cluster] = t]
             /\ \A u \in Tasks \ {t} : task'[u] = task[u]
  <2> DEFINE new == [FreeTask EXCEPT !.pc = "preparing", !.cluster = task[t].cluster, !.op = op]
  <2>1. new.pc = "preparing" /\ new.cluster = task[t].cluster /\ new.op = op
    BY DEF FreeTask
  <2>2. task' = [task EXCEPT ![t] = new] /\ lock' = [lock EXCEPT ![task[t].cluster] = t]
    BY <1>2 DEF StartOperation
  <2> HIDE DEF new
  <2> QED BY <1>1, <2>1, <2>2 DEF Running, Phase
<1>3. (Leave(t) \/ Fail(t)) =>
        /\ ~Running(t)'
        /\ lock' = [lock EXCEPT ![task[t].cluster] = NoTask]
        /\ \A u \in Tasks \ {t} : task'[u] = task[u]
  <2>1. (Leave(t) \/ Fail(t)) => \A u \in Tasks \ {t} : task'[u] = task[u]
    BY <1>1 DEF Leave, Fail
  <2>2. Leave(t) => ~Running(t)' /\ lock' = [lock EXCEPT ![task[t].cluster] = NoTask]
    BY <1>1 DEF Leave, FreeTask, Running, Phase
  <2>3. Fail(t) => ~Running(t)' /\ lock' = [lock EXCEPT ![task[t].cluster] = NoTask]
    BY <1>1 DEF Fail, FreeTask, Running, Phase
  <2> QED BY <2>1, <2>2, <2>3
<1> QED BY <1>2, <1>3

\* The driver takes the lock of a cluster nobody works for.
LEMMA DriveEffect ==
  ASSUME TypeOK, NEW t \in Tasks, Drive(t)
  PROVE  LET c == task[t].cluster IN
         /\ ~Running(t) /\ c \in Clusters /\ lock[c] = NoTask
         /\ UNCHANGED <<cancellations, request>>
         /\ \/ /\ StartOperation(t, <<"bootstrap", 1>>)
               /\ repo[c].state = "STARTING"
               /\ \E new \in Cluster :
                    /\ repo' = [repo EXCEPT ![c] = new]
                    /\ new.state = "BOOTSTRAPPING" /\ new.steps = repo[c].steps
            \/ \E cl \in Cluster :
                 /\ RunQueue(t, cl)
                 /\ cl.steps = repo[c].steps
                 /\ \/ repo[c].state = "STARTING" /\ cl.state = "RUNNING"
                    \/ repo[c].state # "STARTING" /\ cl.state = repo[c].state
<1> DEFINE c == task[t].cluster
           booting == SetCluster(repo[c], "BOOTSTRAPPING")
           ready   == SetCluster(booting, "RUNNING")
<1>1. /\ ~Running(t) /\ c \in Clusters /\ lock[c] = NoTask /\ repo[c] \in Cluster
      /\ UNCHANGED <<cancellations, request>>
  BY DEF Drive, TypeOK, Running, Phase, LockFree
<1>2. booting \in Cluster /\ booting.state = "BOOTSTRAPPING" /\ booting.steps = repo[c].steps
  BY <1>1, SetClusterType DEF ClusterState
<1>3. ready \in Cluster /\ ready.state = "RUNNING" /\ ready.steps = repo[c].steps
  BY <1>2, SetClusterType DEF ClusterState
<1> QED BY <1>1, <1>2, <1>3 DEF Drive, BootstrapDone

\* A bootstrap action returns to the bootstrap runner or to the driver.
LEMMA BootstrapReturnEffect ==
  ASSUME TypeOK, NEW t \in Tasks, BootstrapReturn(t)
  PROVE  LET c == task[t].cluster IN
         /\ Running(t) /\ c \in Clusters /\ task[t].op[1] = "bootstrap"
         /\ UNCHANGED <<cancellations, request>>
         /\ \/ repo' = repo /\ \E n \in Nat : StartOperation(t, <<"bootstrap", n>>)
            \/ repo' = repo /\ repo[c].state # "BOOTSTRAPPING" /\ Leave(t)
            \/ /\ repo[c].state = "BOOTSTRAPPING" /\ Leave(t)
               /\ \E new \in Cluster :
                    /\ repo' = [repo EXCEPT ![c] = new]
                    /\ new.state = "TERMINATED_WITH_ERRORS" /\ new.steps = repo[c].steps
            \/ /\ repo[c].state = "BOOTSTRAPPING"
               /\ \E cl \in Cluster :
                    RunQueue(t, cl) /\ cl.state = "RUNNING" /\ cl.steps = repo[c].steps
<1> DEFINE c == task[t].cluster
           n == task[t].op[2]
           ended == SetCluster(repo[c], "TERMINATED_WITH_ERRORS")
           ready == SetCluster(repo[c], "RUNNING")
<1>1. /\ Running(t) /\ c \in Clusters /\ task[t].op[1] = "bootstrap"
      /\ task[t].op \in Operation /\ repo[c] \in Cluster /\ repo \in [Clusters -> Cluster]
      /\ UNCHANGED <<cancellations, request>>
  BY DEF BootstrapReturn, TypeOK, Running, Phase
<1>2. n + 1 \in Nat
  BY <1>1 DEF Operation
<1>3. /\ ended \in Cluster /\ ended.state = "TERMINATED_WITH_ERRORS" /\ ended.steps = repo[c].steps
      /\ ready \in Cluster /\ ready.state = "RUNNING" /\ ready.steps = repo[c].steps
  BY <1>1, SetClusterType DEF ClusterState
<1>4. CASE StartOperation(t, <<"bootstrap", n + 1>>) /\ UNCHANGED repo
  BY <1>1, <1>2, <1>4
<1>5. CASE repo' = [repo EXCEPT ![c] = SetCluster(@, "TERMINATED_WITH_ERRORS")] /\ Leave(t)
           /\ StillBootstrapping(c)
  <2>1. repo' = [repo EXCEPT ![c] = ended]
    BY <1>1, <1>5
  <2> QED BY <1>1, <1>3, <1>5, <2>1 DEF StillBootstrapping
<1>6. CASE StillBootstrapping(c) /\ BootstrapDone(t, repo[c])
  BY <1>1, <1>3, <1>6 DEF StillBootstrapping, BootstrapDone
<1>7. CASE ~StillBootstrapping(c) /\ Leave(t) /\ UNCHANGED repo
  BY <1>1, <1>7 DEF StillBootstrapping
<1> QED BY <1>4, <1>5, <1>6, <1>7 DEF BootstrapReturn

\* A step returns to the driver, which settles it if it is still there.
LEMMA StepReturnEffect ==
  ASSUME TypeOK, NEW t \in Tasks, StepReturn(t)
  PROVE  LET c == task[t].cluster
             i == task[t].op[2]
         IN
         /\ Running(t) /\ c \in Clusters /\ task[t].op = <<"step", i>>
         /\ task[t].pc = "finishing" /\ ~HasWokenWaiter(c, task[t].op)
         /\ UNCHANGED <<cancellations, request>>
         /\ \/ i \notin DOMAIN repo[c].steps /\ Fail(t) /\ repo' = repo
            \/ /\ i \in DOMAIN repo[c].steps
               /\ \E settled \in Cluster :
                    /\ \/ RunQueue(t, settled)
                       \/ /\ i \in StartedSteps(repo[c]) /\ repo[c].state # "RUNNING"
                          /\ Fail(t) /\ UNCHANGED repo
                    /\ \/ settled.state = repo[c].state
                       \/ /\ i \in StartedSteps(repo[c])
                          /\ settled.state \in {"WAITING", "TERMINATED_WITH_ERRORS"}
                    /\ DOMAIN settled.steps = DOMAIN repo[c].steps
                    /\ settled.steps[i].state \notin {"RUNNING", "CANCEL_PENDING"}
                    /\ \A j \in DOMAIN repo[c].steps :
                         \/ settled.steps[j].state = repo[c].steps[j].state
                         \/ /\ repo[c].steps[j].state = "PENDING"
                            /\ settled.steps[j].state = "CANCELLED"
                         \/ /\ j = i /\ settled.steps[j].state \in StepTerminal
                            /\ repo[c].steps[j].state \in {"RUNNING", "CANCEL_PENDING"}
                    /\ PendingFollow(repo[c], settled)
<1> DEFINE c == task[t].cluster
           i == task[t].op[2]
<1>1. /\ Running(t) /\ c \in Clusters /\ task[t].op[1] = "step" /\ task[t].op \in Operation
      /\ repo[c] \in Cluster /\ task[t] \in Task
      /\ task[t].pc = "finishing" /\ ~HasWokenWaiter(c, task[t].op)
      /\ UNCHANGED <<cancellations, request>>
  BY DEF StepReturn, TypeOK, Running, Phase
<1>2. task[t].op = <<"step", i>> /\ task[t].ok \in BOOLEAN
  BY <1>1 DEF Operation, Task
<1>3. CASE i \notin DOMAIN repo[c].steps /\ Fail(t) /\ UNCHANGED repo
  BY <1>1, <1>2, <1>3
<1>4. CASE i \in DOMAIN repo[c].steps /\ SettleStep(t, repo[c], i)
  BY <1>1, <1>2, <1>4, SettleStepEffect
<1> QED BY <1>3, <1>4 DEF StepReturn

\* The only steps that are not quiet are those three.
LEMMA StepsOfNext ==
  ASSUME [Next]_vars
  PROVE  QuietStep \/ \E t \in Tasks : Drive(t) \/ BootstrapReturn(t) \/ StepReturn(t)
BY DEF Next, QuietStep, Work

\* The strengthening of OneOperation: a task inside run() holds the lock of its cluster.
RunnerHoldsLock == \A t \in Tasks : Running(t) => lock[task[t].cluster] = t

\* A lock is held by a task inside run() for that cluster.
LockHolderRuns ==
  \A c \in Clusters : lock[c] # NoTask => Running(lock[c]) /\ task[lock[c]].cluster = c

\* Whoever runs holds the lock, whoever holds the lock runs.
LEMMA LocksInductive ==
  ASSUME TypeOK, TypeOK', RunnerHoldsLock, LockHolderRuns, [Next]_vars
  PROVE  RunnerHoldsLock' /\ LockHolderRuns'
<1>0. \A t \in Tasks : Running(t) => task[t].cluster \in Clusters
  BY DEF TypeOK, Running, Phase
<1>1. CASE QuietStep
  <2>1. RunnersKept
    BY <1>1, QuietStepKeepsRunners
  <2>2. \A c \in Clusters : lock[c] # NoTask => lock[c] \in Tasks
    BY DEF TypeOK
  <2> QED BY <2>1, <2>2 DEF RunnersKept, RunnerHoldsLock, LockHolderRuns
<1>2. ASSUME NEW t \in Tasks, Drive(t) \/ BootstrapReturn(t) \/ StepReturn(t)
      PROVE  RunnerHoldsLock' /\ LockHolderRuns'
  <2> DEFINE c == task[t].cluster
  <2>1. /\ c \in Clusters
        /\ Running(t) \/ lock[c] = NoTask
    BY <1>2, DriveEffect, BootstrapReturnEffect, StepReturnEffect
  <2>2. Leave(t) \/ Fail(t) \/ \E op : StartOperation(t, op)
    BY <1>2, DriveEffect, BootstrapReturnEffect, StepReturnEffect, RunQueueEffect
  <2>3. \A u \in Tasks \ {t} :
          /\ task'[u] = task[u] /\ Running(u)' = Running(u)
          /\ Running(u) => task[u].cluster # c
    BY <2>1, <2>2, MovesOfTask, ConstantsAssumption DEF RunnerHoldsLock, Running
  <2>4. \A d \in Clusters : lock[d] # NoTask => lock[d] \in Tasks
    BY DEF TypeOK
  <2>5. lock \in [Clusters -> Tasks \cup {NoTask}]
    BY DEF TypeOK
  <2>6. CASE Leave(t) \/ Fail(t)
    <3>1. ~Running(t)' /\ lock' = [lock EXCEPT ![c] = NoTask]
      BY <2>1, <2>6, MovesOfTask
    <3>2. RunnerHoldsLock'
      BY <1>0, <2>3, <2>5, <3>1 DEF RunnerHoldsLock
    <3>3. \A d \in Clusters \ {c} : lock[d] # NoTask => lock[d] # t
      BY <2>1 DEF LockHolderRuns
    <3> QED BY <2>3, <2>4, <2>5, <3>1, <3>2, <3>3 DEF LockHolderRuns
  <2>7. CASE \E op : StartOperation(t, op)
    <3>1. Running(t)' /\ task'[t].cluster = c /\ lock' = [lock EXCEPT ![c] = t]
      BY <2>1, <2>7, MovesOfTask
    <3>2. RunnerHoldsLock'
      BY <1>0, <2>1, <2>3, <2>5, <3>1 DEF RunnerHoldsLock
    <3>3. \A d \in Clusters \ {c} : lock[d] # NoTask => lock[d] # t
      BY <2>1 DEF LockHolderRuns
    <3> QED BY <2>1, <2>3, <2>4, <2>5, <3>1, <3>2, <3>3 DEF LockHolderRuns
  <2> QED BY <2>2, <2>6, <2>7
<1> QED BY <1>1, <1>2, StepsOfNext

\* OneOperation is an invariant: the lock, tested without waiting and taken in the same
\* segment, serialises the operations of a cluster.
THEOREM OneOperationAlways == Spec => [](OneOperation /\ RunnerHoldsLock /\ LockHolderRuns)
<1>1. Init => RunnerHoldsLock /\ LockHolderRuns
  BY DEF Init, RunnerHoldsLock, LockHolderRuns, Running, Phase, FreeTask
<1>2. TypeOK /\ TypeOK' /\ RunnerHoldsLock /\ LockHolderRuns /\ [Next]_vars
        => RunnerHoldsLock' /\ LockHolderRuns'
  BY LocksInductive
<1>3. RunnerHoldsLock => OneOperation
  BY DEF RunnerHoldsLock, OneOperation
<1> QED BY <1>1, <1>2, <1>3, TypeCorrect, PTL DEF Spec

-----------------------------------------------------------------------------
(***************************************************************************)
(* What the handlers do to the aggregate of a cluster.                     *)
(***************************************************************************)
\* A command adds pending steps and schedules a task, or keeps the state of the cluster and
\* cancels at most one step.
LEMMA CommandEffect ==
  ASSUME TypeOK, NEW c \in Clusters, Command(c)
  PROVE  \E new \in Cluster :
           /\ repo' = [repo EXCEPT ![c] = new]
           /\ UNCHANGED request
           /\ \/ /\ repo[c].state = Absent /\ new.state = "STARTING"
                 /\ \A j \in DOMAIN new.steps : new.steps[j].state = "PENDING"
                 /\ Schedule(c)
              \/ /\ repo[c].state \in Serving /\ new.state = "RUNNING"
                 /\ DOMAIN repo[c].steps \subseteq DOMAIN new.steps
                 /\ \A j \in DOMAIN new.steps :
                      new.steps[j].state = IF j \in DOMAIN repo[c].steps
                                           THEN repo[c].steps[j].state ELSE "PENDING"
                 /\ Schedule(c)
              \/ /\ new.state = repo[c].state
                 /\ DOMAIN new.steps = DOMAIN repo[c].steps
                 /\ \A j \in DOMAIN new.steps :
                      \/ new.steps[j].state = repo[c].steps[j].state
                      \/ repo[c].steps[j].state = "PENDING" /\ new.steps[j].state = "CANCELLED"
                      \/ /\ repo[c].steps[j].state = "RUNNING"
                         /\ new.steps[j].state = "CANCEL_PENDING"
<1>0. repo[c] \in Cluster /\ repo \in [Clusters -> Cluster]
  BY DEF TypeOK
<1>1. repo' \in [Clusters -> Cluster] /\ repo'[c] \in Cluster
  BY CommandType DEF TypeOK
<1>2. CASE CreateCluster(c)
  <2>1. PICK keepAlive \in KeepAlives, protected \in Protections \cup {FALSE},
             visible \in Visibilities \cup {FALSE}, n \in 0..BootstrapBound, steps \in StepLists :
          repo' = [repo EXCEPT ![c] =
                     [state |-> "STARTING", keepAlive |-> keepAlive, protected |-> protected,
                      visible |-> visible, bootstraps |-> n, steps |-> steps]]
    BY <1>2 DEF CreateCluster
  <2>2. repo'[c].state = "STARTING" /\ repo'[c].steps = steps
    BY <1>0, <2>1
  <2>3. repo' = [repo EXCEPT ![c] = repo'[c]]
    BY <1>0, <2>1
  <2> QED BY <1>1, <1>2, <2>2, <2>3, StepListsType DEF CreateCluster
<1>3. CASE AddSteps(c)
  <2>1. PICK steps \in StepLists :
          repo' = [repo EXCEPT ![c].state = "RUNNING", ![c].steps = @ \o steps]
    BY <1>3 DEF AddSteps
  <2> DEFINE old == repo[c].steps
             all == old \o steps
  <2>2. old \in Seq(Step) /\ DOMAIN old = 1..Len(old) /\ Len(old) \in Nat
    BY <1>0, StepsOfCluster
  <2>3. steps \in Seq(Step) /\ DOMAIN steps = 1..Len(steps) /\ Len(steps) \in Nat
        /\ \A j \in DOMAIN steps : steps[j].state = "PENDING"
    BY StepListsType, LenProperties
  <2>4. /\ DOMAIN all = 1..(Len(old) + Len(steps))
        /\ \A j \in DOMAIN all : all[j] = IF j <= Len(old) THEN old[j] ELSE steps[j - Len(old)]
    BY <2>2, <2>3, ConcatProperties, LenProperties
  <2>5. /\ DOMAIN old \subseteq DOMAIN all
        /\ \A j \in DOMAIN all :
             all[j].state = IF j \in DOMAIN old THEN old[j].state ELSE "PENDING"
    BY <2>2, <2>3, <2>4
  <2>6. repo'[c].state = "RUNNING" /\ repo'[c].steps = all
    BY <1>0, <2>1 DEF Cluster
  <2>7. repo' = [repo EXCEPT ![c] = repo'[c]]
    BY <1>0, <2>1
  <2> HIDE DEF all
  <2> QED BY <1>1, <1>3, <2>5, <2>6, <2>7 DEF AddSteps
<1>4. CASE CancelStep(c)
  <2>1. PICK i \in DOMAIN repo[c].steps : CancelPendingStep(c, i) \/ CancelRunningStep(c, i)
    BY <1>4 DEF CancelStep
  <2>2. CASE CancelPendingStep(c, i)
    <3> DEFINE new == SetStep(repo[c], i, "CANCELLED")
    <3>1. repo' = [repo EXCEPT ![c] = new] /\ UNCHANGED request /\ repo[c].steps[i].state = "PENDING"
      BY <1>0, <2>2 DEF CancelPendingStep
    <3>2. /\ new \in Cluster /\ new.state = repo[c].state
          /\ DOMAIN new.steps = DOMAIN repo[c].steps
          /\ \A j \in DOMAIN repo[c].steps :
               new.steps[j].state = IF j = i THEN "CANCELLED" ELSE repo[c].steps[j].state
      BY <1>0, SetStepType DEF StepState
    <3> HIDE DEF new
    <3> QED BY <2>1, <3>1, <3>2
  <2>3. CASE CancelRunningStep(c, i)
    <3> DEFINE new == SetStep(repo[c], i, "CANCEL_PENDING")
    <3>1. repo' = [repo EXCEPT ![c] = new] /\ UNCHANGED request /\ repo[c].steps[i].state = "RUNNING"
      BY <1>0, <2>3 DEF CancelRunningStep
    <3>2. /\ new \in Cluster /\ new.state = repo[c].state
          /\ DOMAIN new.steps = DOMAIN repo[c].steps
          /\ \A j \in DOMAIN repo[c].steps :
               new.steps[j].state = IF j = i THEN "CANCEL_PENDING" ELSE repo[c].steps[j].state
      BY <1>0, SetStepType DEF StepState
    <3> HIDE DEF new
    <3> QED BY <2>1, <3>1, <3>2
  <2> QED BY <2>1, <2>2, <2>3
<1>5. CASE SetTerminationProtection(c) \/ SetVisibleToAllUsers(c)
  <2>1. repo[c].state # Absent /\ UNCHANGED request
    BY <1>5 DEF SetTerminationProtection, SetVisibleToAllUsers
  <2>2. repo'[c].state = repo[c].state /\ repo'[c].steps = repo[c].steps
        /\ repo' = [repo EXCEPT ![c] = repo'[c]]
    BY <1>0, <1>5 DEF SetTerminationProtection, SetVisibleToAllUsers, Cluster
  <2> QED BY <1>1, <2>1, <2>2
<1> QED BY <1>2, <1>3, <1>4, <1>5 DEF Command

\* TerminateJobFlows closes the aggregate it read, or the older copy it waited with, or
\* finishes the termination.
LEMMA TerminateEffect ==
  ASSUME TypeOK, NEW r \in Requests, Terminate(r)
  PROVE  \/ repo' = repo
         \/ \E c \in Clusters, new \in Cluster :
              /\ repo' = [repo EXCEPT ![c] = new]
              /\ \/ /\ new.state \in {"TERMINATING", "TERMINATED"}
                    /\ new.state = "TERMINATING" => Registered(c) # {}
                    /\ \A j \in DOMAIN new.steps : new.steps[j].state \in StepTerminal
                    /\ \/ /\ "TERMINATING" \in ClusterTransitions[repo[c].state]
                          /\ DOMAIN new.steps = DOMAIN repo[c].steps
                       \/ /\ request[r].pc = "cancel" /\ request[r].cluster = c
                          /\ ChildrenStopped(r)
                          /\ DOMAIN new.steps = DOMAIN request[r].copy.steps
                 \/ /\ repo[c].state = "TERMINATING" /\ new.state = "TERMINATED"
                    /\ new.steps = repo[c].steps
<1>0. repo \in [Clusters -> Cluster] /\ request[r].copy \in Cluster
  BY RequestType DEF TypeOK
<1>1. ASSUME NEW c \in Clusters, NEW copy \in Cluster, NEW todo, SaveAndCleanUp(r, c, copy, todo)
      PROVE  \E new \in Cluster :
               /\ repo' = [repo EXCEPT ![c] = new]
               /\ new.state \in {"TERMINATING", "TERMINATED"}
               /\ new.state = "TERMINATING" => Registered(c) # {}
               /\ \A j \in DOMAIN new.steps : new.steps[j].state \in StepTerminal
               /\ DOMAIN new.steps = DOMAIN copy.steps
  <2> DEFINE closed == TerminateSteps(copy)
             ended  == SetCluster(closed, "TERMINATED")
  <2>1. /\ closed \in Cluster /\ closed.state = "TERMINATING"
        /\ DOMAIN closed.steps = DOMAIN copy.steps
        /\ \A j \in DOMAIN copy.steps : closed.steps[j].state \in StepTerminal
    BY TerminateStepsType
  <2> HIDE DEF closed
  <2>2. ended \in Cluster /\ ended.state = "TERMINATED" /\ ended.steps = closed.steps
    BY <2>1, SetClusterType DEF ClusterState
  <2> HIDE DEF ended
  <2>3. \/ Registered(c) = {} /\ repo' = [repo EXCEPT ![c] = ended]
        \/ Registered(c) # {} /\ repo' = [repo EXCEPT ![c] = closed]
    BY <1>1 DEF SaveAndCleanUp, ended, closed
  <2> QED BY <2>1, <2>2, <2>3
<1>2. ASSUME NEW c \in Clusters, TerminateSkip(r, c) \/ TerminateRefused(r, c)
      PROVE  repo' = repo
  BY <1>2 DEF TerminateSkip, TerminateRefused
<1>3. ASSUME NEW c \in Clusters, TerminateBegin(r, c)
      PROVE  \/ repo' = repo
             \/ /\ "TERMINATING" \in ClusterTransitions[repo[c].state]
                /\ \E todo : SaveAndCleanUp(r, c, repo[c], todo)
  BY <1>3 DEF TerminateBegin
<1>4. CASE TerminateSave(r)
  <2>1. request[r].cluster \in Clusters /\ request[r].pc = "cancel" /\ ChildrenStopped(r)
    BY <1>4 DEF TerminateSave, TypeOK
  <2>2. SaveAndCleanUp(r, request[r].cluster, request[r].copy, request[r].todo)
    BY <1>4 DEF TerminateSave
  <2> QED BY <1>0, <1>1, <2>1, <2>2
<1>5. CASE TerminateFinish(r)
  <2> DEFINE c == request[r].cluster
             ended == SetCluster(repo[c], "TERMINATED")
  <2>1. c \in Clusters
    BY <1>5 DEF TerminateFinish, TypeOK
  <2>2. ended \in Cluster /\ ended.state = "TERMINATED" /\ ended.steps = repo[c].steps
    BY <1>0, <2>1, SetClusterType DEF ClusterState
  <2>3. \/ repo' = repo
        \/ repo[c].state = "TERMINATING" /\ repo' = [repo EXCEPT ![c] = ended]
    BY <1>0, <1>5, <2>1 DEF TerminateFinish
  <2> HIDE DEF ended
  <2> QED BY <2>1, <2>2, <2>3
<1>6. ASSUME NEW c \in Clusters, TerminateBegin(r, c)
      PROVE  \/ repo' = repo
             \/ \E new \in Cluster :
                  /\ repo' = [repo EXCEPT ![c] = new]
                  /\ new.state \in {"TERMINATING", "TERMINATED"}
                  /\ new.state = "TERMINATING" => Registered(c) # {}
                  /\ \A j \in DOMAIN new.steps : new.steps[j].state \in StepTerminal
                  /\ "TERMINATING" \in ClusterTransitions[repo[c].state]
                  /\ DOMAIN new.steps = DOMAIN repo[c].steps
  BY <1>0, <1>1, <1>3, <1>6
<1> QED BY <1>2, <1>4, <1>5, <1>6 DEF Terminate

-----------------------------------------------------------------------------
(***************************************************************************)
(* The inductive invariant.                                                *)
(***************************************************************************)
\* A bootstrap action runs before the cluster serves or after it has ended, a step while
\* the cluster is RUNNING or after it has ended.
RunnerInPhase ==
  \A t \in Tasks :
    Running(t) =>
      /\ task[t].op[1] = "bootstrap" =>
           repo[task[t].cluster].state \in {"BOOTSTRAPPING", "TERMINATING"} \cup ClusterTerminal
      /\ task[t].op[1] = "step" =>
           repo[task[t].cluster].state \in {"RUNNING", "TERMINATING"} \cup ClusterTerminal

\* The step a task runs is in its cluster, and started while the cluster is RUNNING.
RunnerStepIsKept ==
  \A t \in Tasks :
    LET c == task[t].cluster
        i == task[t].op[2]
    IN Running(t) /\ task[t].op[1] = "step" =>
         /\ i \in DOMAIN repo[c].steps
         /\ repo[c].state = "RUNNING" => i \in StartedSteps(repo[c])

BootstrappingHasRunner ==
  \A c \in Clusters : repo[c].state = "BOOTSTRAPPING" =>
    \E t \in Tasks : Running(t) /\ task[t].cluster = c

\* A cluster that does not exist or is being terminated has no pending step.
NothingPends ==
  \A c \in Clusters : repo[c].state \in {Absent, "TERMINATING"} => PendingSteps(repo[c]) = {}

\* A request that waits before it saves its copy holds up the runner of a step of the copy,
\* and with it every change of the driver to the cluster.
WaiterStopsRunner ==
  \A r \in Requests : request[r].pc = "cancel" =>
    \E t \in Tasks, i \in DOMAIN request[r].copy.steps :
      /\ Running(t) /\ task[t].cluster = request[r].cluster
      /\ task[t].op = <<"step", i>> /\ <<"step", i>> \in request[r].awaited
      /\ repo[task[t].cluster].state # "TERMINATED_WITH_ERRORS"

-----------------------------------------------------------------------------
(***************************************************************************)
(* Each part of the invariant is preserved by quiet steps, and by the      *)
(* three segments of a driver task that is alone with its cluster.         *)
(***************************************************************************)
DriverStep(t) == Drive(t) \/ BootstrapReturn(t) \/ StepReturn(t)

\* While a driver task makes its step, no other task runs for its cluster, and no other
\* cluster and no other task changes.
LEMMA DriverAlone ==
  ASSUME TypeOK, RunnerHoldsLock, NEW t \in Tasks, DriverStep(t)
  PROVE  LET c == task[t].cluster IN
         /\ c \in Clusters
         /\ Leave(t) \/ Fail(t) \/ \E op : StartOperation(t, op)
         /\ \A u \in Tasks \ {t} :
              /\ task'[u] = task[u] /\ Running(u)' = Running(u)
              /\ Running(u) => task[u].cluster # c
         /\ \A d \in Clusters \ {c} : repo'[d] = repo[d]
         /\ \A d \in Clusters : repo[d] \in Cluster
         /\ UNCHANGED request
<1> DEFINE c == task[t].cluster
<1>1. /\ c \in Clusters
      /\ Running(t) \/ lock[c] = NoTask
      /\ UNCHANGED request
  BY DriveEffect, BootstrapReturnEffect, StepReturnEffect DEF DriverStep
<1>2. Leave(t) \/ Fail(t) \/ \E op : StartOperation(t, op)
  BY DriveEffect, BootstrapReturnEffect, StepReturnEffect, RunQueueEffect DEF DriverStep
<1>3. \A u \in Tasks \ {t} :
        /\ task'[u] = task[u] /\ Running(u)' = Running(u)
        /\ Running(u) => task[u].cluster # c
  BY <1>1, <1>2, MovesOfTask, ConstantsAssumption DEF RunnerHoldsLock, Running
<1>4. repo' = repo \/ \E new : repo' = [repo EXCEPT ![c] = new]
  <2>1. ASSUME NEW cl \in Cluster, RunQueue(t, cl)
        PROVE  \E new : repo' = [repo EXCEPT ![c] = new]
    BY <2>1, RunQueueEffect
  <2>2. CASE Drive(t)
    BY <2>1, <2>2, DriveEffect
  <2>3. CASE BootstrapReturn(t)
    BY <2>1, <2>3, BootstrapReturnEffect
  <2>4. CASE StepReturn(t)
    <3>1. \/ repo' = repo
          \/ \E settled \in Cluster : RunQueue(t, settled) \/ repo' = repo
      BY <2>4, StepReturnEffect
    <3> QED BY <2>1, <3>1
  <2> QED BY <2>2, <2>3, <2>4 DEF DriverStep
<1>5. repo \in [Clusters -> Cluster]
  BY DEF TypeOK
<1> QED BY <1>1, <1>2, <1>3, <1>4, <1>5

\* A task that is inside run() after its driver step works for a cluster that is set up
\* or served, or has gone on to its next bootstrap action.
LEMMA DriverStepRuns ==
  ASSUME TypeOK, RunnerHoldsLock, NEW t \in Tasks, DriverStep(t), Running(t)'
  PROVE  LET c == task[t].cluster IN
         /\ task'[t].cluster = c
         /\ \/ task'[t].op[1] = "bootstrap" /\ repo'[c].state = "BOOTSTRAPPING"
            \/ /\ task'[t].op[1] = "bootstrap" /\ repo' = repo
               /\ Running(t) /\ task[t].op[1] = "bootstrap"
            \/ task'[t].op[1] = "step" /\ repo'[c].state = "RUNNING"
<1> DEFINE c == task[t].cluster
<1>0. c \in Clusters /\ repo \in [Clusters -> Cluster]
  BY DriverAlone DEF TypeOK
<1>1. ~Leave(t) /\ ~Fail(t)
  BY <1>0, MovesOfTask
<1>2. ASSUME NEW cl \in Cluster, RunQueue(t, cl)
      PROVE  task'[t].op[1] = "step" /\ repo'[c].state = "RUNNING" /\ task'[t].cluster = c
  <2>1. PICK new \in Cluster, i \in PendingSteps(cl) :
          /\ repo' = [repo EXCEPT ![c] = new]
          /\ StartOperation(t, <<"step", i>>)
          /\ new.state = "RUNNING"
    BY <1>1, <1>2, RunQueueEffect
  <2> QED BY <1>0, <2>1, MovesOfTask
<1>3. CASE Drive(t)
  BY <1>0, <1>1, <1>2, <1>3, DriveEffect, MovesOfTask
<1>4. CASE BootstrapReturn(t)
  <2>1. Running(t) /\ task[t].op[1] = "bootstrap"
    BY <1>4, BootstrapReturnEffect
  <2>2. \/ repo' = repo /\ \E n \in Nat : StartOperation(t, <<"bootstrap", n>>)
        \/ \E cl \in Cluster : RunQueue(t, cl)
    BY <1>1, <1>4, BootstrapReturnEffect
  <2>3. CASE \E cl \in Cluster : RunQueue(t, cl)
    BY <1>2, <2>3
  <2>4. CASE repo' = repo /\ \E n \in Nat : StartOperation(t, <<"bootstrap", n>>)
    <3>1. PICK n \in Nat : StartOperation(t, <<"bootstrap", n>>)
      BY <2>4
    <3>2. task'[t].op = <<"bootstrap", n>> /\ task'[t].cluster = c
      BY <1>0, <3>1, MovesOfTask
    <3> QED BY <2>1, <2>4, <3>2
  <2> QED BY <2>2, <2>3, <2>4
<1>5. CASE StepReturn(t)
  BY <1>0, <1>1, <1>2, <1>5, StepReturnEffect
<1> QED BY <1>3, <1>4, <1>5 DEF DriverStep

\* A command leaves the state of a cluster alone that a runner works for.
LEMMA CommandKeepsRunnerCluster ==
  ASSUME TypeOK, RunnerInPhase, NEW d \in Clusters, Command(d), NEW t \in Tasks, Running(t)
  PROVE  repo'[task[t].cluster].state = repo[task[t].cluster].state
<1> DEFINE c == task[t].cluster
<1>0. c \in Clusters /\ repo \in [Clusters -> Cluster]
  BY DEF TypeOK, Running, Phase
<1>1. CASE d # c
  BY <1>0, <1>1, CommandEffect
<1>2. CASE d = c
  <2>1. repo[c].state # Absent /\ repo[c].state # "WAITING"
    <3>1. task[t].op[1] \in {"bootstrap", "step"}
      BY DEF TypeOK, Operation
    <3> QED BY <3>1 DEF RunnerInPhase, ClusterTerminal, Absent
  <2>2. PICK new \in Cluster :
          /\ repo' = [repo EXCEPT ![c] = new]
          /\ \/ repo[c].state = Absent
             \/ repo[c].state \in Serving /\ new.state = "RUNNING"
             \/ new.state = repo[c].state
    BY <1>2, CommandEffect
  <2> QED BY <1>0, <2>1, <2>2 DEF Serving
<1> QED BY <1>1, <1>2

\* The states a driver step can leave its cluster in, with the task still inside run() or not.
LEMMA RunnerInPhaseInductive ==
  ASSUME TypeOK, TypeOK', RunnerHoldsLock, RunnerInPhase, [Next]_vars
  PROVE  RunnerInPhase'
<1>0. \A t \in Tasks : Running(t) => task[t].cluster \in Clusters
  BY DEF TypeOK, Running, Phase
<1>1. CASE QuietStep
  <2> SUFFICES ASSUME NEW t \in Tasks, Running(t)
               PROVE  LET c == task[t].cluster IN
                      \/ repo'[c].state = repo[c].state
                      \/ repo'[c].state \in {"TERMINATING", "TERMINATED"}
    BY <1>1, QuietStepKeepsRunners DEF RunnerInPhase, RunnersKept, ClusterTerminal
  <2> DEFINE c == task[t].cluster
  <2>1. c \in Clusters /\ repo \in [Clusters -> Cluster]
    BY <1>0 DEF TypeOK
  <2>2. ASSUME NEW d \in Clusters, Command(d)
        PROVE  repo'[c].state = repo[c].state
    BY <2>2, CommandKeepsRunnerCluster
  <2>3. ASSUME NEW r \in Requests, Terminate(r)
        PROVE  \/ repo'[c].state = repo[c].state
               \/ repo'[c].state \in {"TERMINATING", "TERMINATED"}
    BY <2>1, <2>3, TerminateEffect
  <2>4. CASE repo' = repo
    BY <2>4
  <2> QED BY <1>1, <2>2, <2>3, <2>4
        DEF QuietStep, TerminateClusters, SkipDuplicate, PrepareFails, Register, Exit, vars
<1>2. ASSUME NEW t \in Tasks, DriverStep(t)
      PROVE  RunnerInPhase'
  <2> DEFINE c == task[t].cluster
  <2>1. c \in Clusters /\ repo \in [Clusters -> Cluster]
    BY <1>2, DriverAlone DEF TypeOK
  <2>2. ASSUME NEW u \in Tasks \ {t}, Running(u)'
        PROVE  /\ Running(u) /\ task'[u] = task[u]
               /\ repo'[task[u].cluster] = repo[task[u].cluster]
    BY <1>0, <1>2, <2>2, DriverAlone
  <2>3. ASSUME Running(t)'
        PROVE  /\ task'[t].cluster = c
               /\ \/ task'[t].op[1] = "bootstrap" /\ repo'[c].state = "BOOTSTRAPPING"
                  \/ /\ task'[t].op[1] = "bootstrap" /\ repo' = repo
                     /\ Running(t) /\ task[t].op[1] = "bootstrap"
                  \/ task'[t].op[1] = "step" /\ repo'[c].state = "RUNNING"
    BY <1>2, <2>3, DriverStepRuns
  <2> QED BY <2>2, <2>3 DEF RunnerInPhase
<1> QED BY <1>1, <1>2, StepsOfNext DEF DriverStep

\* The steps before and after: a driver step settles the step it ran, cancels pending
\* steps when that one failed, and starts at most one.
StepsFollow(old, new) ==
  /\ DOMAIN new.steps = DOMAIN old.steps
  /\ \A j \in DOMAIN new.steps :
       \/ new.steps[j].state = old.steps[j].state
       \/ old.steps[j].state = "PENDING" /\ new.steps[j].state = "CANCELLED"
       \/ j \in StartedSteps(old) /\ new.steps[j].state \in StepTerminal
  /\ PendingFollow(old, new)

\* The three ways a driver step ends: the task leaves and owes the cluster nothing, it
\* suspends in a bootstrap action, or it suspends in the first pending step.
LeftIdle(t, old, new) ==
  /\ Leave(t)
  /\ StepsFollow(old, new)
  /\ StartedSteps(new) = {}
  /\ new.state \notin {"STARTING", "BOOTSTRAPPING"}
  /\ new.state = old.state \/ old.state \in {"STARTING", "BOOTSTRAPPING"} \cup Serving
  /\ new.state \in {Absent, "TERMINATING"} => new.state = old.state
  /\ PendingSteps(new) # {} => new.state \in ClusterTerminal \cup {Absent, "TERMINATING"}

LeftBootstrapping(t, old, new) ==
  /\ ~Running(t) \/ task[t].op[1] = "bootstrap"
  /\ \E n \in Nat : StartOperation(t, <<"bootstrap", n>>)
  /\ new.steps = old.steps
  /\ StartedSteps(new) = {}
  /\ \/ new.state = old.state
     \/ old.state = "STARTING" /\ new.state = "BOOTSTRAPPING"

LeftInStep(t, old, new) ==
  /\ old.state \notin ClusterTerminal
  /\ new.state = "RUNNING"
  /\ DOMAIN new.steps = DOMAIN old.steps
  /\ \E i \in PendingSteps(old) :
       /\ StartOperation(t, <<"step", i>>)
       /\ \E cl : /\ StepsFollow(old, cl) /\ StartedSteps(cl) = {}
                  /\ IsNextPending(cl, i)
                  /\ \A j \in DOMAIN cl.steps :
                       new.steps[j].state = IF j = i THEN "RUNNING" ELSE cl.steps[j].state

\* What the queue loop makes of a copy without started steps.
LEMMA QueueOutcome ==
  ASSUME NEW t \in Tasks, NEW old \in Cluster, NEW cl \in Cluster, RunQueue(t, cl),
         StepsFollow(old, cl), StartedSteps(cl) = {},
         cl.state \in Serving => old.state \notin ClusterTerminal,
         cl.state = old.state \/ old.state \in {"STARTING", "BOOTSTRAPPING"} \cup Serving,
         cl.state \notin {"STARTING", "BOOTSTRAPPING"},
         cl.state \in {Absent, "TERMINATING"} => cl.state = old.state
  PROVE  \E new \in Cluster :
           /\ repo' = [repo EXCEPT ![task[t].cluster] = new]
           /\ LeftIdle(t, old, new) \/ LeftInStep(t, old, new)
<1>1. PICK new \in Cluster :
        /\ repo' = [repo EXCEPT ![task[t].cluster] = new]
        /\ \/ /\ Leave(t)
              /\ new.steps = cl.steps
              /\ \/ cl.state \notin Serving /\ new.state = cl.state
                 \/ /\ cl.state \in Serving /\ PendingSteps(cl) = {}
                    /\ new.state \in {"WAITING", "TERMINATED"}
           \/ \E i \in PendingSteps(cl) :
                /\ IsNextPending(cl, i)
                /\ StartOperation(t, <<"step", i>>)
                /\ cl.state \in Serving /\ new.state = "RUNNING"
                /\ DOMAIN new.steps = DOMAIN cl.steps
                /\ \A j \in DOMAIN cl.steps :
                     new.steps[j].state = IF j = i THEN "RUNNING" ELSE cl.steps[j].state
  BY RunQueueEffect
<1>2. CASE Leave(t) /\ new.steps = cl.steps /\ cl.state \notin Serving /\ new.state = cl.state
  <2>1. StepsFollow(old, new) /\ StartedSteps(new) = {}
    BY <1>2 DEF StepsFollow, StartedSteps, PendingFollow, PendingSteps
  <2>2. new.state \in ClusterTerminal \cup {Absent, "TERMINATING"}
    BY <1>2 DEF Cluster, ClusterState, ClusterTerminal, Serving
  <2> QED BY <1>1, <1>2, <2>1, <2>2 DEF LeftIdle
<1>3. CASE /\ Leave(t) /\ new.steps = cl.steps /\ cl.state \in Serving
           /\ PendingSteps(cl) = {} /\ new.state \in {"WAITING", "TERMINATED"}
  <2>1. StepsFollow(old, new) /\ StartedSteps(new) = {} /\ PendingSteps(new) = {}
    BY <1>3 DEF StepsFollow, StartedSteps, PendingFollow, PendingSteps
  <2> QED BY <1>1, <1>3, <2>1 DEF LeftIdle, Absent
<1>4. CASE \E i \in PendingSteps(cl) :
             /\ IsNextPending(cl, i)
             /\ StartOperation(t, <<"step", i>>)
             /\ cl.state \in Serving /\ new.state = "RUNNING"
             /\ DOMAIN new.steps = DOMAIN cl.steps
             /\ \A j \in DOMAIN cl.steps :
                  new.steps[j].state = IF j = i THEN "RUNNING" ELSE cl.steps[j].state
  <2>1. PICK i \in PendingSteps(cl) :
             /\ IsNextPending(cl, i)
             /\ StartOperation(t, <<"step", i>>)
             /\ cl.state \in Serving /\ new.state = "RUNNING"
             /\ DOMAIN new.steps = DOMAIN cl.steps
             /\ \A j \in DOMAIN cl.steps :
                  new.steps[j].state = IF j = i THEN "RUNNING" ELSE cl.steps[j].state
    BY <1>4
  <2>2. i \in PendingSteps(old)
    BY DEF PendingSteps, StepsFollow, StepTerminal
  <2>3. DOMAIN new.steps = DOMAIN old.steps
    BY <2>1 DEF StepsFollow
  <2>4. /\ old.state \notin ClusterTerminal
        /\ \E k : /\ StepsFollow(old, k) /\ StartedSteps(k) = {}
                 /\ IsNextPending(k, i)
                 /\ \A j \in DOMAIN k.steps :
                      new.steps[j].state = IF j = i THEN "RUNNING" ELSE k.steps[j].state
    BY <2>1
  <2>5. LeftInStep(t, old, new)
    BY <2>1, <2>2, <2>3, <2>4 DEF LeftInStep
  <2> QED BY <1>1, <2>5
<1> QED BY <1>1, <1>2, <1>3, <1>4

\* The outcome of every driver step, given what holds of the runner and the cluster before.
LEMMA DriverOutcome ==
  ASSUME TypeOK, RunnerHoldsLock, RunnerInPhase, RunnerStepIsKept, BootstrappingHasRunner,
         StartedStepHasRunner, NEW t \in Tasks, DriverStep(t)
  PROVE  LET c == task[t].cluster IN
         \E new \in Cluster :
           /\ repo' = [repo EXCEPT ![c] = new]
           /\ \/ LeftIdle(t, repo[c], new)
              \/ LeftBootstrapping(t, repo[c], new)
              \/ LeftInStep(t, repo[c], new)
<1> DEFINE c == task[t].cluster
           i == task[t].op[2]
           old == repo[c]
<1>0. /\ c \in Clusters /\ old \in Cluster /\ repo \in [Clusters -> Cluster]
      /\ \A u \in Tasks \ {t} : Running(u) => task[u].cluster # c
      /\ repo = [repo EXCEPT ![c] = old]
  BY DriverAlone DEF TypeOK
<1>1. ASSUME ~Running(t) \/ task[t].op[1] # "step"
      PROVE  StartedSteps(old) = {}
  BY <1>0, <1>1 DEF StartedStepHasRunner
<1>2. StepsFollow(old, old)
  BY DEF StepsFollow, PendingFollow
<1>3. CASE Drive(t)
  <2>1. ~Running(t) /\ lock[c] = NoTask
    BY <1>3, DriveEffect
  <2>2. StartedSteps(old) = {}
    BY <1>1, <2>1
  <2>3. old.state # "BOOTSTRAPPING"
    BY <1>0, <2>1 DEF BootstrappingHasRunner
  <2>4. CASE /\ StartOperation(t, <<"bootstrap", 1>>) /\ old.state = "STARTING"
             /\ \E new \in Cluster :
                  /\ repo' = [repo EXCEPT ![c] = new]
                  /\ new.state = "BOOTSTRAPPING" /\ new.steps = old.steps
    BY <2>1, <2>2, <2>4 DEF LeftBootstrapping, StartedSteps
  <2>5. CASE \E cl \in Cluster :
               /\ RunQueue(t, cl) /\ cl.steps = old.steps
               /\ \/ old.state = "STARTING" /\ cl.state = "RUNNING"
                  \/ old.state # "STARTING" /\ cl.state = old.state
    <3>1. PICK cl \in Cluster :
               /\ RunQueue(t, cl) /\ cl.steps = old.steps
               /\ \/ old.state = "STARTING" /\ cl.state = "RUNNING"
                  \/ old.state # "STARTING" /\ cl.state = old.state
      BY <2>5
    <3>2. StepsFollow(old, cl) /\ StartedSteps(cl) = {}
      BY <2>2, <3>1 DEF StepsFollow, StartedSteps, PendingFollow, PendingSteps
    <3>3. /\ cl.state \in Serving => old.state \notin ClusterTerminal
          /\ cl.state = old.state \/ old.state \in {"STARTING", "BOOTSTRAPPING"} \cup Serving
          /\ cl.state \notin {"STARTING", "BOOTSTRAPPING"}
          /\ cl.state \in {Absent, "TERMINATING"} => cl.state = old.state
      BY <2>3, <3>1 DEF Serving, ClusterTerminal, Absent
    <3> QED BY <1>0, <3>1, <3>2, <3>3, QueueOutcome
  <2> QED BY <1>3, <2>4, <2>5, DriveEffect
<1>4. CASE BootstrapReturn(t)
  <2>1. Running(t) /\ task[t].op[1] = "bootstrap"
    BY <1>4, BootstrapReturnEffect
  <2>2. StartedSteps(old) = {}
    BY <1>1, <2>1
  <2>3. old.state \in {"BOOTSTRAPPING", "TERMINATING"} \cup ClusterTerminal
    BY <2>1 DEF RunnerInPhase
  <2>4. CASE repo' = repo /\ \E n \in Nat : StartOperation(t, <<"bootstrap", n>>)
    <3>1. LeftBootstrapping(t, old, old)
      BY <2>1, <2>2, <2>4 DEF LeftBootstrapping
    <3> QED BY <1>0, <2>4, <3>1
  <2>5. CASE repo' = repo /\ old.state # "BOOTSTRAPPING" /\ Leave(t)
    <3>1. LeftIdle(t, old, old)
      BY <1>2, <2>2, <2>3, <2>5 DEF LeftIdle, ClusterTerminal
    <3> QED BY <1>0, <2>5, <3>1
  <2>6. CASE /\ old.state = "BOOTSTRAPPING" /\ Leave(t)
             /\ \E new \in Cluster :
                  /\ repo' = [repo EXCEPT ![c] = new]
                  /\ new.state = "TERMINATED_WITH_ERRORS" /\ new.steps = old.steps
    <3>1. PICK new \in Cluster :
                  /\ repo' = [repo EXCEPT ![c] = new]
                  /\ new.state = "TERMINATED_WITH_ERRORS" /\ new.steps = old.steps
      BY <2>6
    <3>2. StepsFollow(old, new) /\ StartedSteps(new) = {}
      BY <2>2, <3>1 DEF StepsFollow, StartedSteps, PendingFollow, PendingSteps
    <3> QED BY <2>6, <3>1, <3>2 DEF LeftIdle, ClusterTerminal, Absent
  <2>7. CASE /\ old.state = "BOOTSTRAPPING"
             /\ \E cl \in Cluster :
                  RunQueue(t, cl) /\ cl.state = "RUNNING" /\ cl.steps = old.steps
    <3>1. PICK cl \in Cluster : RunQueue(t, cl) /\ cl.state = "RUNNING" /\ cl.steps = old.steps
      BY <2>7
    <3>2. StepsFollow(old, cl) /\ StartedSteps(cl) = {}
      BY <2>2, <3>1 DEF StepsFollow, StartedSteps, PendingFollow, PendingSteps
    <3> QED BY <1>0, <2>7, <3>1, <3>2, QueueOutcome DEF ClusterTerminal, Absent
  <2> QED BY <1>4, <2>4, <2>5, <2>6, <2>7, BootstrapReturnEffect
<1>5. CASE StepReturn(t)
  <2>1. Running(t) /\ task[t].op = <<"step", i>> /\ task[t].op[1] = "step"
    BY <1>5, StepReturnEffect
  <2>2. i \in DOMAIN old.steps
    BY <2>1 DEF RunnerStepIsKept
  <2>3. \A j \in StartedSteps(old) : j = i /\ old.state = "RUNNING"
    <3> SUFFICES ASSUME NEW j \in StartedSteps(old) PROVE j = i /\ old.state = "RUNNING"
      OBVIOUS
    <3>1. /\ old.state = "RUNNING"
          /\ \E u \in Tasks : Running(u) /\ task[u].cluster = c /\ task[u].op = <<"step", j>>
      BY <1>0 DEF StartedStepHasRunner
    <3>2. task[t].op = <<"step", j>>
      BY <1>0, <3>1
    <3> QED BY <2>1, <3>1, <3>2
  <2>4. PICK settled \in Cluster :
          /\ \/ RunQueue(t, settled)
             \/ i \in StartedSteps(old) /\ old.state # "RUNNING" /\ Fail(t) /\ UNCHANGED repo
          /\ \/ settled.state = old.state
             \/ /\ i \in StartedSteps(old)
                /\ settled.state \in {"WAITING", "TERMINATED_WITH_ERRORS"}
          /\ DOMAIN settled.steps = DOMAIN old.steps
          /\ settled.steps[i].state \notin {"RUNNING", "CANCEL_PENDING"}
          /\ \A j \in DOMAIN old.steps :
               \/ settled.steps[j].state = old.steps[j].state
               \/ old.steps[j].state = "PENDING" /\ settled.steps[j].state = "CANCELLED"
               \/ /\ j = i /\ settled.steps[j].state \in StepTerminal
                  /\ old.steps[j].state \in {"RUNNING", "CANCEL_PENDING"}
          /\ PendingFollow(old, settled)
    BY <1>5, <2>2, StepReturnEffect
  <2>5. RunQueue(t, settled)
    BY <2>3, <2>4
  <2>6. StepsFollow(old, settled)
    BY <2>4 DEF StepsFollow, StartedSteps
  <2>7. StartedSteps(settled) = {}
    <3> SUFFICES ASSUME NEW j \in DOMAIN settled.steps,
                        settled.steps[j].state \in {"RUNNING", "CANCEL_PENDING"}
                 PROVE  FALSE
      BY DEF StartedSteps
    <3>1. j # i /\ settled.steps[j].state = old.steps[j].state
      BY <2>4 DEF StepTerminal
    <3>2. j \in StartedSteps(old)
      BY <2>4, <3>1 DEF StartedSteps
    <3> QED BY <2>3, <3>1, <3>2
  <2>8. old.state \in {"RUNNING", "TERMINATING"} \cup ClusterTerminal
    BY <2>1 DEF RunnerInPhase
  <2>9. \/ settled.state = old.state
        \/ old.state = "RUNNING" /\ settled.state \in {"WAITING", "TERMINATED_WITH_ERRORS"}
    BY <2>3, <2>4
  <2>10. /\ settled.state \in Serving => old.state \notin ClusterTerminal
         /\ settled.state = old.state \/ old.state \in {"STARTING", "BOOTSTRAPPING"} \cup Serving
         /\ settled.state \notin {"STARTING", "BOOTSTRAPPING"}
         /\ settled.state \in {Absent, "TERMINATING"} => settled.state = old.state
    BY <2>8, <2>9 DEF Serving, ClusterTerminal, Absent
  <2> QED BY <1>0, <2>5, <2>6, <2>7, <2>10, QueueOutcome
<1> QED BY <1>3, <1>4, <1>5 DEF DriverStep

\* What a quiet step can do to a cluster: a command or a termination, or nothing.
LEMMA QuietSteps ==
  ASSUME QuietStep
  PROVE  \/ \E c \in Clusters : Command(c)
         \/ \E r \in Requests : Terminate(r)
         \/ repo' = repo
BY DEF QuietStep, TerminateClusters, SkipDuplicate, PrepareFails, Register, Exit, vars

\* A quiet step starts no step: a step that is started after it was started before, in a
\* cluster that keeps its state.
LEMMA QuietStepStartsNothing ==
  ASSUME TypeOK, StartedStepHasRunner, QuietStep, NEW c \in Clusters, NEW i \in StartedSteps(repo'[c])
  PROVE  i \in StartedSteps(repo[c]) /\ repo'[c].state = "RUNNING"
<1>0. repo \in [Clusters -> Cluster]
  BY DEF TypeOK
<1>1. ASSUME NEW d \in Clusters, Command(d)
      PROVE  i \in StartedSteps(repo[c]) /\ repo'[c].state = "RUNNING"
  <2>1. CASE d # c
    <3>1. repo'[c] = repo[c]
      BY <1>0, <1>1, <2>1, CommandEffect
    <3> QED BY <3>1 DEF StartedStepHasRunner
  <2>2. CASE d = c
    <3>1. PICK new \in Cluster :
            /\ repo' = [repo EXCEPT ![c] = new]
            /\ \/ /\ repo[c].state = Absent /\ new.state = "STARTING"
                  /\ \A j \in DOMAIN new.steps : new.steps[j].state = "PENDING"
               \/ /\ repo[c].state \in Serving /\ new.state = "RUNNING"
                  /\ DOMAIN repo[c].steps \subseteq DOMAIN new.steps
                  /\ \A j \in DOMAIN new.steps :
                       new.steps[j].state = IF j \in DOMAIN repo[c].steps
                                            THEN repo[c].steps[j].state ELSE "PENDING"
               \/ /\ new.state = repo[c].state
                  /\ DOMAIN new.steps = DOMAIN repo[c].steps
                  /\ \A j \in DOMAIN new.steps :
                       \/ new.steps[j].state = repo[c].steps[j].state
                       \/ repo[c].steps[j].state = "PENDING" /\ new.steps[j].state = "CANCELLED"
                       \/ /\ repo[c].steps[j].state = "RUNNING"
                          /\ new.steps[j].state = "CANCEL_PENDING"
      BY <1>1, <2>2, CommandEffect
    <3>2. repo'[c] = new
      BY <1>0, <3>1
    <3>3. i \in StartedSteps(repo[c]) /\ (new.state = "RUNNING" \/ new.state = repo[c].state)
      BY <3>1, <3>2 DEF StartedSteps
    <3> QED BY <3>2, <3>3 DEF StartedStepHasRunner
  <2> QED BY <2>1, <2>2
<1>2. ASSUME NEW r \in Requests, Terminate(r)
      PROVE  i \in StartedSteps(repo[c]) /\ repo'[c].state = "RUNNING"
  <2>1. CASE repo'[c] = repo[c]
    BY <2>1 DEF StartedStepHasRunner
  <2>2. CASE repo'[c] # repo[c]
    <3>1. PICK new \in Cluster :
            /\ repo'[c] = new
            /\ \/ \A j \in DOMAIN new.steps : new.steps[j].state \in StepTerminal
               \/ repo[c].state = "TERMINATING" /\ new.steps = repo[c].steps
      BY <1>0, <1>2, <2>2, TerminateEffect
    <3>2. CASE \A j \in DOMAIN new.steps : new.steps[j].state \in StepTerminal
      BY <3>1, <3>2 DEF StartedSteps, StepTerminal
    <3>3. CASE repo[c].state = "TERMINATING" /\ new.steps = repo[c].steps
      BY <3>1, <3>3 DEF StartedSteps, StartedStepHasRunner
    <3> QED BY <3>1, <3>2, <3>3
  <2> QED BY <2>1, <2>2
<1>3. CASE repo' = repo
  BY <1>3 DEF StartedStepHasRunner
<1> QED BY <1>1, <1>2, <1>3, QuietSteps

\* Every started step keeps its runner.
LEMMA StartedStepInductive ==
  ASSUME TypeOK, RunnerHoldsLock, RunnerInPhase, RunnerStepIsKept, BootstrappingHasRunner,
         StartedStepHasRunner, [Next]_vars
  PROVE  StartedStepHasRunner'
<1> SUFFICES ASSUME NEW c \in Clusters, NEW i \in StartedSteps(repo'[c])
             PROVE  /\ repo'[c].state = "RUNNING"
                    /\ \E t \in Tasks : /\ Running(t)' /\ task'[t].cluster = c
                                       /\ task'[t].op = <<"step", i>>
  BY DEF StartedStepHasRunner, StartedSteps
<1>1. CASE QuietStep
  <2>1. i \in StartedSteps(repo[c]) /\ repo'[c].state = "RUNNING"
    BY <1>1, QuietStepStartsNothing
  <2>2. PICK t \in Tasks : Running(t) /\ task[t].cluster = c /\ task[t].op = <<"step", i>>
    BY <2>1 DEF StartedStepHasRunner
  <2> QED BY <1>1, <2>1, <2>2, QuietStepKeepsRunners DEF RunnersKept
<1>2. ASSUME NEW t \in Tasks, DriverStep(t)
      PROVE  /\ repo'[c].state = "RUNNING"
             /\ \E u \in Tasks : /\ Running(u)' /\ task'[u].cluster = c
                                /\ task'[u].op = <<"step", i>>
  <2> DEFINE d == task[t].cluster
  <2>0. d \in Clusters /\ repo \in [Clusters -> Cluster]
    BY <1>2, DriverAlone DEF TypeOK
  <2>1. CASE c # d
    <3>1. repo'[c] = repo[c]
      BY <1>2, <2>1, DriverAlone
    <3>2. PICK u \in Tasks : Running(u) /\ task[u].cluster = c /\ task[u].op = <<"step", i>>
      BY <3>1 DEF StartedStepHasRunner
    <3>3. u # t
      BY <2>1, <3>2
    <3>4. Running(u)' /\ task'[u] = task[u]
      BY <1>2, <3>2, <3>3, DriverAlone
    <3> QED BY <3>1, <3>2, <3>4 DEF StartedStepHasRunner
  <2>2. CASE c = d
    <3>1. PICK new \in Cluster :
            /\ repo' = [repo EXCEPT ![d] = new]
            /\ \/ LeftIdle(t, repo[d], new)
               \/ LeftBootstrapping(t, repo[d], new)
               \/ LeftInStep(t, repo[d], new)
      BY <1>2, DriverOutcome
    <3>2. repo'[c] = new
      BY <2>0, <2>2, <3>1
    <3>3. LeftInStep(t, repo[d], new)
      BY <3>1, <3>2 DEF LeftIdle, LeftBootstrapping
    <3>4. PICK j \in PendingSteps(repo[d]) :
            /\ StartOperation(t, <<"step", j>>)
            /\ \E cl : /\ StepsFollow(repo[d], cl) /\ StartedSteps(cl) = {}
                       /\ IsNextPending(cl, j)
                       /\ \A k \in DOMAIN cl.steps :
                            new.steps[k].state = IF k = j THEN "RUNNING" ELSE cl.steps[k].state
      BY <3>3 DEF LeftInStep
    <3>5. i = j
      <4>1. DOMAIN new.steps = DOMAIN repo[d].steps
        BY <3>3 DEF LeftInStep
      <4>2. PICK cl : /\ StepsFollow(repo[d], cl) /\ StartedSteps(cl) = {}
                      /\ \A k \in DOMAIN cl.steps :
                           new.steps[k].state = IF k = j THEN "RUNNING" ELSE cl.steps[k].state
        BY <3>4
      <4> QED BY <3>2, <4>1, <4>2 DEF StartedSteps, StepsFollow
    <3>6. Running(t)' /\ task'[t].cluster = d /\ task'[t].op = <<"step", j>>
      BY <2>0, <3>4, MovesOfTask
    <3>7. new.state = "RUNNING"
      BY <3>3 DEF LeftInStep
    <3> QED BY <2>2, <3>2, <3>5, <3>6, <3>7
  <2> QED BY <2>1, <2>2
<1> QED BY <1>1, <1>2, StepsOfNext DEF DriverStep

\* The shape of a cluster after a command, for a cluster that existed before.
LEMMA CommandOnCluster ==
  ASSUME TypeOK, NEW d \in Clusters, Command(d), NEW c \in Clusters, repo[c].state # Absent
  PROVE  /\ \/ repo'[c].state = repo[c].state
            \/ repo[c].state \in Serving /\ repo'[c].state = "RUNNING"
         /\ DOMAIN repo[c].steps \subseteq DOMAIN repo'[c].steps
         /\ \A j \in DOMAIN repo'[c].steps :
              IF j \in DOMAIN repo[c].steps
              THEN \/ repo'[c].steps[j].state = repo[c].steps[j].state
                   \/ repo[c].steps[j].state = "PENDING" /\ repo'[c].steps[j].state = "CANCELLED"
                   \/ repo[c].steps[j].state = "RUNNING"
                      /\ repo'[c].steps[j].state = "CANCEL_PENDING"
              ELSE repo'[c].steps[j].state = "PENDING" /\ repo'[c].state = "RUNNING"
<1>0. repo \in [Clusters -> Cluster]
  BY DEF TypeOK
<1>1. CASE d # c
  BY <1>0, <1>1, CommandEffect
<1>2. CASE d = c
  <2>1. PICK new \in Cluster :
          /\ repo' = [repo EXCEPT ![c] = new]
          /\ \/ /\ repo[c].state \in Serving /\ new.state = "RUNNING"
                /\ DOMAIN repo[c].steps \subseteq DOMAIN new.steps
                /\ \A j \in DOMAIN new.steps :
                     new.steps[j].state = IF j \in DOMAIN repo[c].steps
                                          THEN repo[c].steps[j].state ELSE "PENDING"
             \/ /\ new.state = repo[c].state
                /\ DOMAIN new.steps = DOMAIN repo[c].steps
                /\ \A j \in DOMAIN new.steps :
                     \/ new.steps[j].state = repo[c].steps[j].state
                     \/ repo[c].steps[j].state = "PENDING" /\ new.steps[j].state = "CANCELLED"
                     \/ /\ repo[c].steps[j].state = "RUNNING"
                        /\ new.steps[j].state = "CANCEL_PENDING"
    BY <1>2, CommandEffect
  <2>2. repo'[c] = new
    BY <1>0, <2>1
  <2> QED BY <2>1, <2>2
<1> QED BY <1>1, <1>2

\* The step of a runner stays in the cluster: terminate_clusters puts back a copy that has
\* it, because the request that waits with a copy waits for the step of the runner.
LEMMA RunnerStepInductive ==
  ASSUME TypeOK, RunnerHoldsLock, RunnerInPhase, RunnerStepIsKept, BootstrappingHasRunner,
         StartedStepHasRunner, WaiterStopsRunner, [Next]_vars
  PROVE  RunnerStepIsKept'
<1>0. /\ repo \in [Clusters -> Cluster]
      /\ \A t \in Tasks : Running(t) => task[t].cluster \in Clusters /\ task[t].op \in Operation
  BY DEF TypeOK, Running, Phase
<1>1. CASE QuietStep
  <2> SUFFICES ASSUME NEW t \in Tasks, Running(t), task[t].op[1] = "step"
               PROVE  LET c == task[t].cluster
                          i == task[t].op[2]
                      IN /\ i \in DOMAIN repo'[c].steps
                         /\ repo'[c].state = "RUNNING" => i \in StartedSteps(repo'[c])
    BY <1>1, QuietStepKeepsRunners DEF RunnersKept, RunnerStepIsKept, StartedSteps
  <2> DEFINE c == task[t].cluster
             i == task[t].op[2]
  <2>1. /\ c \in Clusters /\ i \in DOMAIN repo[c].steps
        /\ repo[c].state = "RUNNING" => i \in StartedSteps(repo[c])
        /\ repo[c].state \in {"RUNNING", "TERMINATING"} \cup ClusterTerminal
    BY <1>0 DEF RunnerStepIsKept, RunnerInPhase
  <2>2. repo[c].state # Absent /\ repo[c].state # "WAITING"
    BY <2>1 DEF Absent, ClusterTerminal
  <2>3. ASSUME NEW d \in Clusters, Command(d)
        PROVE  /\ i \in DOMAIN repo'[c].steps
               /\ repo'[c].state = "RUNNING" => i \in StartedSteps(repo'[c])
    <3>1. /\ \/ repo'[c].state = repo[c].state
             \/ repo[c].state \in Serving /\ repo'[c].state = "RUNNING"
          /\ i \in DOMAIN repo'[c].steps
          /\ \/ repo'[c].steps[i].state = repo[c].steps[i].state
             \/ repo[c].steps[i].state = "PENDING" /\ repo'[c].steps[i].state = "CANCELLED"
             \/ repo[c].steps[i].state = "RUNNING" /\ repo'[c].steps[i].state = "CANCEL_PENDING"
      BY <2>1, <2>2, <2>3, CommandOnCluster
    <3> QED BY <2>1, <2>2, <3>1 DEF StartedSteps, Serving
  <2>4. ASSUME NEW r \in Requests, Terminate(r)
        PROVE  /\ i \in DOMAIN repo'[c].steps
               /\ repo'[c].state = "RUNNING" => i \in StartedSteps(repo'[c])
    <3>1. CASE repo'[c] = repo[c]
      BY <2>1, <3>1
    <3>2. CASE repo'[c] # repo[c]
      <4>1. PICK new \in Cluster :
              /\ repo'[c] = new
              /\ new.state \in {"TERMINATING", "TERMINATED"}
              /\ \/ DOMAIN new.steps = DOMAIN repo[c].steps
                 \/ /\ request[r].pc = "cancel" /\ request[r].cluster = c
                    /\ DOMAIN new.steps = DOMAIN request[r].copy.steps
        BY <1>0, <2>1, <2>4, <3>2, TerminateEffect
      <4>2. CASE DOMAIN new.steps = DOMAIN repo[c].steps
        BY <2>1, <4>1, <4>2
      <4>3. CASE /\ request[r].pc = "cancel" /\ request[r].cluster = c
                 /\ DOMAIN new.steps = DOMAIN request[r].copy.steps
        <5>1. PICK u \in Tasks, j \in DOMAIN request[r].copy.steps :
                Running(u) /\ task[u].cluster = c /\ task[u].op = <<"step", j>>
          BY <4>3 DEF WaiterStopsRunner
        <5>2. u = t
          BY <5>1 DEF RunnerHoldsLock
        <5> QED BY <4>1, <4>3, <5>1, <5>2
      <4> QED BY <4>1, <4>2, <4>3
    <3> QED BY <3>1, <3>2
  <2>5. CASE repo' = repo
    BY <2>1, <2>5
  <2> QED BY <1>1, <2>3, <2>4, <2>5, QuietSteps
<1>2. ASSUME NEW t \in Tasks, DriverStep(t)
      PROVE  RunnerStepIsKept'
  <2> DEFINE c == task[t].cluster
  <2>0. c \in Clusters
    BY <1>2, DriverAlone
  <2>1. ASSUME NEW u \in Tasks \ {t}, Running(u)'
        PROVE  /\ Running(u) /\ task'[u] = task[u]
               /\ repo'[task[u].cluster] = repo[task[u].cluster]
    BY <1>0, <1>2, <2>1, DriverAlone
  <2>2. ASSUME Running(t)', task'[t].op[1] = "step"
        PROVE  /\ task'[t].cluster = c
               /\ task'[t].op[2] \in StartedSteps(repo'[c])
    <3>1. PICK new \in Cluster :
            /\ repo' = [repo EXCEPT ![c] = new]
            /\ \/ LeftIdle(t, repo[c], new)
               \/ LeftBootstrapping(t, repo[c], new)
               \/ LeftInStep(t, repo[c], new)
      BY <1>2, DriverOutcome
    <3>2. repo'[c] = new
      BY <1>0, <2>0, <3>1
    <3>3. ~LeftIdle(t, repo[c], new)
      BY <2>0, <2>2, MovesOfTask DEF LeftIdle
    <3>4. ~LeftBootstrapping(t, repo[c], new)
      <4> SUFFICES ASSUME NEW n \in Nat, StartOperation(t, <<"bootstrap", n>>) PROVE FALSE
        BY DEF LeftBootstrapping
      <4>1. task'[t].op = <<"bootstrap", n>>
        BY <2>0, MovesOfTask
      <4> QED BY <2>2, <4>1
    <3>5. PICK i, cl :
            /\ i \in PendingSteps(repo[c]) /\ StartOperation(t, <<"step", i>>)
            /\ StepsFollow(repo[c], cl)
            /\ DOMAIN new.steps = DOMAIN repo[c].steps
            /\ \A k \in DOMAIN cl.steps :
                 new.steps[k].state = IF k = i THEN "RUNNING" ELSE cl.steps[k].state
      BY <3>1, <3>3, <3>4 DEF LeftInStep
    <3>6. i \in StartedSteps(new)
      BY <3>5 DEF StartedSteps, PendingSteps, StepsFollow
    <3>7. task'[t].op = <<"step", i>> /\ task'[t].cluster = c
      BY <2>0, <3>5, MovesOfTask
    <3> QED BY <3>2, <3>6, <3>7
  <2> QED BY <2>1, <2>2 DEF RunnerStepIsKept, StartedSteps
<1> QED BY <1>1, <1>2, StepsOfNext DEF DriverStep

\* A cluster is BOOTSTRAPPING only while a task is in its bootstrap actions.
LEMMA BootstrappingInductive ==
  ASSUME TypeOK, RunnerHoldsLock, RunnerInPhase, RunnerStepIsKept, BootstrappingHasRunner,
         StartedStepHasRunner, [Next]_vars
  PROVE  BootstrappingHasRunner'
<1>0. repo \in [Clusters -> Cluster]
  BY DEF TypeOK
<1> SUFFICES ASSUME NEW c \in Clusters, repo'[c].state = "BOOTSTRAPPING"
             PROVE  \E t \in Tasks : Running(t)' /\ task'[t].cluster = c
  BY DEF BootstrappingHasRunner
<1>1. CASE QuietStep
  <2>1. repo[c].state = "BOOTSTRAPPING"
    <3>1. ASSUME NEW d \in Clusters, Command(d)
          PROVE  repo[c].state = "BOOTSTRAPPING"
      BY <1>0, <3>1, CommandEffect
    <3>2. ASSUME NEW r \in Requests, Terminate(r)
          PROVE  repo[c].state = "BOOTSTRAPPING"
      BY <1>0, <3>2, TerminateEffect
    <3> QED BY <1>1, <3>1, <3>2, QuietSteps
  <2>2. PICK t \in Tasks : Running(t) /\ task[t].cluster = c
    BY <2>1 DEF BootstrappingHasRunner
  <2> QED BY <1>1, <2>2, QuietStepKeepsRunners DEF RunnersKept
<1>2. ASSUME NEW t \in Tasks, DriverStep(t)
      PROVE  \E u \in Tasks : Running(u)' /\ task'[u].cluster = c
  <2> DEFINE d == task[t].cluster
  <2>0. d \in Clusters
    BY <1>2, DriverAlone
  <2>1. CASE c # d
    <3>1. repo'[c] = repo[c]
      BY <1>2, <2>1, DriverAlone
    <3>2. PICK u \in Tasks : Running(u) /\ task[u].cluster = c
      BY <3>1 DEF BootstrappingHasRunner
    <3>3. u # t
      BY <2>1, <3>2
    <3> QED BY <1>2, <3>2, <3>3, DriverAlone
  <2>2. CASE c = d
    <3>1. PICK new \in Cluster :
            /\ repo' = [repo EXCEPT ![d] = new]
            /\ \/ LeftIdle(t, repo[d], new)
               \/ LeftBootstrapping(t, repo[d], new)
               \/ LeftInStep(t, repo[d], new)
      BY <1>2, DriverOutcome
    <3>2. new.state = "BOOTSTRAPPING"
      BY <1>0, <2>0, <2>2, <3>1
    <3>3. \E op : StartOperation(t, op)
      BY <3>1, <3>2 DEF LeftIdle, LeftBootstrapping, LeftInStep
    <3> QED BY <2>0, <2>2, <3>3, MovesOfTask
  <2> QED BY <2>1, <2>2
<1> QED BY <1>1, <1>2, StepsOfNext DEF DriverStep

\* Only a cluster that exists and is not being terminated gets pending steps.
LEMMA NothingPendsInductive ==
  ASSUME TypeOK, RunnerHoldsLock, RunnerInPhase, RunnerStepIsKept, BootstrappingHasRunner,
         StartedStepHasRunner, NothingPends, [Next]_vars
  PROVE  NothingPends'
<1>0. repo \in [Clusters -> Cluster]
  BY DEF TypeOK
<1> SUFFICES ASSUME NEW c \in Clusters, repo'[c].state \in {Absent, "TERMINATING"}
             PROVE  PendingSteps(repo'[c]) = {}
  BY DEF NothingPends, PendingSteps
<1> USE DEF NothingPends
<1>1. CASE repo'[c] = repo[c]
  BY <1>1
<1>2. ASSUME NEW d \in Clusters, Command(d)
      PROVE  PendingSteps(repo'[c]) = {}
  <2>1. CASE repo[c].state = Absent
    <3>1. CASE c = d
      BY <1>0, <1>2, <2>1, <3>1, CommandEffect DEF Serving, Absent, PendingSteps
    <3>2. CASE c # d
      BY <1>0, <1>1, <1>2, <3>2, CommandEffect
    <3> QED BY <3>1, <3>2
  <2>2. CASE repo[c].state # Absent
    <3>1. /\ repo'[c].state = repo[c].state
          /\ \A j \in DOMAIN repo'[c].steps :
               repo'[c].steps[j].state = "PENDING" =>
                 j \in DOMAIN repo[c].steps /\ repo[c].steps[j].state = "PENDING"
      BY <1>2, <2>2, CommandOnCluster DEF Absent
    <3> QED BY <3>1 DEF PendingSteps
  <2> QED BY <2>1, <2>2
<1>3. ASSUME NEW r \in Requests, Terminate(r), repo'[c] # repo[c]
      PROVE  PendingSteps(repo'[c]) = {}
  <2>1. \A j \in DOMAIN repo'[c].steps : repo'[c].steps[j].state \in StepTerminal
    BY <1>0, <1>3, TerminateEffect DEF Absent
  <2> QED BY <2>1 DEF PendingSteps, StepTerminal
<1>4. ASSUME NEW t \in Tasks, DriverStep(t), repo'[c] # repo[c]
      PROVE  PendingSteps(repo'[c]) = {}
  <2>1. c = task[t].cluster
    BY <1>4, DriverAlone
  <2>2. PICK new \in Cluster :
          /\ repo' = [repo EXCEPT ![c] = new]
          /\ \/ LeftIdle(t, repo[c], new)
             \/ LeftBootstrapping(t, repo[c], new)
             \/ LeftInStep(t, repo[c], new)
    BY <1>4, <2>1, DriverOutcome
  <2>3. repo'[c] = new
    BY <1>0, <2>2
  <2>4. CASE LeftIdle(t, repo[c], new)
    BY <2>3, <2>4 DEF LeftIdle, StepsFollow, PendingSteps, StepTerminal
  <2>5. CASE LeftBootstrapping(t, repo[c], new)
    BY <2>3, <2>5 DEF LeftBootstrapping, PendingSteps, Absent
  <2>6. CASE LeftInStep(t, repo[c], new)
    BY <2>3, <2>6 DEF LeftInStep, Absent
  <2> QED BY <2>2, <2>4, <2>5, <2>6
<1> QED BY <1>1, <1>2, <1>3, <1>4, StepsOfNext, QuietSteps DEF DriverStep

\* A request enters the wait before its save only for children of steps it has just read,
\* and stays as it is until it leaves the wait.
LEMMA WaitIsEntered ==
  ASSUME TypeOK, QuietStep, NEW r \in Requests, request'[r].pc = "cancel"
  PROVE  \/ request'[r] = request[r]
         \/ /\ request'[r].cluster \in Clusters
            /\ LET c == request'[r].cluster IN
               /\ repo' = repo /\ request'[r].copy = repo[c] /\ repo[c].state \notin ClusterTerminal
               /\ \E t \in Tasks, i \in DOMAIN repo[c].steps :
                    /\ Running(t) /\ task[t].cluster = c
                    /\ task[t].op = <<"step", i>> /\ <<"step", i>> \in request'[r].awaited
<1>0. request \in [Requests -> Request] /\ repo \in [Clusters -> Cluster]
  BY DEF TypeOK
<1>1. CASE UNCHANGED request
  BY <1>1
<1>2. ASSUME NEW s \in Requests, NEW todo, Proceed(s, todo)
      PROVE  request'[r] = request[r]
  BY <1>0, <1>2 DEF Proceed, IdleRequest
<1>3. ASSUME NEW s \in Requests, NEW c, NEW copy, NEW todo, SaveAndCleanUp(s, c, copy, todo)
      PROVE  request'[r] = request[r]
  BY <1>0, <1>2, <1>3 DEF SaveAndCleanUp, Await
<1>4. ASSUME NEW s \in Requests, NEW cs, TerminateClusters(s, cs)
      PROVE  request'[r] = request[r]
  BY <1>0, <1>4 DEF TerminateClusters, IdleRequest
<1>5. ASSUME NEW s \in Requests, NEW c \in Clusters, TerminateSkip(s, c) \/ TerminateRefused(s, c)
      PROVE  request'[r] = request[r]
  BY <1>2, <1>5 DEF TerminateSkip, TerminateRefused
<1>6. ASSUME NEW s \in Requests, NEW c \in Clusters, TerminateBegin(s, c), request'[r] # request[r]
      PROVE  /\ request'[r].cluster = c
             /\ repo' = repo /\ request'[r].copy = repo[c] /\ repo[c].state \notin ClusterTerminal
             /\ \E t \in Tasks, i \in DOMAIN repo[c].steps :
                  /\ Running(t) /\ task[t].cluster = c
                  /\ task[t].op = <<"step", i>> /\ <<"step", i>> \in request'[r].awaited
  <2> DEFINE live == {<<"step", i>> : i \in StartedSteps(repo[c])} \cap Registered(c)
  <2>1. /\ live # {} /\ UNCHANGED repo
        /\ Await(s, "cancel", c, repo[c], live, request[s].todo \ {c})
    BY <1>3, <1>6 DEF TerminateBegin
  <2>2. /\ request'[r].cluster = c /\ request'[r].copy = repo[c] /\ request'[r].awaited = live
    BY <1>0, <1>6, <2>1 DEF Await
  <2>3. PICK op \in live : TRUE
    BY <2>1
  <2>4. PICK i \in StartedSteps(repo[c]) : op = <<"step", i>>
    BY <2>3
  <2>5. PICK t \in Tasks : task[t].pc = "running" /\ task[t].cluster = c /\ task[t].op = op
    BY <2>3 DEF Registered
  <2>6. Running(t)
    BY <2>5 DEF Running, Phase
  <2>7. i \in DOMAIN repo[c].steps
    BY DEF StartedSteps
  <2>8. repo[c].state \notin ClusterTerminal
    <3>1. repo[c].state \in ClusterState \/ repo[c].state = Absent
      BY <1>0 DEF Cluster
    <3>2. "TERMINATING" \in ClusterTransitions[repo[c].state]
      BY <1>6 DEF TerminateBegin
    <3> QED BY <3>1, <3>2 DEF ClusterTerminal, ClusterTransitions, ClusterState, Absent
  <2> QED BY <2>1, <2>2, <2>3, <2>4, <2>5, <2>6, <2>7, <2>8
<1>7. ASSUME NEW s \in Requests, TerminateSave(s) \/ TerminateFinish(s)
      PROVE  request'[r] = request[r]
  BY <1>2, <1>3, <1>7 DEF TerminateSave, TerminateFinish
<1>8. ASSUME NEW d \in Clusters, Command(d)
      PROVE  UNCHANGED request
  BY <1>8, CommandEffect
<1>9. ASSUME NEW t \in Tasks, SkipDuplicate(t) \/ PrepareFails(t) \/ Register(t) \/ Exit(t)
      PROVE  UNCHANGED request
  BY <1>9 DEF SkipDuplicate, PrepareFails, Register, Exit
<1>10. ASSUME NEW s \in Requests, Terminate(s), request'[r] # request[r]
       PROVE  \E c \in Clusters : TerminateBegin(s, c)
  BY <1>5, <1>7, <1>10 DEF Terminate
<1> QED BY <1>1, <1>4, <1>6, <1>8, <1>9, <1>10 DEF QuietStep, vars

\* The runner a waiting request stops is still there when the request goes on.
LEMMA WaiterInductive ==
  ASSUME TypeOK, RunnerHoldsLock, WaiterStopsRunner, [Next]_vars
  PROVE  WaiterStopsRunner'
<1>0. /\ repo \in [Clusters -> Cluster]
      /\ \A t \in Tasks : Running(t) => task[t].cluster \in Clusters
  BY DEF TypeOK, Running, Phase
<1> SUFFICES ASSUME NEW r \in Requests, request'[r].pc = "cancel"
             PROVE  \E t \in Tasks, i \in DOMAIN request'[r].copy.steps :
                      /\ Running(t)' /\ task'[t].cluster = request'[r].cluster
                      /\ task'[t].op = <<"step", i>> /\ <<"step", i>> \in request'[r].awaited
                      /\ repo'[task'[t].cluster].state # "TERMINATED_WITH_ERRORS"
  BY DEF WaiterStopsRunner
<1>1. CASE QuietStep
  <2>1. PICK t \in Tasks, i \in DOMAIN request'[r].copy.steps :
          /\ Running(t) /\ task[t].cluster = request'[r].cluster
          /\ task[t].op = <<"step", i>> /\ <<"step", i>> \in request'[r].awaited
          /\ repo[task[t].cluster].state # "TERMINATED_WITH_ERRORS"
    <3>1. CASE request'[r] = request[r]
      BY <3>1 DEF WaiterStopsRunner
    <3>2. CASE request'[r] # request[r]
      BY <1>1, <3>2, WaitIsEntered DEF ClusterTerminal
    <3> QED BY <3>1, <3>2
  <2>2. Running(t)' /\ task'[t].cluster = task[t].cluster /\ task'[t].op = task[t].op
    BY <1>1, <2>1, QuietStepKeepsRunners DEF RunnersKept
  <2>3. repo'[task[t].cluster].state # "TERMINATED_WITH_ERRORS"
    <3>0. task[t].cluster \in Clusters
      BY <1>0, <2>1
    <3>1. ASSUME NEW d \in Clusters, Command(d)
          PROVE  repo'[task[t].cluster].state # "TERMINATED_WITH_ERRORS"
      BY <1>0, <2>1, <3>0, <3>1, CommandEffect
    <3>2. ASSUME NEW s \in Requests, Terminate(s)
          PROVE  repo'[task[t].cluster].state # "TERMINATED_WITH_ERRORS"
      BY <1>0, <2>1, <3>0, <3>2, TerminateEffect
    <3> QED BY <1>1, <2>1, <3>1, <3>2, QuietSteps
  <2> QED BY <2>1, <2>2, <2>3
<1>2. ASSUME NEW u \in Tasks, DriverStep(u)
      PROVE  \E t \in Tasks, i \in DOMAIN request'[r].copy.steps :
                      /\ Running(t)' /\ task'[t].cluster = request'[r].cluster
                      /\ task'[t].op = <<"step", i>> /\ <<"step", i>> \in request'[r].awaited
                      /\ repo'[task'[t].cluster].state # "TERMINATED_WITH_ERRORS"
  <2>0. request' = request
    BY <1>2, DriverAlone
  <2>1. PICK t \in Tasks, i \in DOMAIN request[r].copy.steps :
          /\ Running(t) /\ task[t].cluster = request[r].cluster
          /\ task[t].op = <<"step", i>> /\ <<"step", i>> \in request[r].awaited
          /\ repo[task[t].cluster].state # "TERMINATED_WITH_ERRORS"
    BY <2>0 DEF WaiterStopsRunner
  <2>2. u # t
    <3>1. SUFFICES ASSUME u = t PROVE FALSE
      OBVIOUS
    <3>2. StepReturn(t)
      <4>1. ~Drive(t)
        BY <2>1, DriveEffect
      <4>2. ~BootstrapReturn(t)
        <5> SUFFICES ASSUME BootstrapReturn(t) PROVE FALSE
          OBVIOUS
        <5>1. task[t].op[1] = "bootstrap"
          BY BootstrapReturnEffect
        <5> QED BY <2>1, <5>1
      <4> QED BY <1>2, <3>1, <4>1, <4>2 DEF DriverStep
    <3>3. ~HasWokenWaiter(task[t].cluster, task[t].op)
      BY <3>2, StepReturnEffect
    <3> QED BY <2>0, <2>1, <3>3 DEF HasWokenWaiter
  <2>3. Running(t)' /\ task'[t] = task[t] /\ task[t].cluster # task[u].cluster
    BY <1>2, <2>1, <2>2, DriverAlone
  <2>4. repo'[task[t].cluster] = repo[task[t].cluster]
    BY <1>0, <1>2, <2>1, <2>3, DriverAlone
  <2> QED BY <2>0, <2>1, <2>3, <2>4
<1> QED BY <1>1, <1>2, StepsOfNext DEF DriverStep

\* A driver task never meets the two situations in which its handler would raise.
LEMMA NoTaskFailsInductive ==
  ASSUME TypeOK, RunnerHoldsLock, RunnerInPhase, RunnerStepIsKept, BootstrappingHasRunner,
         StartedStepHasRunner, NoTaskFails, [Next]_vars
  PROVE  NoTaskFails'
<1>1. CASE QuietStep
  BY <1>1, QuietStepKeepsRunners DEF RunnersKept, NoTaskFails
<1>2. ASSUME NEW t \in Tasks, DriverStep(t)
      PROVE  NoTaskFails'
  <2> DEFINE c == task[t].cluster
  <2>1. c \in Clusters /\ repo \in [Clusters -> Cluster] /\ task \in [Tasks -> Task]
    BY <1>2, DriverAlone DEF TypeOK
  <2>2. Leave(t) \/ \E op : StartOperation(t, op)
    BY <1>2, DriverOutcome DEF LeftIdle, LeftBootstrapping, LeftInStep
  <2>3. task'[t].pc # "failed"
    <3>1. CASE Leave(t)
      BY <2>1, <3>1 DEF Leave, FreeTask
    <3>2. CASE \E op : StartOperation(t, op)
      BY <2>1, <3>2, MovesOfTask DEF Running, Phase
    <3> QED BY <2>2, <3>1, <3>2
  <2> QED BY <1>2, <2>3, DriverAlone DEF NoTaskFails
<1> QED BY <1>1, <1>2, StepsOfNext DEF DriverStep

\* A scheduled task stays, unless it skips because somebody holds the lock.
LEMMA ScheduledTasksAreKept ==
  ASSUME TypeOK, QuietStep, NEW u \in Tasks, task[u].pc = "scheduled"
  PROVE  task'[u] = task[u] \/ ~LockFree(task[u].cluster)
<1>0. task \in [Tasks -> Task]
  BY DEF TypeOK
<1>1. ASSUME NEW c, NEW ops, task' = StopRegistered(c, ops)
      PROVE  task'[u] = task[u]
  BY <1>1 DEF StopRegistered
<1>2. ASSUME NEW c, Schedule(c)
      PROVE  task'[u] = task[u]
  BY <1>0, <1>2 DEF Schedule
<1>3. ASSUME NEW c \in Clusters, Command(c)
      PROVE  task'[u] = task[u]
  BY <1>1, <1>2, <1>3 DEF Command, CreateCluster, AddSteps, CancelStep, CancelPendingStep,
     CancelRunningStep, SetTerminationProtection, SetVisibleToAllUsers
<1>4. ASSUME NEW r, NEW c, NEW copy, NEW todo, SaveAndCleanUp(r, c, copy, todo)
      PROVE  task'[u] = task[u]
  BY <1>1, <1>4 DEF SaveAndCleanUp
<1>5. ASSUME NEW r \in Requests, Terminate(r)
      PROVE  task'[u] = task[u]
  BY <1>1, <1>4, <1>5
     DEF Terminate, TerminateSkip, TerminateRefused, TerminateBegin, TerminateSave, TerminateFinish
<1>6. ASSUME NEW t \in Tasks, SkipDuplicate(t) \/ PrepareFails(t) \/ Register(t) \/ Exit(t)
      PROVE  task'[u] = task[u] \/ ~LockFree(task[u].cluster)
  BY <1>0, <1>6 DEF SkipDuplicate, PrepareFails, Register, Exit
<1> QED BY <1>3, <1>5, <1>6 DEF QuietStep, TerminateClusters, vars

\* A task that is scheduled for a cluster, or inside run() for it.
HasTask(c) == \E t \in Tasks : task[t].cluster = c /\ task[t].pc \in {"scheduled"} \cup Phase

\* No wake-up is lost: whoever leaves a cluster leaves it without pending steps or ended,
\* and whoever adds a step schedules a task.
LEMMA PendingStepInductive ==
  ASSUME TypeOK, RunnerHoldsLock, LockHolderRuns, RunnerInPhase, RunnerStepIsKept,
         BootstrappingHasRunner, StartedStepHasRunner, NothingPends, PendingStepHasTask,
         [Next]_vars
  PROVE  PendingStepHasTask'
<1>0. /\ repo \in [Clusters -> Cluster] /\ task \in [Tasks -> Task]
      /\ lock \in [Clusters -> Tasks \cup {NoTask}]
  BY DEF TypeOK
<1> SUFFICES ASSUME NEW c \in Clusters, PendingSteps(repo'[c]) # {},
                    repo'[c].state \notin ClusterTerminal
             PROVE  \E t \in Tasks : task'[t].cluster = c /\ task'[t].pc \in {"scheduled"} \cup Phase
  BY DEF PendingStepHasTask, PendingSteps
<1>1. ASSUME QuietStep, HasTask(c)
      PROVE  \E t \in Tasks : task'[t].cluster = c /\ task'[t].pc \in {"scheduled"} \cup Phase
  <2>1. PICK t \in Tasks : task[t].cluster = c /\ task[t].pc \in {"scheduled"} \cup Phase
    BY <1>1 DEF HasTask
  <2>2. RunnersKept
    BY <1>1, QuietStepKeepsRunners
  <2>3. CASE Running(t)
    BY <2>1, <2>2, <2>3 DEF RunnersKept, Running
  <2>4. CASE task[t].pc = "scheduled"
    <3>1. CASE task'[t] = task[t]
      BY <2>1, <3>1
    <3>2. CASE ~LockFree(c)
      <4>1. lock[c] \in Tasks /\ Running(lock[c]) /\ task[lock[c]].cluster = c
        BY <1>0, <3>2 DEF LockFree, LockHolderRuns
      <4> QED BY <2>2, <4>1 DEF RunnersKept, Running
    <3> QED BY <1>1, <2>1, <2>4, <3>1, <3>2, ScheduledTasksAreKept
  <2> QED BY <2>1, <2>3, <2>4 DEF Running
<1>2. ASSUME NEW d \in Clusters, Command(d)
      PROVE  HasTask(c) \/ \E t \in Tasks : task'[t].cluster = c /\ task'[t].pc = "scheduled"
  <2>1. PICK new \in Cluster :
          /\ repo' = [repo EXCEPT ![d] = new]
          /\ \/ Schedule(d)
             \/ /\ new.state = repo[d].state
                /\ \A j \in DOMAIN new.steps :
                     new.steps[j].state = "PENDING" => j \in PendingSteps(repo[d])
    <3>1. \A k \in {repo[d]} : \A new \in Cluster :
            /\ DOMAIN new.steps = DOMAIN k.steps
            /\ \A j \in DOMAIN new.steps :
                 \/ new.steps[j].state = k.steps[j].state
                 \/ k.steps[j].state = "PENDING" /\ new.steps[j].state = "CANCELLED"
                 \/ k.steps[j].state = "RUNNING" /\ new.steps[j].state = "CANCEL_PENDING"
            => \A j \in DOMAIN new.steps : new.steps[j].state = "PENDING" => j \in PendingSteps(k)
      BY DEF PendingSteps
    <3> QED BY <1>2, <3>1, CommandEffect
  <2>2. CASE Schedule(d) /\ c = d
    BY <1>0, <2>2 DEF Schedule, ScheduledTask, FreeTask
  <2>3. CASE c # d
    <3>1. repo'[c] = repo[c]
      BY <1>0, <2>1, <2>3
    <3> QED BY <3>1 DEF PendingStepHasTask, HasTask
  <2>4. CASE /\ c = d /\ new.state = repo[d].state
             /\ \A j \in DOMAIN new.steps :
                  new.steps[j].state = "PENDING" => j \in PendingSteps(repo[d])
    <3>1. repo'[c] = new
      BY <1>0, <2>1, <2>4
    <3> QED BY <2>4, <3>1 DEF PendingStepHasTask, HasTask, PendingSteps
  <2> QED BY <2>1, <2>2, <2>3, <2>4
<1>3. ASSUME NEW r \in Requests, Terminate(r)
      PROVE  HasTask(c)
  <2>1. CASE repo'[c] = repo[c]
    BY <2>1 DEF PendingStepHasTask, HasTask
  <2>2. CASE repo'[c] # repo[c]
    <3>1. PICK new \in Cluster :
            /\ repo'[c] = new
            /\ \/ \A j \in DOMAIN new.steps : new.steps[j].state \in StepTerminal
               \/ new.state = "TERMINATED"
      BY <1>0, <1>3, <2>2, TerminateEffect
    <3> QED BY <3>1 DEF PendingSteps, StepTerminal, ClusterTerminal
  <2> QED BY <2>1, <2>2
<1>4. ASSUME repo' = repo
      PROVE  HasTask(c)
  BY <1>4 DEF PendingStepHasTask, HasTask
<1>5. ASSUME NEW t \in Tasks, DriverStep(t)
      PROVE  \E u \in Tasks : task'[u].cluster = c /\ task'[u].pc \in {"scheduled"} \cup Phase
  <2> DEFINE d == task[t].cluster
  <2>0. d \in Clusters
    BY <1>5, DriverAlone
  <2>1. CASE c # d
    <3>1. repo'[c] = repo[c]
      BY <1>5, <2>1, DriverAlone
    <3>2. PICK u \in Tasks : task[u].cluster = c /\ task[u].pc \in {"scheduled"} \cup Phase
      BY <3>1 DEF PendingStepHasTask
    <3>3. u # t
      BY <2>1, <3>2
    <3> QED BY <1>5, <3>2, <3>3, DriverAlone
  <2>2. CASE c = d
    <3>1. PICK new \in Cluster :
            /\ repo' = [repo EXCEPT ![d] = new]
            /\ \/ LeftIdle(t, repo[d], new)
               \/ LeftBootstrapping(t, repo[d], new)
               \/ LeftInStep(t, repo[d], new)
      BY <1>5, DriverOutcome
    <3>2. repo'[c] = new
      BY <1>0, <2>0, <2>2, <3>1
    <3>3. ~LeftIdle(t, repo[d], new)
      <4> SUFFICES ASSUME LeftIdle(t, repo[d], new) PROVE FALSE
        OBVIOUS
      <4>1. new.state \in {Absent, "TERMINATING"} /\ repo[d].state = new.state
        BY <3>2 DEF LeftIdle
      <4>2. PendingSteps(repo[d]) = {}
        BY <2>0, <4>1 DEF NothingPends
      <4> QED BY <3>2, <4>2 DEF LeftIdle, StepsFollow, PendingSteps, StepTerminal
    <3>4. \E op : StartOperation(t, op)
      BY <3>1, <3>3 DEF LeftBootstrapping, LeftInStep
    <3> QED BY <2>0, <2>2, <3>4, MovesOfTask DEF Running
  <2> QED BY <2>1, <2>2
<1>6. CASE QuietStep
  <2>1. HasTask(c) \/ \E t \in Tasks : task'[t].cluster = c /\ task'[t].pc = "scheduled"
    BY <1>2, <1>3, <1>4, <1>6, QuietSteps
  <2>2. CASE HasTask(c)
    BY <1>1, <1>6, <2>2
  <2>3. CASE \E t \in Tasks : task'[t].cluster = c /\ task'[t].pc = "scheduled"
    BY <2>3
  <2> QED BY <2>1, <2>2, <2>3
<1> QED BY <1>5, <1>6, StepsOfNext DEF DriverStep

\* Steps are only appended behind, cancelled or settled, and the first pending one is started.
LEMMA StepOrderInductive ==
  ASSUME TypeOK, RunnerHoldsLock, RunnerInPhase, RunnerStepIsKept, BootstrappingHasRunner,
         StartedStepHasRunner, StepsRunInOrder, [Next]_vars
  PROVE  StepsRunInOrder'
<1>0. repo \in [Clusters -> Cluster]
  BY DEF TypeOK
<1> SUFFICES ASSUME NEW c \in Clusters, NEW i \in DOMAIN repo'[c].steps, NEW j \in DOMAIN repo'[c].steps,
                    i < j, repo'[c].steps[i].state = "PENDING", repo'[c] # repo[c]
             PROVE  repo'[c].steps[j].state \in {"PENDING", "CANCELLED"}
  BY DEF StepsRunInOrder
<1> DEFINE old == repo[c]
<1>1. DOMAIN old.steps = 1..Len(old.steps) /\ Len(old.steps) \in Nat
  BY <1>0, StepsOfCluster
<1>2. ASSUME NEW d \in Clusters, Command(d)
      PROVE  repo'[c].steps[j].state \in {"PENDING", "CANCELLED"}
  <2>1. CASE old.state = Absent
    <3>1. c = d
      BY <1>0, <1>2, CommandEffect
    <3>2. PICK new \in Cluster :
            /\ repo' = [repo EXCEPT ![d] = new]
            /\ UNCHANGED request
            /\ \/ /\ repo[d].state = Absent /\ new.state = "STARTING"
                  /\ \A k \in DOMAIN new.steps : new.steps[k].state = "PENDING"
                  /\ Schedule(d)
               \/ /\ repo[d].state \in Serving /\ new.state = "RUNNING"
                  /\ DOMAIN repo[d].steps \subseteq DOMAIN new.steps
                  /\ \A k \in DOMAIN new.steps :
                       new.steps[k].state = IF k \in DOMAIN repo[d].steps
                                            THEN repo[d].steps[k].state ELSE "PENDING"
                  /\ Schedule(d)
               \/ /\ new.state = repo[d].state
                  /\ DOMAIN new.steps = DOMAIN repo[d].steps
                  /\ \A k \in DOMAIN new.steps :
                       \/ new.steps[k].state = repo[d].steps[k].state
                       \/ repo[d].steps[k].state = "PENDING" /\ new.steps[k].state = "CANCELLED"
                       \/ /\ repo[d].steps[k].state = "RUNNING"
                          /\ new.steps[k].state = "CANCEL_PENDING"
      BY <1>2, CommandEffect
    <3>3. repo'[c] = new
      BY <1>0, <3>1, <3>2
    <3>4. old.state \notin Serving
      BY <2>1 DEF Serving, Absent
    <3> QED BY <3>1, <3>2, <3>3, <3>4 DEF StepsRunInOrder
  <2>2. CASE old.state # Absent
    <3>1. /\ DOMAIN old.steps \subseteq DOMAIN repo'[c].steps
          /\ \A k \in DOMAIN repo'[c].steps :
               IF k \in DOMAIN old.steps
               THEN \/ repo'[c].steps[k].state = old.steps[k].state
                    \/ old.steps[k].state = "PENDING" /\ repo'[c].steps[k].state = "CANCELLED"
                    \/ /\ old.steps[k].state = "RUNNING"
                       /\ repo'[c].steps[k].state = "CANCEL_PENDING"
               ELSE repo'[c].steps[k].state = "PENDING"
      BY <1>2, <2>2, CommandOnCluster
    <3>2. CASE j \in DOMAIN old.steps
      <4>1. i \in DOMAIN old.steps
        <5>1. repo'[c] \in Cluster
          BY <1>0, <1>2, CommandEffect
        <5>2. DOMAIN repo'[c].steps = 1..Len(repo'[c].steps) /\ Len(repo'[c].steps) \in Nat
          BY <5>1, StepsOfCluster
        <5> QED BY <1>1, <3>2, <5>2
      <4> QED BY <3>1, <3>2, <4>1 DEF StepsRunInOrder
    <3>3. CASE j \notin DOMAIN old.steps
      BY <3>1, <3>3
    <3> QED BY <3>2, <3>3
  <2> QED BY <2>1, <2>2
<1>3. ASSUME NEW r \in Requests, Terminate(r)
      PROVE  repo'[c].steps[j].state \in {"PENDING", "CANCELLED"}
  <2>1. \/ repo'[c].steps[i].state \in StepTerminal
        \/ repo'[c].steps = old.steps
    BY <1>0, <1>3, TerminateEffect
  <2> QED BY <2>1 DEF StepTerminal, StepsRunInOrder
<1>4. ASSUME NEW t \in Tasks, DriverStep(t)
      PROVE  repo'[c].steps[j].state \in {"PENDING", "CANCELLED"}
  <2>1. c = task[t].cluster
    BY <1>4, DriverAlone
  <2>2. PICK new \in Cluster :
          /\ repo' = [repo EXCEPT ![c] = new]
          /\ \/ LeftIdle(t, old, new)
             \/ LeftBootstrapping(t, old, new)
             \/ LeftInStep(t, old, new)
    BY <1>4, <2>1, DriverOutcome
  <2>3. repo'[c] = new
    BY <1>0, <2>2
  <2>4. ASSUME NEW cl, StepsFollow(old, cl), cl.steps[i].state = "PENDING"
        PROVE  cl.steps[j].state \in {"PENDING", "CANCELLED"}
    <3>1. i \in DOMAIN old.steps /\ j \in DOMAIN old.steps
      BY <2>2, <2>3 DEF LeftIdle, LeftBootstrapping, LeftInStep, StepsFollow
    <3>2. old.steps[i].state = "PENDING"
      BY <2>4, <3>1 DEF StepsFollow, StepTerminal
    <3>3. old.steps[j].state \in {"PENDING", "CANCELLED"}
      BY <3>1, <3>2 DEF StepsRunInOrder
    <3> QED BY <2>4, <3>1, <3>3 DEF StepsFollow, StartedSteps
  <2>5. CASE LeftIdle(t, old, new)
    BY <2>3, <2>4, <2>5 DEF LeftIdle
  <2>6. CASE LeftBootstrapping(t, old, new)
    <3>1. repo'[c].steps = old.steps
      BY <2>3, <2>6 DEF LeftBootstrapping
    <3> QED BY <3>1 DEF StepsRunInOrder
  <2>7. CASE LeftInStep(t, old, new)
    <3>1. PICK k, cl :
            /\ StepsFollow(old, cl) /\ IsNextPending(cl, k)
            /\ DOMAIN new.steps = DOMAIN old.steps
            /\ \A n \in DOMAIN cl.steps :
                 new.steps[n].state = IF n = k THEN "RUNNING" ELSE cl.steps[n].state
      BY <2>7 DEF LeftInStep
    <3>2. i \in DOMAIN cl.steps /\ j \in DOMAIN cl.steps /\ i \in 1..Len(old.steps) /\ j \in 1..Len(old.steps)
      BY <1>1, <2>3, <3>1 DEF StepsFollow
    <3>3. i # k /\ cl.steps[i].state = "PENDING"
      BY <2>3, <3>1, <3>2
    <3>4. cl.steps[j].state \in {"PENDING", "CANCELLED"}
      BY <2>4, <3>1, <3>3
    <3>5. j # k
      BY <1>1, <3>1, <3>2, <3>3 DEF IsNextPending, PendingSteps
    <3> QED BY <2>3, <3>1, <3>2, <3>4, <3>5
  <2> QED BY <2>2, <2>5, <2>6, <2>7
<1> QED BY <1>2, <1>3, <1>4, StepsOfNext, QuietSteps DEF DriverStep

-----------------------------------------------------------------------------
(***************************************************************************)
(* The results.                                                            *)
(***************************************************************************)
\* What the driver relies on about its runner: each part needs the others.
RunnerInv ==
  /\ RunnerInPhase
  /\ RunnerStepIsKept
  /\ BootstrappingHasRunner
  /\ NothingPends
  /\ WaiterStopsRunner
  /\ StartedStepHasRunner

\* What the queue owes to its clients.
QueueInv ==
  /\ PendingStepHasTask
  /\ StepsRunInOrder
  /\ NoTaskFails

EmrInv == RunnerHoldsLock /\ LockHolderRuns /\ RunnerInv /\ QueueInv

\* Initially no cluster exists, no task runs and no request waits.
LEMMA EmrInvInit == Init => EmrInv
<1> SUFFICES ASSUME Init PROVE EmrInv
  OBVIOUS
<1>2. /\ \A t \in Tasks : task[t].pc = "free" /\ ~Running(t)
      /\ \A c \in Clusters : /\ repo[c].state = Absent /\ lock[c] = NoTask
                            /\ DOMAIN repo[c].steps = {}
      /\ \A r \in Requests : request[r].pc = "idle"
  BY DEF Init, FreeTask, NoCluster, IdleRequest, Running, Phase
<1>3. RunnerHoldsLock /\ LockHolderRuns
  BY <1>2 DEF RunnerHoldsLock, LockHolderRuns
<1>4. RunnerInv
  BY <1>2 DEF RunnerInv, RunnerInPhase, RunnerStepIsKept, BootstrappingHasRunner, NothingPends,
     WaiterStopsRunner, StartedStepHasRunner, StartedSteps, PendingSteps, Absent
<1>5. QueueInv
  BY <1>2 DEF QueueInv, PendingStepHasTask, StepsRunInOrder, NoTaskFails, PendingSteps
<1> QED BY <1>3, <1>4, <1>5 DEF EmrInv

\* Every step preserves every part.
LEMMA EmrInvNext ==
  ASSUME TypeOK, TypeOK', EmrInv, [Next]_vars
  PROVE  EmrInv'
<1> USE DEF EmrInv, RunnerInv, QueueInv
<1>1. RunnerHoldsLock' /\ LockHolderRuns'
  BY LocksInductive
<1>2. RunnerInPhase'
  BY RunnerInPhaseInductive
<1>3. RunnerStepIsKept'
  BY RunnerStepInductive
<1>4. BootstrappingHasRunner'
  BY BootstrappingInductive
<1>5. NothingPends'
  BY NothingPendsInductive
<1>6. WaiterStopsRunner'
  BY WaiterInductive
<1>7. StartedStepHasRunner'
  BY StartedStepInductive
<1>8. PendingStepHasTask'
  BY PendingStepInductive
<1>9. StepsRunInOrder'
  BY StepOrderInductive
<1>10. NoTaskFails'
  BY NoTaskFailsInductive
<1> QED BY <1>1, <1>2, <1>3, <1>4, <1>5, <1>6, <1>7, <1>8, <1>9, <1>10

\* The inductive invariant holds of every reachable state of the service.
THEOREM EmrInvariant == Spec => [](TypeOK /\ EmrInv)
<1>1. Init => EmrInv
  BY EmrInvInit
<1>2. TypeOK /\ TypeOK' /\ EmrInv /\ [Next]_vars => EmrInv'
  BY EmrInvNext
<1> QED BY <1>1, <1>2, TypeCorrect, PTL DEF Spec

\* No step is left RUNNING or CANCEL_PENDING without the driver task that will settle it,
\* whatever requests terminate its cluster meanwhile.
THEOREM StartedStepAlwaysHasRunner == Spec => []StartedStepHasRunner
<1>1. EmrInv => StartedStepHasRunner
  BY DEF EmrInv, RunnerInv
<1> QED BY <1>1, EmrInvariant, PTL

\* No wake-up is lost: a pending step of a cluster that goes on always has a driver task.
THEOREM PendingStepAlwaysHasTask == Spec => []PendingStepHasTask
<1>1. EmrInv => PendingStepHasTask
  BY DEF EmrInv, QueueInv
<1> QED BY <1>1, EmrInvariant, PTL

\* Steps are started in the order in which clients added them.
THEOREM StepsAlwaysRunInOrder == Spec => []StepsRunInOrder
<1>1. EmrInv => StepsRunInOrder
  BY DEF EmrInv, QueueInv
<1> QED BY <1>1, EmrInvariant, PTL

\* No driver task ends with an exception.
THEOREM NoTaskEverFails == Spec => []NoTaskFails
<1>1. EmrInv => NoTaskFails
  BY DEF EmrInv, QueueInv
<1> QED BY <1>1, EmrInvariant, PTL

\* No step is served while a bootstrap action is at work, and the other way round.
THEOREM BootstrapAlwaysBeforeService == Spec => []BootstrapBeforeService
<1>1. EmrInv => BootstrapBeforeService
  <2>1. RunnerInPhase => BootstrapBeforeService
    BY DEF RunnerInPhase, BootstrapBeforeService, Serving, ClusterTerminal
  <2> QED BY <2>1 DEF EmrInv, RunnerInv
<1> QED BY <1>1, EmrInvariant, PTL

\* A step of the service leaves the state of an ended cluster alone.  The copy a request
\* saves late cannot revive one: its wait holds up the driver, and if another request has
\* ended the cluster meanwhile, no child is left and the copy is ended in the same step.
LEMMA StepKeepsClusterEnd ==
  ASSUME TypeOK, EmrInv, [Next]_vars, NEW c \in Clusters, repo[c].state \in ClusterTerminal
  PROVE  repo'[c].state = repo[c].state
<1>0. /\ TypeOK /\ RunnerHoldsLock /\ RunnerInPhase /\ RunnerStepIsKept /\ BootstrappingHasRunner
      /\ StartedStepHasRunner /\ WaiterStopsRunner /\ repo \in [Clusters -> Cluster]
  BY DEF EmrInv, RunnerInv, TypeOK
<1>1. ASSUME NEW d \in Clusters, Command(d)
      PROVE  repo'[c].state = repo[c].state
  BY <1>0, <1>1, CommandOnCluster DEF ClusterTerminal, Serving, Absent
<1>2. ASSUME NEW r \in Requests, Terminate(r)
      PROVE  repo'[c].state = repo[c].state
  <2>1. CASE repo'[c] = repo[c]
    BY <2>1
  <2>2. CASE repo'[c] # repo[c]
    <3>1. PICK new \in Cluster :
            /\ repo'[c] = new
            /\ \/ /\ new.state \in {"TERMINATING", "TERMINATED"}
                  /\ new.state = "TERMINATING" => Registered(c) # {}
                  /\ \/ "TERMINATING" \in ClusterTransitions[repo[c].state]
                     \/ request[r].pc = "cancel" /\ request[r].cluster = c /\ ChildrenStopped(r)
               \/ repo[c].state = "TERMINATING" /\ new.state = "TERMINATED"
      BY <1>0, <1>2, <2>2, TerminateEffect
    <3>2. "TERMINATING" \notin ClusterTransitions[repo[c].state] /\ repo[c].state # "TERMINATING"
      BY DEF ClusterTransitions, ClusterState, ClusterTerminal
    <3>3. request[r].pc = "cancel" /\ request[r].cluster = c /\ ChildrenStopped(r)
      BY <3>1, <3>2
    <3>4. PICK t \in Tasks, i \in DOMAIN request[r].copy.steps :
            /\ Running(t) /\ task[t].cluster = c
            /\ task[t].op = <<"step", i>> /\ <<"step", i>> \in request[r].awaited
            /\ repo[c].state # "TERMINATED_WITH_ERRORS"
      BY <1>0, <3>3 DEF WaiterStopsRunner
    <3>5. Registered(c) = {}
      <4> SUFFICES ASSUME NEW u \in Tasks, task[u].pc = "running", task[u].cluster = c
                   PROVE  FALSE
        BY DEF Registered
      <4>1. u = t
        BY <1>0, <3>4 DEF RunnerHoldsLock, Running, Phase
      <4> QED BY <3>3, <3>4, <4>1 DEF ChildrenStopped, Registered
    <3> QED BY <3>1, <3>2, <3>4, <3>5 DEF ClusterTerminal
  <2> QED BY <2>1, <2>2
<1>3. ASSUME NEW t \in Tasks, DriverStep(t)
      PROVE  repo'[c].state = repo[c].state
  <2>1. CASE c # task[t].cluster
    BY <1>0, <1>3, <2>1, DriverAlone
  <2>2. CASE c = task[t].cluster
    <3>1. PICK new \in Cluster :
            /\ repo' = [repo EXCEPT ![c] = new]
            /\ \/ LeftIdle(t, repo[c], new)
               \/ LeftBootstrapping(t, repo[c], new)
               \/ LeftInStep(t, repo[c], new)
      BY <1>0, <1>3, <2>2, DriverOutcome
    <3>2. new.state = repo[c].state
      BY <3>1 DEF LeftIdle, LeftBootstrapping, LeftInStep, ClusterTerminal, Serving
    <3> QED BY <1>0, <3>1, <3>2
  <2> QED BY <2>1, <2>2
<1> QED BY <1>1, <1>2, <1>3, StepsOfNext, QuietSteps DEF DriverStep

\* A cluster that has been reported as ended stays so.
THEOREM ClusterEndIsAlwaysFinal == Spec => ClusterEndIsFinal
<1>1. TypeOK /\ EmrInv /\ [Next]_vars =>
        [\A c \in Clusters : repo[c].state \in ClusterTerminal => repo'[c].state = repo[c].state]_vars
  BY StepKeepsClusterEnd
<1> QED BY <1>1, EmrInvariant, PTL DEF Spec, ClusterEndIsFinal

-----------------------------------------------------------------------------
(***************************************************************************)
(* What the service promises: the invariant above, with what cancellations *)
(* and ends of steps need besides                                          *)
(***************************************************************************)
\* A request that waits before it saves its copy waits for children that were registered: the
\* runner of its cluster is past the preparation.
WaiterSawChild ==
  \A r \in Requests : request[r].pc = "cancel" =>
    \A t \in Tasks : Running(t) /\ task[t].cluster = request[r].cluster => task[t].pc # "preparing"

\* No quiet step brings a runner back to its preparation.
LEMMA QuietStepPrepares ==
  ASSUME TypeOK, QuietStep, NEW t \in Tasks, task'[t].pc = "preparing"
  PROVE  task[t].pc = "preparing"
<1>0. \A u \in Tasks : task[u] \in Task
  BY DEF TypeOK
<1>1. CASE UNCHANGED task
  BY <1>1
<1>2. ASSUME NEW c, Schedule(c)
      PROVE  task[t].pc = "preparing"
  <2>1. PICK u \in Tasks : task[u].pc = "free" /\ task' = [task EXCEPT ![u] = ScheduledTask(c)]
    BY <1>2 DEF Schedule
  <2>2. ScheduledTask(c).pc = "scheduled"
    BY DEF ScheduledTask, FreeTask
  <2> QED BY <2>1, <2>2 DEF TypeOK
<1>3. ASSUME NEW c, NEW ops, task' = StopRegistered(c, ops)
      PROVE  task[t].pc = "preparing"
  BY <1>3, StopRegisteredType
<1>4. ASSUME NEW c \in Clusters, Command(c)
      PROVE  task[t].pc = "preparing"
  BY <1>1, <1>2, <1>3, <1>4 DEF Command, CreateCluster, AddSteps, CancelStep, CancelPendingStep,
    CancelRunningStep, SetTerminationProtection, SetVisibleToAllUsers
<1>5. ASSUME NEW r \in Requests, Terminate(r)
      PROVE  task[t].pc = "preparing"
  BY <1>1, <1>3, <1>5 DEF Terminate, TerminateSkip, TerminateRefused, TerminateBegin,
    TerminateSave, TerminateFinish, SaveAndCleanUp
<1>6. ASSUME NEW u \in Tasks, SkipDuplicate(u) \/ PrepareFails(u) \/ Register(u) \/ Exit(u)
      PROVE  task[t].pc = "preparing"
  <2>1. CASE SkipDuplicate(u)
    BY <1>0, <2>1 DEF SkipDuplicate, FreeTask, TypeOK
  <2>2. CASE PrepareFails(u)
    BY <1>0, <2>2 DEF PrepareFails, TypeOK, Task
  <2>3. CASE Register(u)
    BY <1>0, <2>3 DEF Register, TypeOK, Task
  <2>4. CASE Exit(u)
    BY <1>0, <2>4 DEF Exit, TypeOK, Task
  <2> QED BY <1>6, <2>1, <2>2, <2>3, <2>4
<1> QED BY <1>1, <1>4, <1>5, <1>6 DEF QuietStep, TerminateClusters, vars

\* A request enters the wait before its save for a child that is registered.
LEMMA WaiterReadsRegistered ==
  ASSUME TypeOK, QuietStep, NEW r \in Requests, request'[r].pc = "cancel", request'[r] # request[r]
  PROVE  \E t \in Tasks : task[t].pc = "running" /\ task[t].cluster = request'[r].cluster
<1>0. request \in [Requests -> Request] /\ repo \in [Clusters -> Cluster]
  BY DEF TypeOK
<1>2. ASSUME NEW s \in Requests, NEW todo, Proceed(s, todo)
      PROVE  FALSE
  BY <1>0, <1>2 DEF Proceed, IdleRequest
<1>3. ASSUME NEW s \in Requests, NEW c, NEW copy, NEW todo, SaveAndCleanUp(s, c, copy, todo)
      PROVE  FALSE
  BY <1>0, <1>2, <1>3 DEF SaveAndCleanUp, Await
<1>4. ASSUME NEW s \in Requests, NEW cs, TerminateClusters(s, cs)
      PROVE  FALSE
  BY <1>0, <1>4 DEF TerminateClusters, IdleRequest
<1>5. ASSUME NEW s \in Requests, NEW c \in Clusters, TerminateSkip(s, c) \/ TerminateRefused(s, c)
      PROVE  FALSE
  BY <1>2, <1>5 DEF TerminateSkip, TerminateRefused
<1>6. ASSUME NEW s \in Requests, NEW c \in Clusters, TerminateBegin(s, c)
      PROVE  \E t \in Tasks : task[t].pc = "running" /\ task[t].cluster = request'[r].cluster
  <2> DEFINE live == {<<"step", i>> : i \in StartedSteps(repo[c])} \cap Registered(c)
  <2>1. live # {} /\ Await(s, "cancel", c, repo[c], live, request[s].todo \ {c})
    BY <1>3, <1>6 DEF TerminateBegin
  <2>2. request'[r].cluster = c
    BY <1>0, <2>1 DEF Await
  <2> QED BY <2>1, <2>2 DEF Registered
<1>7. ASSUME NEW s \in Requests, TerminateSave(s) \/ TerminateFinish(s)
      PROVE  FALSE
  BY <1>2, <1>3, <1>7 DEF TerminateSave, TerminateFinish
<1>8. ASSUME NEW d \in Clusters, Command(d)
      PROVE  FALSE
  BY <1>8, CommandEffect
<1>9. ASSUME NEW t \in Tasks, SkipDuplicate(t) \/ PrepareFails(t) \/ Register(t) \/ Exit(t)
      PROVE  FALSE
  BY <1>9 DEF SkipDuplicate, PrepareFails, Register, Exit
<1> QED BY <1>4, <1>5, <1>6, <1>7, <1>8, <1>9 DEF QuietStep, Terminate, vars

\* The driver makes no step for a cluster a request waits for before it saves.
LEMMA WaiterHoldsUpDriver ==
  ASSUME TypeOK, RunnerHoldsLock, WaiterStopsRunner, NEW u \in Tasks, DriverStep(u),
         NEW r \in Requests, request[r].pc = "cancel"
  PROVE  task[u].cluster # request[r].cluster
<1>1. PICK t \in Tasks, i \in DOMAIN request[r].copy.steps :
        /\ Running(t) /\ task[t].cluster = request[r].cluster
        /\ task[t].op = <<"step", i>> /\ <<"step", i>> \in request[r].awaited
  BY DEF WaiterStopsRunner
<1>2. u # t
  <2> SUFFICES ASSUME u = t PROVE FALSE
    OBVIOUS
  <2>1. ~Drive(t)
    BY <1>1, DriveEffect
  <2>2. ~BootstrapReturn(t)
    <3> SUFFICES ASSUME BootstrapReturn(t) PROVE FALSE
      OBVIOUS
    <3>1. task[t].op[1] = "bootstrap"
      BY BootstrapReturnEffect
    <3> QED BY <1>1, <3>1
  <2>3. ~StepReturn(t)
    <3> SUFFICES ASSUME StepReturn(t) PROVE FALSE
      OBVIOUS
    <3>1. ~HasWokenWaiter(task[t].cluster, task[t].op)
      BY StepReturnEffect
    <3> QED BY <1>1, <3>1 DEF HasWokenWaiter
  <2> QED BY <2>1, <2>2, <2>3 DEF DriverStep
<1>3. task[t].cluster # task[u].cluster
  BY <1>1, <1>2, DriverAlone
<1> QED BY <1>1, <1>3

\* A request enters its wait for a child that is registered, and the runner of that child does
\* not prepare another one while the request waits.
LEMMA WaiterSawChildInductive ==
  ASSUME TypeOK, RunnerHoldsLock, WaiterStopsRunner, WaiterSawChild, [Next]_vars
  PROVE  WaiterSawChild'
<1> SUFFICES ASSUME NEW r \in Requests, request'[r].pc = "cancel", NEW t \in Tasks,
                    Running(t)', task'[t].cluster = request'[r].cluster, task'[t].pc = "preparing"
             PROVE  FALSE
  BY DEF WaiterSawChild
<1>1. CASE QuietStep
  <2>1. task[t].pc = "preparing" /\ Running(t) /\ task'[t].cluster = task[t].cluster
    BY <1>1, QuietStepPrepares, QuietStepKeepsRunners DEF RunnersKept, Running, Phase
  <2>2. request'[r] # request[r]
    BY <2>1 DEF WaiterSawChild
  <2>3. \E u \in Tasks : task[u].pc = "running" /\ task[u].cluster = request'[r].cluster
    BY <1>1, <2>2, WaiterReadsRegistered
  <2> QED BY <2>1, <2>3 DEF RunnerHoldsLock, Running, Phase
<1>2. ASSUME NEW u \in Tasks, DriverStep(u)
      PROVE  FALSE
  <2>1. request' = request
    BY <1>2, DriverAlone
  <2>2. task[u].cluster # request[r].cluster
    BY <1>2, <2>1, WaiterHoldsUpDriver
  <2>3. CASE t = u
    <3>1. Leave(u) \/ Fail(u) \/ \E op : StartOperation(u, op)
      BY <1>2, DriverAlone
    <3>2. task'[u].cluster = task[u].cluster
      BY <1>2, <2>3, <3>1, MovesOfTask, DriverAlone
    <3> QED BY <2>1, <2>2, <2>3, <3>2
  <2>4. CASE t # u
    <3>1. task'[t] = task[t]
      BY <1>2, <2>4, DriverAlone
    <3> QED BY <2>1, <3>1 DEF WaiterSawChild, Running, Phase
  <2> QED BY <2>3, <2>4
<1> QED BY <1>1, <1>2, StepsOfNext DEF DriverStep

-----------------------------------------------------------------------------
(***************************************************************************)
(* A cancellation reaches the child.                                       *)
(***************************************************************************)
\* The step a task is inside run() with is not to run any more.
GivenUp(t) ==
  LET c == task[t].cluster
      i == task[t].op[2]
  IN /\ Running(t) /\ task[t].op[1] = "step"
     /\ i \in DOMAIN repo[c].steps => repo[c].steps[i].state # "RUNNING"

\* The child of a task is being stopped, or will be in the moment it is registered.
Reached(t) ==
  /\ task[t].pc = "preparing" => <<task[t].cluster, task[t].op>> \in cancellations
  /\ task[t].pc = "running" => task[t].stopping

\* The invariant of the runs in these terms.
LEMMA CancellationsInTerms ==
  CancellationReachesChild <=> \A t \in Tasks : GivenUp(t) => Reached(t)
BY DEF CancellationReachesChild, GivenUp, Reached, Running, Phase

\* A quiet step never takes a cancellation back: cancel of the executor only adds, and a key is
\* dropped by the child it belongs to.
LEMMA QuietStepKeepsReached ==
  ASSUME TypeOK, RunnerHoldsLock, QuietStep, NEW t \in Tasks, Running(t), Reached(t)
  PROVE  Reached(t)'
<1>0. task \in [Tasks -> Task] /\ task[t] \in Task /\ task[t].pc \in Phase
  BY DEF TypeOK, Running
<1>1. CASE UNCHANGED <<task, cancellations>>
  BY <1>1 DEF Reached
<1>2. ASSUME NEW c, Schedule(c), UNCHANGED cancellations
      PROVE  Reached(t)'
  <2>1. PICK u \in Tasks : task[u].pc = "free" /\ task' = [task EXCEPT ![u] = ScheduledTask(c)]
    BY <1>2 DEF Schedule
  <2>2. task'[t] = task[t]
    BY <1>0, <2>1 DEF Phase
  <2> QED BY <1>2, <2>2 DEF Reached
<1>3. ASSUME NEW c, NEW ops, task' = StopRegistered(c, ops) \/ task' = task,
             cancellations \subseteq cancellations'
      PROVE  Reached(t)'
  <2>1. /\ task'[t].pc = task[t].pc /\ task'[t].cluster = task[t].cluster
        /\ task'[t].op = task[t].op /\ (task[t].stopping => task'[t].stopping)
    BY <1>0, <1>3 DEF StopRegistered, Task
  <2> QED BY <1>3, <2>1 DEF Reached
<1>4. \A c, ops : cancellations \subseteq DeferCancellations(c, ops)
  BY DEF DeferCancellations
<1>5. ASSUME NEW c \in Clusters, Command(c)
      PROVE  Reached(t)'
  <2>1. CASE CreateCluster(c) \/ AddSteps(c)
    BY <1>2, <2>1 DEF CreateCluster, AddSteps
  <2>2. ASSUME NEW i, CancelRunningStep(c, i)
        PROVE  Reached(t)'
    BY <1>3, <1>4, <2>2 DEF CancelRunningStep
  <2>3. ASSUME NEW i, CancelPendingStep(c, i)
        PROVE  Reached(t)'
    BY <1>1, <2>3 DEF CancelPendingStep
  <2>4. CASE SetTerminationProtection(c) \/ SetVisibleToAllUsers(c)
    BY <1>1, <2>4 DEF SetTerminationProtection, SetVisibleToAllUsers
  <2> QED BY <1>5, <2>1, <2>2, <2>3, <2>4 DEF Command, CancelStep
<1>6. ASSUME NEW r, NEW c, NEW copy, NEW todo, SaveAndCleanUp(r, c, copy, todo),
             cancellations \subseteq cancellations'
      PROVE  Reached(t)'
  BY <1>3, <1>6 DEF SaveAndCleanUp
<1>7. ASSUME NEW r \in Requests, Terminate(r)
      PROVE  Reached(t)'
  <2>1. ASSUME NEW c \in Clusters, TerminateBegin(r, c)
        PROVE  Reached(t)'
    <3>1. cancellations \subseteq cancellations'
      BY <1>4, <2>1 DEF TerminateBegin
    <3>2. \/ \E ops : task' = StopRegistered(c, ops)
          \/ SaveAndCleanUp(r, c, repo[c], request[r].todo \ {c})
      BY <2>1 DEF TerminateBegin
    <3> QED BY <1>3, <1>6, <3>1, <3>2
  <2>2. CASE TerminateSave(r)
    BY <1>6, <2>2 DEF TerminateSave
  <2>3. CASE TerminateFinish(r)
    BY <1>1, <2>3 DEF TerminateFinish
  <2> QED BY <1>1, <1>7, <2>1, <2>2, <2>3 DEF Terminate, TerminateSkip, TerminateRefused
<1>8. ASSUME NEW u \in Tasks, u # t, task' = [task EXCEPT ![u] = task'[u]],
             \/ cancellations' = cancellations
             \/ Running(u) /\ cancellations' = cancellations \ {<<task[u].cluster, task[u].op>>}
      PROVE  Reached(t)'
  <2>1. task'[t] = task[t]
    BY <1>0, <1>8
  <2>2. Running(u) => task[u].cluster # task[t].cluster
    BY <1>8 DEF RunnerHoldsLock
  <2> QED BY <1>8, <2>1, <2>2 DEF Reached
<1>9. ASSUME NEW u \in Tasks, SkipDuplicate(u) \/ PrepareFails(u) \/ Register(u) \/ Exit(u)
      PROVE  Reached(t)'
  <2>1. CASE u = t
    <3>1. ~SkipDuplicate(t)
      BY DEF SkipDuplicate, Running, Phase
    <3>2. CASE PrepareFails(t)
      BY <1>0, <3>2 DEF PrepareFails, Reached
    <3>3. CASE Register(t)
      <4>1. /\ task[t].pc = "preparing" /\ task'[t].pc = "running"
            /\ task'[t].stopping = (<<task[t].cluster, task[t].op>> \in cancellations)
        BY <1>0, <3>3 DEF Register, Task
      <4> QED BY <4>1 DEF Reached
    <3>4. CASE Exit(t)
      <4>1. task'[t].pc = "finishing"
        BY <1>0, <3>4 DEF Exit, Task
      <4> QED BY <4>1 DEF Reached
    <3> QED BY <1>9, <2>1, <3>1, <3>2, <3>3, <3>4
  <2>2. CASE u # t
    <3>1. task' = [task EXCEPT ![u] = task'[u]]
      BY <1>0, <1>9 DEF SkipDuplicate, PrepareFails, Register, Exit
    <3>2. \/ cancellations' = cancellations
          \/ Running(u) /\ cancellations' = cancellations \ {<<task[u].cluster, task[u].op>>}
      BY <1>9 DEF SkipDuplicate, PrepareFails, Register, Exit, Running, Phase
    <3> QED BY <1>8, <2>2, <3>1, <3>2
  <2> QED BY <2>1, <2>2
<1> QED BY <1>1, <1>5, <1>7, <1>9 DEF QuietStep, TerminateClusters, vars

\* The one command that gives up a running step is its own cancellation.
LEMMA CommandGivesUp ==
  ASSUME TypeOK, NEW d \in Clusters, Command(d), NEW c \in Clusters, repo[c].state # Absent,
         NEW i \in DOMAIN repo[c].steps, repo[c].steps[i].state = "RUNNING",
         repo'[c].steps[i].state # "RUNNING"
  PROVE  CancelRunningStep(c, i)
<1>0. repo \in [Clusters -> Cluster] /\ repo[c] \in Cluster
  BY DEF TypeOK
<1>1. d = c
  BY <1>0, CommandEffect
<1>2. ~CreateCluster(c)
  BY DEF CreateCluster
<1>3. ~AddSteps(c)
  <2> SUFFICES ASSUME AddSteps(c) PROVE FALSE
    OBVIOUS
  <2>1. PICK steps \in StepLists :
          repo' = [repo EXCEPT ![c].state = "RUNNING", ![c].steps = @ \o steps]
    BY DEF AddSteps
  <2>2. repo'[c].steps = repo[c].steps \o steps
    BY <1>0, <2>1 DEF Cluster
  <2>3. /\ repo[c].steps \in Seq(Step) /\ steps \in Seq(Step)
        /\ DOMAIN repo[c].steps = 1..Len(repo[c].steps)
    BY <1>0, StepsOfCluster, StepListsType
  <2>4. (repo[c].steps \o steps)[i] = repo[c].steps[i]
    BY <2>3, ConcatProperties, LenProperties
  <2> QED BY <2>2, <2>4
<1>4. ~SetTerminationProtection(c) /\ ~SetVisibleToAllUsers(c)
  BY <1>0 DEF SetTerminationProtection, SetVisibleToAllUsers, Cluster
<1>5. ASSUME NEW j \in DOMAIN repo[c].steps, CancelPendingStep(c, j)
      PROVE  FALSE
  <2>1. j # i /\ repo' = [repo EXCEPT ![c] = SetStep(repo[c], j, "CANCELLED")]
    BY <1>0, <1>5 DEF CancelPendingStep
  <2>2. repo'[c].steps[i].state = repo[c].steps[i].state
    BY <1>0, <2>1, SetStepType DEF StepState
  <2> QED BY <2>2
<1>6. ASSUME NEW j \in DOMAIN repo[c].steps, CancelRunningStep(c, j), j # i
      PROVE  FALSE
  <2>1. repo' = [repo EXCEPT ![c] = SetStep(repo[c], j, "CANCEL_PENDING")]
    BY <1>0, <1>6 DEF CancelRunningStep
  <2>2. repo'[c].steps[i].state = repo[c].steps[i].state
    BY <1>0, <1>6, <2>1, SetStepType DEF StepState
  <2> QED BY <2>2
<1> QED BY <1>1, <1>2, <1>3, <1>4, <1>5, <1>6 DEF Command, CancelStep

\* The step of a runner that a quiet step gives up is given up by its cancellation or by a
\* termination, and both tell the executor.
LEMMA QuietStepTellsExecutor ==
  ASSUME TypeOK, EmrInv, WaiterSawChild, QuietStep, NEW t \in Tasks, Running(t),
         task[t].op[1] = "step", ~GivenUp(t), GivenUp(t)'
  PROVE  Reached(t)'
<1> DEFINE c == task[t].cluster
           i == task[t].op[2]
<1>0. /\ RunnerHoldsLock /\ RunnerInPhase /\ WaiterStopsRunner
      /\ repo \in [Clusters -> Cluster] /\ task \in [Tasks -> Task]
      /\ c \in Clusters /\ task[t].op = <<"step", i>> /\ task[t].pc \in Phase
  BY DEF EmrInv, RunnerInv, TypeOK, Running, Operation, Phase
<1>1. task'[t].cluster = c /\ task'[t].op = task[t].op
  BY QuietStepKeepsRunners DEF RunnersKept
<1>2. /\ i \in DOMAIN repo[c].steps /\ repo[c].steps[i].state = "RUNNING"
      /\ repo'[c].steps[i].state # "RUNNING"
  <2>1. i \in DOMAIN repo[c].steps /\ repo[c].steps[i].state = "RUNNING"
    BY DEF GivenUp
  <2>2. i \in DOMAIN repo'[c].steps
    <3>1. RunnerStepIsKept'
      BY <1>0, RunnerStepInductive DEF EmrInv, RunnerInv, QuietStep, Next, Work
    <3> QED BY <1>1, <3>1 DEF RunnerStepIsKept, GivenUp
  <2>3. repo'[c].steps[i].state # "RUNNING"
    BY <1>1, <2>2 DEF GivenUp
  <2> QED BY <2>1, <2>3
<1>3. task[t].op \in Registered(c) <=> task[t].pc = "running"
  <2>1. ASSUME NEW u \in Tasks, task[u].pc = "running", task[u].cluster = c
        PROVE  u = t
    BY <1>0, <2>1 DEF RunnerHoldsLock, Running, Phase
  <2> QED BY <2>1 DEF Registered
<1>4. ASSUME NEW d \in Clusters, Command(d)
      PROVE  Reached(t)'
  <2>1. repo[c].state # Absent
    BY <1>0 DEF RunnerInPhase, Absent, ClusterTerminal
  <2>2. CancelRunningStep(c, i)
    BY <1>0, <1>2, <1>4, <2>1, CommandGivesUp
  <2>3. task' = StopRegistered(c, {<<"step", i>>})
        /\ cancellations' = DeferCancellations(c, {<<"step", i>>})
    BY <2>2 DEF CancelRunningStep
  <2>4. task'[t].pc = task[t].pc /\ (task[t].pc = "running" => task'[t].stopping)
    BY <1>0, <2>3 DEF StopRegistered, Task
  <2>5. task[t].pc = "preparing" => <<c, task[t].op>> \in cancellations'
    BY <1>0, <1>3, <2>3 DEF DeferCancellations
  <2> QED BY <1>1, <2>4, <2>5 DEF Reached
<1>5. ASSUME NEW r \in Requests, NEW d, TerminateBegin(r, d), d \in Clusters
      PROVE  Reached(t)'
  <2> DEFINE started == {<<"step", j>> : j \in StartedSteps(repo[d])}
             live    == started \cap Registered(d)
  <2>1. live = {} /\ SaveAndCleanUp(r, d, repo[d], request[r].todo \ {d})
    BY <1>2, <1>5 DEF TerminateBegin
  <2>2. d = c
    BY <1>0, <1>2, <2>1 DEF SaveAndCleanUp
  <2>3. task[t].op \in started
    BY <1>0, <1>2, <2>2 DEF StartedSteps
  <2>4. task[t].pc # "running"
    BY <1>3, <2>1, <2>2, <2>3
  <2>5. <<c, task[t].op>> \in cancellations'
    BY <1>3, <1>5, <2>2, <2>3, <2>4 DEF TerminateBegin, DeferCancellations
  <2>6. task'[t].pc = task[t].pc
    BY <1>0, <2>1 DEF SaveAndCleanUp, StopRegistered, Task
  <2> QED BY <1>1, <2>4, <2>5, <2>6 DEF Reached
<1>6. ASSUME NEW r \in Requests, TerminateSave(r)
      PROVE  Reached(t)'
  <2>1. /\ request[r].pc = "cancel" /\ ChildrenStopped(r)
        /\ SaveAndCleanUp(r, request[r].cluster, request[r].copy, request[r].todo)
    BY <1>6 DEF TerminateSave
  <2>2. request[r].cluster = c
    BY <1>0, <1>2, <2>1 DEF SaveAndCleanUp
  <2>3. PICK u \in Tasks, j \in DOMAIN request[r].copy.steps :
          /\ Running(u) /\ task[u].cluster = c
          /\ task[u].op = <<"step", j>> /\ <<"step", j>> \in request[r].awaited
    BY <1>0, <2>1, <2>2 DEF WaiterStopsRunner
  <2>4. u = t
    BY <1>0, <2>3 DEF RunnerHoldsLock
  <2>5. task[t].pc # "running"
    BY <1>3, <2>1, <2>2, <2>3, <2>4 DEF ChildrenStopped
  <2>6. task[t].pc # "preparing"
    BY <2>1, <2>2 DEF WaiterSawChild
  <2>7. task'[t].pc = task[t].pc
    BY <1>0, <2>1 DEF SaveAndCleanUp, StopRegistered, Task
  <2> QED BY <2>5, <2>6, <2>7 DEF Reached
<1>7. ASSUME NEW r \in Requests, TerminateFinish(r)
      PROVE  repo'[c].steps = repo[c].steps
  <2> DEFINE d == request[r].cluster
  <2>1. d \in Clusters
    BY <1>7 DEF TerminateFinish, TypeOK
  <2>2. SetCluster(repo[d], "TERMINATED").steps = repo[d].steps
    BY <1>0, <2>1, SetClusterType DEF ClusterState
  <2>3. repo' = repo \/ repo' = [repo EXCEPT ![d] = SetCluster(repo[d], "TERMINATED")]
    BY <1>0, <1>7, <2>1 DEF TerminateFinish
  <2> QED BY <1>0, <2>1, <2>2, <2>3
<1>8. repo' # repo
  BY <1>2
<1>9. ASSUME NEW r \in Requests, Terminate(r)
      PROVE  Reached(t)'
  BY <1>2, <1>5, <1>6, <1>7, <1>8, <1>9 DEF Terminate, TerminateSkip, TerminateRefused
<1> QED BY <1>4, <1>8, <1>9, QuietSteps

\* A driver step only leaves a runner with a step it has just made RUNNING.
LEMMA DriverStepGivesUpNothing ==
  ASSUME TypeOK, EmrInv, CancellationReachesChild, NEW u \in Tasks, DriverStep(u),
         NEW t \in Tasks, GivenUp(t)'
  PROVE  Reached(t)'
<1> DEFINE c == task[u].cluster
<1>0. /\ RunnerHoldsLock /\ RunnerInPhase /\ RunnerStepIsKept /\ BootstrappingHasRunner
      /\ StartedStepHasRunner /\ repo \in [Clusters -> Cluster] /\ c \in Clusters
  BY DriverAlone DEF EmrInv, RunnerInv, TypeOK
<1>1. cancellations' = cancellations
  BY DriveEffect, BootstrapReturnEffect, StepReturnEffect DEF DriverStep
<1>2. CASE t # u
  <2>1. task'[t] = task[t] /\ Running(t) /\ task[t].cluster # c
    BY <1>0, <1>2, DriverAlone DEF GivenUp
  <2>2. task[t].cluster \in Clusters
    BY <2>1 DEF TypeOK, Running, Phase
  <2>3. repo'[task[t].cluster] = repo[task[t].cluster]
    BY <1>0, <2>1, <2>2, DriverAlone
  <2>4. GivenUp(t)
    BY <2>1, <2>3 DEF GivenUp
  <2> QED BY <1>1, <2>1, <2>4, CancellationsInTerms DEF Reached
<1>3. CASE t = u
  <2>1. PICK new \in Cluster :
          /\ repo' = [repo EXCEPT ![c] = new]
          /\ \/ LeftIdle(t, repo[c], new)
             \/ LeftBootstrapping(t, repo[c], new)
             \/ LeftInStep(t, repo[c], new)
    BY <1>0, <1>3, DriverOutcome
  <2>2. repo'[c] = new
    BY <1>0, <2>1
  <2>3. ~LeftIdle(t, repo[c], new)
    BY <1>0, <1>3, MovesOfTask DEF LeftIdle, GivenUp
  <2>4. ~LeftBootstrapping(t, repo[c], new)
    <3> SUFFICES ASSUME NEW n \in Nat, StartOperation(t, <<"bootstrap", n>>) PROVE FALSE
      BY DEF LeftBootstrapping
    <3>1. task'[t].op = <<"bootstrap", n>>
      BY <1>0, <1>3, MovesOfTask
    <3> QED BY <3>1 DEF GivenUp
  <2>5. PICK i, cl :
          /\ i \in PendingSteps(repo[c]) /\ StartOperation(t, <<"step", i>>)
          /\ StepsFollow(repo[c], cl)
          /\ DOMAIN new.steps = DOMAIN repo[c].steps
          /\ \A k \in DOMAIN cl.steps :
               new.steps[k].state = IF k = i THEN "RUNNING" ELSE cl.steps[k].state
    BY <2>1, <2>3, <2>4 DEF LeftInStep
  <2>6. i \in DOMAIN new.steps /\ new.steps[i].state = "RUNNING"
    BY <2>5 DEF PendingSteps, StepsFollow
  <2>7. task'[t].op = <<"step", i>> /\ task'[t].cluster = c
    BY <1>0, <1>3, <2>5, MovesOfTask
  <2> QED BY <2>2, <2>6, <2>7 DEF GivenUp
<1> QED BY <1>2, <1>3

\* No cancellation is lost, whichever side is first.
LEMMA CancellationInductive ==
  ASSUME TypeOK, EmrInv, WaiterSawChild, CancellationReachesChild, [Next]_vars
  PROVE  CancellationReachesChild'
<1>1. (CancellationReachesChild)' <=> \A t \in Tasks : GivenUp(t)' => Reached(t)'
  BY DEF CancellationReachesChild, GivenUp, Reached, Running, Phase
<1> SUFFICES ASSUME NEW t \in Tasks, GivenUp(t)' PROVE Reached(t)'
  BY <1>1
<1>2. CASE QuietStep
  <2>1. Running(t) /\ task[t].op[1] = "step"
    BY <1>2, QuietStepKeepsRunners DEF RunnersKept, GivenUp
  <2>2. CASE GivenUp(t)
    BY <1>2, <2>1, <2>2, CancellationsInTerms, QuietStepKeepsReached DEF EmrInv
  <2>3. CASE ~GivenUp(t)
    BY <1>2, <2>1, <2>3, QuietStepTellsExecutor
  <2> QED BY <2>2, <2>3
<1>3. ASSUME NEW u \in Tasks, DriverStep(u)
      PROVE  Reached(t)'
  BY <1>3, DriverStepGivesUpNothing
<1> QED BY <1>2, <1>3, StepsOfNext DEF DriverStep

\* A CancelSteps or a TerminateJobFlows that reaches a step between the driver's decision to run
\* it and the registration of its child is not lost: the child is stopped as it is registered.
\* And no copy saved late takes it back.
THEOREM CancellationAlwaysReachesChild == Spec => [](WaiterSawChild /\ CancellationReachesChild)
<1>1. Init => WaiterSawChild /\ CancellationReachesChild
  BY DEF Init, FreeTask, IdleRequest, WaiterSawChild, CancellationReachesChild, Running, Phase
<1>2. TypeOK /\ EmrInv /\ WaiterSawChild /\ CancellationReachesChild /\ [Next]_vars
        => (WaiterSawChild /\ CancellationReachesChild)'
  BY CancellationInductive, WaiterSawChildInductive DEF EmrInv, RunnerInv
<1> QED BY <1>1, <1>2, EmrInvariant, PTL DEF Spec

-----------------------------------------------------------------------------
(***************************************************************************)
(* The end of a step is final, as long as no two TerminateJobFlows         *)
(* requests are in flight together.  (Two of them wait with copies of      *)
(* their own, and the one that saves last settles the step again.)         *)
(***************************************************************************)
OneRequest == \A r, s \in Requests : r = s

\* Only cancellations, and steps added, separate a cluster from an earlier copy of it.
Ahead(cl, copy) ==
  /\ DOMAIN copy.steps \subseteq DOMAIN cl.steps
  /\ \A j \in DOMAIN copy.steps :
       \/ cl.steps[j].state = copy.steps[j].state
       \/ copy.steps[j].state = "PENDING" /\ cl.steps[j].state = "CANCELLED"
       \/ copy.steps[j].state = "RUNNING" /\ cl.steps[j].state = "CANCEL_PENDING"

\* So it is with the copy a request waits with before it saves it.
WaiterCopyIsBehind ==
  \A r \in Requests : request[r].pc = "cancel" => Ahead(repo[request[r].cluster], request[r].copy)

\* An identifier without a cluster has no steps.
AbsentHasNoSteps == \A c \in Clusters : repo[c].state = Absent => DOMAIN repo[c].steps = {}

\* What a request saves.
LEMMA SaveEffect ==
  ASSUME TypeOK, NEW r \in Requests, NEW c \in Clusters, NEW copy \in Cluster, NEW todo,
         SaveAndCleanUp(r, c, copy, todo)
  PROVE  /\ \A d \in Clusters \ {c} : repo'[d] = repo[d]
         /\ repo'[c].state \in {"TERMINATING", "TERMINATED"}
         /\ DOMAIN repo'[c].steps = DOMAIN copy.steps
         /\ \A j \in DOMAIN copy.steps :
              repo'[c].steps[j].state = TerminatedStepState(copy.steps[j].state)
         /\ request'[r].pc # "cancel"
<1> DEFINE closed == TerminateSteps(copy)
           ended  == SetCluster(closed, "TERMINATED")
<1>1. /\ closed \in Cluster /\ closed.state = "TERMINATING"
      /\ DOMAIN closed.steps = DOMAIN copy.steps
      /\ \A j \in DOMAIN copy.steps :
           closed.steps[j].state = TerminatedStepState(copy.steps[j].state)
  BY TerminateStepsType
<1> HIDE DEF closed
<1>2. ended.state = "TERMINATED" /\ ended.steps = closed.steps
  BY <1>1, SetClusterType DEF ClusterState
<1> HIDE DEF ended
<1>3. repo' = [repo EXCEPT ![c] = ended] \/ repo' = [repo EXCEPT ![c] = closed]
  BY DEF SaveAndCleanUp, ended, closed
<1>4. request'[r].pc # "cancel"
  <2>1. request \in [Requests -> Request]
    BY DEF TypeOK
  <2>2. Proceed(r, todo) => request'[r].pc \in {"idle", "next"}
    BY <2>1 DEF Proceed, IdleRequest
  <2>3. Await(r, "cleanup", c, NoCluster, Registered(c), todo) => request'[r].pc = "cleanup"
    BY <2>1 DEF Await
  <2> QED BY <2>2, <2>3 DEF SaveAndCleanUp
<1>5. repo \in [Clusters -> Cluster]
  BY DEF TypeOK
<1> QED BY <1>1, <1>2, <1>3, <1>4, <1>5

\* A termination keeps the ends of the steps it saves.
LEMMA TerminateKeepsStepEnd ==
  ASSUME TypeOK, WaiterCopyIsBehind, NEW r \in Requests, Terminate(r), NEW c \in Clusters,
         NEW j \in DOMAIN repo[c].steps, j \in DOMAIN repo'[c].steps,
         repo[c].steps[j].state \in StepTerminal
  PROVE  repo'[c].steps[j].state = repo[c].steps[j].state
<1>0. repo \in [Clusters -> Cluster] /\ request[r].copy \in Cluster
  BY RequestType DEF TypeOK
<1>1. TerminatedStepState(repo[c].steps[j].state) = repo[c].steps[j].state
      /\ TerminatedStepState("PENDING") = "CANCELLED"
  BY DEF TerminatedStepState, StepTerminal
<1>2. ASSUME NEW d \in Clusters, TerminateBegin(r, d)
      PROVE  repo'[c].steps[j].state = repo[c].steps[j].state
  <2>1. repo' = repo \/ \E todo : SaveAndCleanUp(r, d, repo[d], todo)
    BY <1>2 DEF TerminateBegin
  <2>2. ASSUME NEW todo, SaveAndCleanUp(r, d, repo[d], todo)
        PROVE  repo'[c].steps[j].state = repo[c].steps[j].state
    BY <1>0, <1>1, <2>2, SaveEffect
  <2> QED BY <2>1, <2>2
<1>3. CASE TerminateSave(r)
  <2> DEFINE d == request[r].cluster
  <2>1. /\ request[r].pc = "cancel" /\ d \in Clusters
        /\ SaveAndCleanUp(r, d, request[r].copy, request[r].todo)
    BY <1>3 DEF TerminateSave, TypeOK
  <2>2. CASE c # d
    BY <1>0, <2>1, <2>2, SaveEffect
  <2>3. CASE c = d
    <3>1. /\ j \in DOMAIN request[r].copy.steps
          /\ repo'[c].steps[j].state = TerminatedStepState(request[r].copy.steps[j].state)
      BY <1>0, <2>1, <2>3, SaveEffect
    <3>2. \/ repo[c].steps[j].state = request[r].copy.steps[j].state
          \/ request[r].copy.steps[j].state = "PENDING" /\ repo[c].steps[j].state = "CANCELLED"
      BY <2>1, <2>3, <3>1 DEF WaiterCopyIsBehind, Ahead, StepTerminal
    <3> QED BY <1>1, <3>1, <3>2
  <2> QED BY <2>2, <2>3
<1>4. CASE TerminateFinish(r)
  <2> DEFINE d == request[r].cluster
  <2>1. d \in Clusters
    BY <1>4 DEF TerminateFinish, TypeOK
  <2>2. SetCluster(repo[d], "TERMINATED").steps = repo[d].steps
    BY <1>0, <2>1, SetClusterType DEF ClusterState
  <2>3. repo' = repo \/ repo' = [repo EXCEPT ![d] = SetCluster(repo[d], "TERMINATED")]
    BY <1>0, <1>4, <2>1 DEF TerminateFinish
  <2> QED BY <1>0, <2>1, <2>2, <2>3
<1> QED BY <1>2, <1>3, <1>4 DEF Terminate, TerminateSkip, TerminateRefused

\* The cluster a request waits for exists.
LEMMA WaiterHasCluster ==
  ASSUME TypeOK, EmrInv, NEW r \in Requests, request[r].pc = "cancel"
  PROVE  request[r].cluster \in Clusters /\ repo[request[r].cluster].state # Absent
<1>1. PICK t \in Tasks : Running(t) /\ task[t].cluster = request[r].cluster
                         /\ task[t].op[1] = "step"
  <2>1. PICK t \in Tasks, i \in DOMAIN request[r].copy.steps :
          Running(t) /\ task[t].cluster = request[r].cluster /\ task[t].op = <<"step", i>>
    BY DEF EmrInv, RunnerInv, WaiterStopsRunner
  <2>2. task[t].op[1] = "step"
    BY <2>1
  <2> QED BY <2>1, <2>2
<1>2. repo[task[t].cluster].state # Absent
  BY <1>1 DEF EmrInv, RunnerInv, RunnerInPhase, Absent, ClusterTerminal
<1>3. request[r].cluster \in Clusters
  BY DEF TypeOK
<1> QED BY <1>1, <1>2, <1>3

\* The copy of the one request stays behind by cancellations alone.
LEMMA WaiterCopyInductive ==
  ASSUME TypeOK, EmrInv, OneRequest, WaiterCopyIsBehind, [Next]_vars
  PROVE  WaiterCopyIsBehind'
<1> SUFFICES ASSUME NEW r \in Requests, request'[r].pc = "cancel"
             PROVE  Ahead(repo'[request'[r].cluster], request'[r].copy)
  BY DEF WaiterCopyIsBehind, Ahead
<1> DEFINE c == request[r].cluster
<1>0. repo \in [Clusters -> Cluster] /\ request \in [Requests -> Request]
  BY DEF TypeOK
<1>1. ASSUME request'[r] = request[r], repo'[c] = repo[c]
      PROVE  Ahead(repo'[request'[r].cluster], request'[r].copy)
  BY <1>1 DEF WaiterCopyIsBehind
<1>2. ASSUME NEW d \in Clusters, Command(d)
      PROVE  Ahead(repo'[request'[r].cluster], request'[r].copy)
  <2>1. request' = request
    BY <1>2, CommandEffect
  <2>2. c \in Clusters /\ repo[c].state # Absent
    BY <2>1, WaiterHasCluster
  <2>3. /\ DOMAIN repo[c].steps \subseteq DOMAIN repo'[c].steps
        /\ \A j \in DOMAIN repo[c].steps :
             \/ repo'[c].steps[j].state = repo[c].steps[j].state
             \/ repo[c].steps[j].state = "PENDING" /\ repo'[c].steps[j].state = "CANCELLED"
             \/ repo[c].steps[j].state = "RUNNING" /\ repo'[c].steps[j].state = "CANCEL_PENDING"
    <3>1. /\ DOMAIN repo[c].steps \subseteq DOMAIN repo'[c].steps
          /\ \A j \in DOMAIN repo'[c].steps :
               IF j \in DOMAIN repo[c].steps
               THEN \/ repo'[c].steps[j].state = repo[c].steps[j].state
                    \/ repo[c].steps[j].state = "PENDING" /\ repo'[c].steps[j].state = "CANCELLED"
                    \/ repo[c].steps[j].state = "RUNNING"
                       /\ repo'[c].steps[j].state = "CANCEL_PENDING"
               ELSE repo'[c].steps[j].state = "PENDING" /\ repo'[c].state = "RUNNING"
      BY <1>2, <2>2, CommandOnCluster
    <3> QED BY <3>1
  <2>4. Ahead(repo[c], request[r].copy)
    BY <2>1 DEF WaiterCopyIsBehind
  <2> QED BY <2>1, <2>3, <2>4 DEF Ahead
<1>3. ASSUME NEW s \in Requests, Terminate(s)
      PROVE  Ahead(repo'[request'[r].cluster], request'[r].copy)
  <2>1. s = r
    BY DEF OneRequest
  <2>2. ASSUME NEW todo, Proceed(r, todo)
        PROVE  FALSE
    BY <1>0, <2>2 DEF Proceed, IdleRequest
  <2>3. ASSUME NEW d \in Clusters, NEW copy \in Cluster, NEW todo, SaveAndCleanUp(r, d, copy, todo)
        PROVE  FALSE
    BY <2>3, SaveEffect
  <2>4. ASSUME NEW d \in Clusters, TerminateBegin(r, d)
        PROVE  Ahead(repo'[request'[r].cluster], request'[r].copy)
    <3>1. \/ repo' = repo /\ \E ops, todo : Await(r, "cancel", d, repo[d], ops, todo)
          \/ \E todo : SaveAndCleanUp(r, d, repo[d], todo)
      BY <2>4 DEF TerminateBegin
    <3>2. repo' = repo /\ request'[r].cluster = d /\ request'[r].copy = repo[d]
      BY <1>0, <2>3, <3>1 DEF Await
    <3> QED BY <3>2 DEF Ahead
  <2>5. ~TerminateSave(r)
    <3> SUFFICES ASSUME TerminateSave(r) PROVE FALSE
      OBVIOUS
    <3>1. SaveAndCleanUp(r, request[r].cluster, request[r].copy, request[r].todo)
          /\ request[r].cluster \in Clusters /\ request[r].copy \in Cluster
      BY RequestType DEF TerminateSave, TypeOK
    <3> QED BY <2>3, <3>1
  <2>6. ~TerminateFinish(r)
    BY <2>2 DEF TerminateFinish
  <2>7. \A d \in Clusters : ~TerminateSkip(r, d) /\ ~TerminateRefused(r, d)
    BY <2>2 DEF TerminateSkip, TerminateRefused
  <2> QED BY <1>3, <2>1, <2>4, <2>5, <2>6, <2>7 DEF Terminate
<1>4. ASSUME NEW s \in Requests, NEW cs, TerminateClusters(s, cs)
      PROVE  Ahead(repo'[request'[r].cluster], request'[r].copy)
  BY <1>0, <1>1, <1>4 DEF TerminateClusters, IdleRequest
<1>5. ASSUME NEW t \in Tasks, SkipDuplicate(t) \/ PrepareFails(t) \/ Register(t) \/ Exit(t)
      PROVE  Ahead(repo'[request'[r].cluster], request'[r].copy)
  BY <1>1, <1>5 DEF SkipDuplicate, PrepareFails, Register, Exit
<1>6. CASE UNCHANGED vars
  BY <1>1, <1>6 DEF vars
<1>7. CASE QuietStep
  BY <1>2, <1>3, <1>4, <1>5, <1>6, <1>7 DEF QuietStep
<1>8. ASSUME NEW u \in Tasks, DriverStep(u)
      PROVE  Ahead(repo'[request'[r].cluster], request'[r].copy)
  <2>1. request' = request
    BY <1>8, DriverAlone DEF EmrInv
  <2>2. task[u].cluster # c
    BY <1>8, <2>1, WaiterHoldsUpDriver DEF EmrInv, RunnerInv
  <2>3. c \in Clusters
    BY <2>1, WaiterHasCluster
  <2>4. repo'[c] = repo[c]
    BY <1>8, <2>2, <2>3, DriverAlone DEF EmrInv
  <2> QED BY <1>1, <2>1, <2>4
<1> QED BY <1>7, <1>8, StepsOfNext DEF DriverStep

\* An identifier gets its steps with its cluster, and no cluster ceases to exist.
LEMMA AbsentInductive ==
  ASSUME TypeOK, EmrInv, AbsentHasNoSteps, [Next]_vars
  PROVE  AbsentHasNoSteps'
<1> SUFFICES ASSUME NEW c \in Clusters, repo'[c].state = Absent
             PROVE  DOMAIN repo'[c].steps = {}
  BY DEF AbsentHasNoSteps
<1>0. repo \in [Clusters -> Cluster]
  BY DEF TypeOK
<1>1. CASE repo'[c] = repo[c]
  BY <1>1 DEF AbsentHasNoSteps
<1>2. ASSUME NEW d \in Clusters, Command(d)
      PROVE  DOMAIN repo'[c].steps = {}
  <2>1. CASE d # c
    BY <1>0, <1>1, <1>2, <2>1, CommandEffect
  <2>2. CASE d = c
    <3>1. PICK new \in Cluster :
            /\ repo' = [repo EXCEPT ![c] = new]
            /\ \/ new.state \in {"STARTING", "RUNNING"}
               \/ new.state = repo[c].state /\ DOMAIN new.steps = DOMAIN repo[c].steps
      BY <1>2, <2>2, CommandEffect
    <3>2. new.state = repo[c].state /\ DOMAIN new.steps = DOMAIN repo[c].steps
      BY <1>0, <3>1 DEF Absent
    <3> QED BY <1>0, <3>1, <3>2 DEF AbsentHasNoSteps
  <2> QED BY <2>1, <2>2
<1>3. ASSUME NEW r \in Requests, Terminate(r)
      PROVE  DOMAIN repo'[c].steps = {}
  <2>1. \/ repo' = repo
        \/ \E d \in Clusters, new \in Cluster :
             repo' = [repo EXCEPT ![d] = new] /\ new.state \in {"TERMINATING", "TERMINATED"}
    BY <1>3, TerminateEffect
  <2> QED BY <1>0, <1>1, <2>1 DEF Absent
<1>4. ASSUME NEW t \in Tasks, DriverStep(t)
      PROVE  DOMAIN repo'[c].steps = {}
  <2>1. CASE c # task[t].cluster
    BY <1>1, <1>4, <2>1, DriverAlone DEF EmrInv
  <2>2. CASE c = task[t].cluster
    <3>1. PICK new \in Cluster :
            /\ repo' = [repo EXCEPT ![c] = new]
            /\ \/ LeftIdle(t, repo[c], new)
               \/ LeftBootstrapping(t, repo[c], new)
               \/ LeftInStep(t, repo[c], new)
      BY <1>4, <2>2, DriverOutcome DEF EmrInv, RunnerInv
    <3>2. repo'[c] = new
      BY <1>0, <3>1
    <3>3. new.state = repo[c].state /\ DOMAIN new.steps = DOMAIN repo[c].steps
      BY <3>1, <3>2 DEF LeftIdle, LeftBootstrapping, LeftInStep, StepsFollow, Absent
    <3> QED BY <3>2, <3>3 DEF AbsentHasNoSteps
  <2> QED BY <2>1, <2>2
<1> QED BY <1>1, <1>2, <1>3, <1>4, StepsOfNext, QuietSteps DEF DriverStep

\* A step of the service keeps the ends of the steps of its clusters.
LEMMA StepKeepsStepEnd ==
  ASSUME TypeOK, EmrInv, WaiterCopyIsBehind, AbsentHasNoSteps, [Next]_vars, NEW c \in Clusters,
         NEW j \in DOMAIN repo[c].steps, j \in DOMAIN repo'[c].steps,
         repo[c].steps[j].state \in StepTerminal
  PROVE  repo'[c].steps[j].state = repo[c].steps[j].state
<1>0. repo \in [Clusters -> Cluster] /\ repo[c].state # Absent
  BY DEF AbsentHasNoSteps, TypeOK
<1>1. ASSUME NEW d \in Clusters, Command(d)
      PROVE  repo'[c].steps[j].state = repo[c].steps[j].state
  <2>1. \/ repo'[c].steps[j].state = repo[c].steps[j].state
        \/ repo[c].steps[j].state \in {"PENDING", "RUNNING"}
    BY <1>0, <1>1, CommandOnCluster
  <2> QED BY <2>1 DEF StepTerminal
<1>2. ASSUME NEW r \in Requests, Terminate(r)
      PROVE  repo'[c].steps[j].state = repo[c].steps[j].state
  BY <1>2, TerminateKeepsStepEnd
<1>3. ASSUME NEW t \in Tasks, DriverStep(t)
      PROVE  repo'[c].steps[j].state = repo[c].steps[j].state
  <2>1. CASE c # task[t].cluster
    BY <1>3, <2>1, DriverAlone DEF EmrInv
  <2>2. CASE c = task[t].cluster
    <3>1. PICK new \in Cluster :
            /\ repo' = [repo EXCEPT ![c] = new]
            /\ \/ LeftIdle(t, repo[c], new)
               \/ LeftBootstrapping(t, repo[c], new)
               \/ LeftInStep(t, repo[c], new)
      BY <1>3, <2>2, DriverOutcome DEF EmrInv, RunnerInv
    <3>2. repo'[c] = new
      BY <1>0, <3>1
    <3>3. ASSUME NEW cl, StepsFollow(repo[c], cl)
          PROVE  j \in DOMAIN cl.steps /\ cl.steps[j].state = repo[c].steps[j].state
      BY <3>3 DEF StepsFollow, StartedSteps, StepTerminal
    <3>4. CASE LeftIdle(t, repo[c], new)
      BY <3>2, <3>3, <3>4 DEF LeftIdle
    <3>5. CASE LeftBootstrapping(t, repo[c], new)
      BY <3>2, <3>5 DEF LeftBootstrapping
    <3>6. CASE LeftInStep(t, repo[c], new)
      <4>1. PICK i, cl :
              /\ StepsFollow(repo[c], cl) /\ IsNextPending(cl, i)
              /\ \A k \in DOMAIN cl.steps :
                   new.steps[k].state = IF k = i THEN "RUNNING" ELSE cl.steps[k].state
        BY <3>6 DEF LeftInStep
      <4>2. i # j
        BY <3>3, <4>1 DEF IsNextPending, PendingSteps, StepTerminal
      <4> QED BY <3>2, <3>3, <4>1, <4>2
    <3> QED BY <3>1, <3>4, <3>5, <3>6
  <2> QED BY <2>1, <2>2
<1>4. CASE repo' = repo
  BY <1>4
<1> QED BY <1>1, <1>2, <1>3, <1>4, StepsOfNext, QuietSteps DEF DriverStep

\* What a client has been told of the end of a step stays true, as long as terminations do not
\* overlap: in whatever order a cancellation, a termination and the end of the child come.
THEOREM StepEndIsAlwaysFinal ==
  ASSUME OneRequest
  PROVE  Spec => StepEndIsFinal
<1>1. Init => WaiterCopyIsBehind /\ AbsentHasNoSteps
  BY DEF Init, IdleRequest, NoCluster, WaiterCopyIsBehind, AbsentHasNoSteps
<1>2. TypeOK /\ EmrInv /\ (WaiterCopyIsBehind /\ AbsentHasNoSteps) /\ [Next]_vars
        => (WaiterCopyIsBehind /\ AbsentHasNoSteps)'
  BY WaiterCopyInductive, AbsentInductive
<1>3. TypeOK /\ EmrInv /\ (WaiterCopyIsBehind /\ AbsentHasNoSteps) /\ [Next]_vars =>
        [\A c \in Clusters : \A i \in DOMAIN repo[c].steps \cap DOMAIN repo'[c].steps :
           repo[c].steps[i].state \in StepTerminal =>
             repo'[c].steps[i].state = repo[c].steps[i].state]_vars
  BY StepKeepsStepEnd
<1> QED BY <1>1, <1>2, <1>3, EmrInvariant, PTL DEF Spec, StepEndIsFinal

-----------------------------------------------------------------------------
(***************************************************************************)
(* As long as nobody calls TerminateJobFlows, a cluster is ended by its    *)
(* own driver alone, and that one never does while a runner is at work.    *)
(***************************************************************************)
RunnerServes ==
  \A t \in Tasks : Running(t) =>
    repo[task[t].cluster].state = IF task[t].op[1] = "bootstrap" THEN "BOOTSTRAPPING" ELSE "RUNNING"

\* A runner keeps its cluster in its phase.
LEMMA RunnerServesInductive ==
  ASSUME Requests = {}, TypeOK, TypeOK', EmrInv, RunnerServes, [Next]_vars
  PROVE  RunnerServes'
<1>0. /\ \A t \in Tasks : Running(t) => task[t].cluster \in Clusters
      /\ RunnerHoldsLock /\ RunnerInPhase
  BY DEF TypeOK, Running, Phase, EmrInv, RunnerInv
<1>1. CASE QuietStep
  <2> SUFFICES ASSUME NEW t \in Tasks, Running(t)
               PROVE  repo'[task[t].cluster].state = repo[task[t].cluster].state
    BY <1>1, QuietStepKeepsRunners DEF RunnersKept, RunnerServes
  <2> QED BY <1>0, <1>1, CommandKeepsRunnerCluster, QuietSteps
<1>2. ASSUME NEW t \in Tasks, DriverStep(t)
      PROVE  RunnerServes'
  <2>1. ASSUME NEW u \in Tasks \ {t}, Running(u)'
        PROVE  /\ Running(u) /\ task'[u] = task[u]
               /\ repo'[task[u].cluster] = repo[task[u].cluster]
    BY <1>0, <1>2, <2>1, DriverAlone
  <2>2. ASSUME Running(t)'
        PROVE  repo'[task'[t].cluster].state =
                 IF task'[t].op[1] = "bootstrap" THEN "BOOTSTRAPPING" ELSE "RUNNING"
    BY <1>0, <1>2, <2>2, DriverStepRuns DEF RunnerServes
  <2> QED BY <2>1, <2>2 DEF RunnerServes
<1> QED BY <1>1, <1>2, StepsOfNext DEF DriverStep

\* Without terminations every runner keeps its cluster in its phase.
LEMMA RunnersServe ==
  ASSUME Requests = {}
  PROVE  Spec => []RunnerServes
<1>1. Init => RunnerServes
  BY DEF Init, FreeTask, RunnerServes, Running, Phase
<1>2. TypeOK /\ TypeOK' /\ EmrInv /\ RunnerServes /\ [Next]_vars => RunnerServes'
  BY RunnerServesInductive
<1> QED BY <1>1, <1>2, EmrInvariant, PTL DEF Spec

\* As long as no termination cuts in, DescribeStep tells the end of a step only after its runner
\* has returned and with it published the logs.
THEOREM StepEndIsAlwaysPublished ==
  ASSUME Requests = {}
  PROVE  Spec => []StepEndIsPublished
<1>1. EmrInv /\ RunnerServes => StepEndIsPublished
  BY DEF EmrInv, RunnerInv, RunnerServes, RunnerStepIsKept, StepEndIsPublished, StartedSteps,
     StepTerminal
<1> QED BY <1>1, EmrInvariant, RunnersServe, PTL

\* As long as no termination cuts in, a cluster that ends leaves no child of its behind.
THEOREM EndedClusterNeverHasChild ==
  ASSUME Requests = {}
  PROVE  Spec => []EndedClusterHasNoChild
<1>1. RunnerServes => EndedClusterHasNoChild
  BY DEF RunnerServes, EndedClusterHasNoChild, ClusterTerminal, Running, Phase
<1> QED BY <1>1, RunnersServe, PTL

-----------------------------------------------------------------------------
(***************************************************************************)
(* The bound on the steps of a cluster, which the abstract queue has, too. *)
(***************************************************************************)
StepsBounded ==
  /\ \A c \in Clusters : DOMAIN repo[c].steps \subseteq 1..StepBound
  /\ \A r \in Requests : DOMAIN request[r].copy.steps \subseteq 1..StepBound

\* What a request keeps as its copy is what it had, what the repository has, or nothing.
LEMMA CopyOfRequest ==
  ASSUME TypeOK, QuietStep, NEW r \in Requests
  PROVE  \/ request'[r].copy = request[r].copy
         \/ request'[r].copy = NoCluster
         \/ \E c \in Clusters : request'[r].copy = repo[c]
<1>0. request \in [Requests -> Request]
  BY DEF TypeOK
<1>1. ASSUME NEW s \in Requests, NEW todo, Proceed(s, todo)
      PROVE  request'[r].copy = request[r].copy \/ request'[r].copy = NoCluster
  BY <1>0, <1>1 DEF Proceed, IdleRequest
<1>2. ASSUME NEW s \in Requests, NEW pc, NEW c, NEW copy, NEW ops, NEW todo,
             Await(s, pc, c, copy, ops, todo)
      PROVE  request'[r].copy = request[r].copy \/ request'[r].copy = copy
  BY <1>0, <1>2 DEF Await
<1>3. ASSUME NEW s \in Requests, NEW c, NEW copy, NEW todo, SaveAndCleanUp(s, c, copy, todo)
      PROVE  request'[r].copy = request[r].copy \/ request'[r].copy = NoCluster
  BY <1>1, <1>2, <1>3 DEF SaveAndCleanUp
<1>4. ASSUME NEW s \in Requests, NEW c \in Clusters, TerminateBegin(s, c)
      PROVE  \/ request'[r].copy = request[r].copy
             \/ request'[r].copy = NoCluster
             \/ request'[r].copy = repo[c]
  BY <1>2, <1>3, <1>4 DEF TerminateBegin
<1>5. ASSUME NEW s \in Requests, Terminate(s)
      PROVE  \/ request'[r].copy = request[r].copy
             \/ request'[r].copy = NoCluster
             \/ \E c \in Clusters : request'[r].copy = repo[c]
  BY <1>1, <1>3, <1>4, <1>5
     DEF Terminate, TerminateSkip, TerminateRefused, TerminateSave, TerminateFinish
<1>6. ASSUME NEW s \in Requests, NEW cs, TerminateClusters(s, cs)
      PROVE  request'[r].copy = request[r].copy \/ request'[r].copy = NoCluster
  BY <1>0, <1>6 DEF TerminateClusters, IdleRequest
<1>7. ASSUME NEW c \in Clusters, Command(c)
      PROVE  request' = request
  BY <1>7, CommandEffect
<1>8. ASSUME NEW t \in Tasks, SkipDuplicate(t) \/ PrepareFails(t) \/ Register(t) \/ Exit(t)
      PROVE  request' = request
  BY <1>8 DEF SkipDuplicate, PrepareFails, Register, Exit
<1> QED BY <1>5, <1>6, <1>7, <1>8 DEF QuietStep, vars

\* What a command leaves of the bound: CreateCluster and AddSteps keep to it.
LEMMA CommandKeepsBound ==
  ASSUME TypeOK, NEW d \in Clusters, Command(d), NEW c \in Clusters,
         DOMAIN repo[c].steps \subseteq 1..StepBound
  PROVE  DOMAIN repo'[c].steps \subseteq 1..StepBound
<1>0. repo \in [Clusters -> Cluster] /\ repo[c] \in Cluster /\ StepBound \in Nat
  BY ConstantsAssumption DEF TypeOK
<1>1. CASE d # c
  BY <1>0, <1>1, CommandEffect
<1>2. CASE CreateCluster(c)
  <2>1. PICK keepAlive \in KeepAlives, protected \in Protections \cup {FALSE},
             visible \in Visibilities \cup {FALSE}, n \in 0..BootstrapBound, steps \in StepLists :
          repo' = [repo EXCEPT ![c] =
                     [state |-> "STARTING", keepAlive |-> keepAlive, protected |-> protected,
                      visible |-> visible, bootstraps |-> n, steps |-> steps]]
    BY <1>2 DEF CreateCluster
  <2>2. repo'[c].steps = steps
    BY <1>0, <2>1
  <2>3. DOMAIN steps \subseteq 1..StepBound
    BY <1>0 DEF StepLists
  <2> QED BY <2>2, <2>3
<1>3. CASE AddSteps(c)
  <2>1. PICK steps \in StepLists :
          /\ Len(repo[c].steps) + Len(steps) <= StepBound
          /\ repo' = [repo EXCEPT ![c].state = "RUNNING", ![c].steps = @ \o steps]
    BY <1>3 DEF AddSteps
  <2>2. repo'[c].steps = repo[c].steps \o steps
    BY <1>0, <2>1 DEF Cluster
  <2>3. /\ repo[c].steps \in Seq(Step) /\ steps \in Seq(Step)
        /\ Len(repo[c].steps) \in Nat /\ Len(steps) \in Nat
    BY <1>0, StepsOfCluster, StepListsType, LenProperties
  <2>4. DOMAIN (repo[c].steps \o steps) = 1..(Len(repo[c].steps) + Len(steps))
    BY <2>3, ConcatProperties, LenProperties
  <2> QED BY <1>0, <2>1, <2>2, <2>3, <2>4
<1>4. ASSUME NEW i \in DOMAIN repo[c].steps, CancelPendingStep(c, i) \/ CancelRunningStep(c, i)
      PROVE  DOMAIN repo'[c].steps = DOMAIN repo[c].steps
  <2>1. \E state \in StepState : repo' = [repo EXCEPT ![c] = SetStep(repo[c], i, state)]
    BY <1>0, <1>4 DEF CancelPendingStep, CancelRunningStep, StepState
  <2> QED BY <1>0, <2>1, SetStepType
<1>5. CASE SetTerminationProtection(c) \/ SetVisibleToAllUsers(c)
  BY <1>0, <1>5 DEF SetTerminationProtection, SetVisibleToAllUsers, Cluster
<1> QED BY <1>0, <1>1, <1>2, <1>3, <1>4, <1>5 DEF Command, CancelStep

\* No cluster and no copy of one ever has more steps than the bound allows.
LEMMA StepsBoundedInductive ==
  ASSUME TypeOK, EmrInv, StepsBounded, [Next]_vars
  PROVE  StepsBounded'
<1>0. repo \in [Clusters -> Cluster]
  BY DEF TypeOK
<1>1. ASSUME NEW c \in Clusters
      PROVE  DOMAIN repo'[c].steps \subseteq 1..StepBound
  <2>0. DOMAIN repo[c].steps \subseteq 1..StepBound
    BY DEF StepsBounded
  <2>1. ASSUME NEW d \in Clusters, Command(d)
        PROVE  DOMAIN repo'[c].steps \subseteq 1..StepBound
    BY <2>0, <2>1, CommandKeepsBound
  <2>2. ASSUME NEW r \in Requests, Terminate(r)
        PROVE  DOMAIN repo'[c].steps \subseteq 1..StepBound
    <3>1. \/ repo' = repo
          \/ \E d \in Clusters, new \in Cluster :
               /\ repo' = [repo EXCEPT ![d] = new]
               /\ \/ DOMAIN new.steps = DOMAIN repo[d].steps
                  \/ DOMAIN new.steps = DOMAIN request[r].copy.steps
      BY <2>2, TerminateEffect
    <3> QED BY <1>0, <2>0, <3>1 DEF StepsBounded
  <2>3. ASSUME NEW t \in Tasks, DriverStep(t)
        PROVE  DOMAIN repo'[c].steps \subseteq 1..StepBound
    <3>1. CASE c # task[t].cluster
      BY <2>0, <2>3, <3>1, DriverAlone DEF EmrInv
    <3>2. CASE c = task[t].cluster
      <4>1. PICK new \in Cluster :
              /\ repo' = [repo EXCEPT ![c] = new]
              /\ \/ LeftIdle(t, repo[c], new)
                 \/ LeftBootstrapping(t, repo[c], new)
                 \/ LeftInStep(t, repo[c], new)
        BY <2>3, <3>2, DriverOutcome DEF EmrInv, RunnerInv
      <4>2. DOMAIN new.steps = DOMAIN repo[c].steps
        BY <4>1 DEF LeftIdle, LeftBootstrapping, LeftInStep, StepsFollow
      <4> QED BY <1>0, <2>0, <4>1, <4>2
    <3> QED BY <3>1, <3>2
  <2> QED BY <2>0, <2>1, <2>2, <2>3, StepsOfNext, QuietSteps DEF DriverStep
<1>2. ASSUME NEW r \in Requests
      PROVE  DOMAIN request'[r].copy.steps \subseteq 1..StepBound
  <2>1. CASE QuietStep
    <3>1. DOMAIN NoCluster.steps = {}
      BY DEF NoCluster
    <3> QED BY <2>1, <3>1, CopyOfRequest DEF StepsBounded
  <2>2. ASSUME NEW t \in Tasks, DriverStep(t)
        PROVE  request' = request
    BY <2>2, DriverAlone DEF EmrInv
  <2> QED BY <2>1, <2>2, StepsOfNext DEF StepsBounded, DriverStep
<1> QED BY <1>1, <1>2 DEF StepsBounded

-----------------------------------------------------------------------------
(***************************************************************************)
(* The queue of a cluster as a function of the aggregate and the tasks.    *)
(***************************************************************************)
PhaseIn(state) ==
  CASE state = Absent                          -> "absent"
    [] state \in {"STARTING", "BOOTSTRAPPING"} -> "booting"
    [] state \in {"RUNNING", "WAITING"}        -> "open"
    [] OTHER                                   -> "ended"

StepsAtWork(tasks, c) ==
  {i \in 1..StepBound :
     \E t \in Tasks : /\ tasks[t].pc \in Phase /\ tasks[t].cluster = c
                      /\ tasks[t].op = <<"step", i>>}

CurrentIn(tasks, c) ==
  IF StepsAtWork(tasks, c) = {} THEN 0 ELSE CHOOSE i \in StepsAtWork(tasks, c) : TRUE

QueueIn(cl, current) ==
  IF PhaseIn(cl.state) = "ended"
  THEN [phase |-> "ended", accepted |-> 0, waiting |-> {}, current |-> current]
  ELSE [phase |-> PhaseIn(cl.state), accepted |-> Len(cl.steps),
        waiting |-> PendingSteps(cl), current |-> current]

AbstractQueue == [c \in Clusters |-> QueueOf(c)]

\* The same, before and after a step.
LEMMA QueueInTerms ==
  /\ \A c \in Clusters : QueueOf(c) = QueueIn(repo[c], CurrentIn(task, c))
  /\ \A c \in Clusters : QueueOf(c)' = QueueIn(repo'[c], CurrentIn(task', c))
<1>1. \A c \in Clusters : QueueOf(c) = QueueIn(repo[c], CurrentIn(task, c))
  BY DEF QueueOf, QueuePhase, CurrentStep, QueueIn, PhaseIn, CurrentIn, StepsAtWork, Running
<1>2. \A c \in Clusters : QueueOf(c)' = QueueIn(repo'[c], CurrentIn(task', c))
  BY DEF QueueOf, QueuePhase, CurrentStep, QueueIn, PhaseIn, CurrentIn, StepsAtWork, Running
<1> QED BY <1>1, <1>2

\* The one runner of a cluster decides what is current, if it is at a step.
LEMMA CurrentOfRunner ==
  ASSUME NEW tasks, NEW c, NEW t \in Tasks, NEW i \in 1..StepBound,
         tasks[t].pc \in Phase, tasks[t].cluster = c, tasks[t].op = <<"step", i>>,
         \A u \in Tasks : tasks[u].pc \in Phase /\ tasks[u].cluster = c => u = t
  PROVE  CurrentIn(tasks, c) = i
<1>1. StepsAtWork(tasks, c) = {i}
  BY DEF StepsAtWork
<1> QED BY <1>1 DEF CurrentIn

\* A cluster nobody runs a step for has no current step.
LEMMA CurrentOfNobody ==
  ASSUME NEW tasks, NEW c,
         \A u \in Tasks : tasks[u].pc \in Phase /\ tasks[u].cluster = c => tasks[u].op[1] # "step"
  PROVE  CurrentIn(tasks, c) = 0
<1>1. StepsAtWork(tasks, c) = {}
  BY DEF StepsAtWork
<1> QED BY <1>1 DEF CurrentIn

\* Quiet steps keep what is current.
LEMMA QuietStepKeepsCurrent ==
  ASSUME TypeOK, QuietStep, NEW c \in Clusters
  PROVE  CurrentIn(task', c) = CurrentIn(task, c)
<1>1. StepsAtWork(task', c) = StepsAtWork(task, c)
  BY QuietStepKeepsRunners DEF RunnersKept, StepsAtWork, Running
<1> QED BY <1>1 DEF CurrentIn

-----------------------------------------------------------------------------
(***************************************************************************)
(* The actions of the abstract queue, for one cluster whose queue goes     *)
(* from q to p while those of the others stay.                             *)
(***************************************************************************)
OthersKeepQueue(c) == \A d \in Clusters \ {c} : QueueOf(d)' = QueueOf(d)

\* The queue of one cluster changes.
LEMMA QueueBecomes ==
  ASSUME NEW c \in Clusters, OthersKeepQueue(c), NEW p, QueueOf(c)' = p
  PROVE  Abstract!Become(c, p)
BY DEF OthersKeepQueue, Abstract!Become

\* No queue changes.
LEMMA QueuesStutter ==
  ASSUME \A c \in Clusters : QueueOf(c)' = QueueOf(c)
  PROVE  AbstractQueue' = AbstractQueue
BY DEF AbstractQueue

\* A cluster is created.
LEMMA CreateImplements ==
  ASSUME NEW c \in Clusters, OthersKeepQueue(c), QueueOf(c).phase = "absent", NEW n \in 0..StepBound,
         QueueOf(c)' = [phase |-> "booting", accepted |-> n, waiting |-> 1..n, current |-> 0]
  PROVE  Abstract!Next
<1>1. Abstract!Create(c)
  BY QueueBecomes DEF Abstract!Create
<1> QED BY <1>1 DEF Abstract!Next

\* Steps are accepted.
LEMMA AcceptImplements ==
  ASSUME NEW c \in Clusters, OthersKeepQueue(c), NEW m \in Nat, NEW n \in (m + 1)..StepBound,
         NEW w, NEW k,
         QueueOf(c)  = [phase |-> "open", accepted |-> m, waiting |-> w, current |-> k],
         QueueOf(c)' = [phase |-> "open", accepted |-> n, waiting |-> w \cup ((m + 1)..n),
                        current |-> k]
  PROVE  Abstract!Next
<1> DEFINE q == QueueOf(c)
           more == [q EXCEPT !.accepted = n]
           all  == w \cup ((m + 1)..n)
<1>1. /\ q = [phase |-> "open", accepted |-> m, waiting |-> w, current |-> k]
      /\ QueueOf(c)' = [phase |-> "open", accepted |-> n, waiting |-> all, current |-> k]
  OBVIOUS
<1> HIDE DEF q, all
<1>2. more = [phase |-> "open", accepted |-> n, waiting |-> w, current |-> k]
  BY <1>1
<1>3. [q EXCEPT !.accepted = n, !.waiting = all] = [more EXCEPT !.waiting = all]
  OBVIOUS
<1> HIDE DEF more
<1>4. [more EXCEPT !.waiting = all] =
        [phase |-> "open", accepted |-> n, waiting |-> all, current |-> k]
  BY <1>2
<1>5. q.phase = "open" /\ q.accepted = m /\ all = q.waiting \cup ((q.accepted + 1)..n)
  BY <1>1 DEF all
<1>6. QueueOf(c)' = [q EXCEPT !.accepted = n, !.waiting = q.waiting \cup ((q.accepted + 1)..n)]
  BY <1>1, <1>3, <1>4, <1>5
<1>7. Abstract!Accept(c)
  BY <1>5, <1>6, QueueBecomes DEF Abstract!Accept, q
<1> QED BY <1>7 DEF Abstract!Next

\* A waiting step is withdrawn.
LEMMA WithdrawImplements ==
  ASSUME NEW c \in Clusters, OthersKeepQueue(c), NEW phase \in {"booting", "open"}, NEW m, NEW w,
         NEW i \in w, NEW k,
         QueueOf(c)  = [phase |-> phase, accepted |-> m, waiting |-> w, current |-> k],
         QueueOf(c)' = [phase |-> phase, accepted |-> m, waiting |-> w \ {i}, current |-> k]
  PROVE  Abstract!Next
<1>1. QueueOf(c)' = [QueueOf(c) EXCEPT !.waiting = @ \ {i}]
  <2> DEFINE q == QueueOf(c)
  <2>1. q = [phase |-> phase, accepted |-> m, waiting |-> w, current |-> k]
    OBVIOUS
  <2> HIDE DEF q
  <2>2. [q EXCEPT !.waiting = @ \ {i}] =
          [phase |-> phase, accepted |-> m, waiting |-> w \ {i}, current |-> k]
    BY <2>1
  <2> QED BY <2>2 DEF q
<1>2. QueueOf(c).phase \in {"booting", "open"} /\ i \in QueueOf(c).waiting
  OBVIOUS
<1>3. Abstract!Withdraw(c)
  BY <1>1, <1>2, QueueBecomes DEF Abstract!Withdraw, Abstract!Alive
<1> QED BY <1>3 DEF Abstract!Next

\* The first waiting step takes the turn.
LEMMA TakeImplements ==
  ASSUME NEW c \in Clusters, OthersKeepQueue(c), NEW phase \in {"booting", "open"}, NEW m,
         NEW w \in SUBSET Nat, NEW i \in w, \A j \in w : i <= j, NEW k,
         QueueOf(c)  = [phase |-> phase, accepted |-> m, waiting |-> w, current |-> k],
         QueueOf(c)' = [phase |-> "open", accepted |-> m, waiting |-> w \ {i}, current |-> i]
  PROVE  Abstract!Next
<1>1. QueueOf(c).phase \in {"booting", "open"} /\ QueueOf(c).waiting = w
  OBVIOUS
<1>2. Abstract!First(w) = i
  <2>1. i \in Nat /\ \A j \in w : j \in Nat
    OBVIOUS
  <2> DEFINE x == CHOOSE h \in w : \A j \in w : h <= j
  <2>2. x \in w /\ \A j \in w : x <= j
    OBVIOUS
  <2>3. Abstract!First(w) = x
    BY DEF Abstract!First
  <2> HIDE DEF x
  <2>4. x <= i /\ i <= x /\ x \in Nat /\ i \in Nat
    BY <2>1, <2>2
  <2> QED BY <2>3, <2>4
<1>3. QueueOf(c)' = [QueueOf(c) EXCEPT !.phase = "open", !.waiting = w \ {i}, !.current = i]
  <2> DEFINE q == QueueOf(c)
             v == w \ {i}
  <2>1. q = [phase |-> phase, accepted |-> m, waiting |-> w, current |-> k]
    OBVIOUS
  <2>2. QueueOf(c)' = [phase |-> "open", accepted |-> m, waiting |-> v, current |-> i]
    OBVIOUS
  <2> HIDE DEF q, v
  <2> DEFINE q1 == [q EXCEPT !.phase = "open"]
             q2 == [q1 EXCEPT !.waiting = v]
  <2>3. [q EXCEPT !.phase = "open", !.waiting = v, !.current = i] = [q2 EXCEPT !.current = i]
    OBVIOUS
  <2>4. q1 = [phase |-> "open", accepted |-> m, waiting |-> w, current |-> k]
    BY <2>1
  <2> HIDE DEF q1
  <2>5. q2 = [phase |-> "open", accepted |-> m, waiting |-> v, current |-> k]
    BY <2>4
  <2> HIDE DEF q2
  <2>6. [q2 EXCEPT !.current = i] =
          [phase |-> "open", accepted |-> m, waiting |-> v, current |-> i]
    BY <2>5
  <2> QED BY <2>2, <2>3, <2>6 DEF q, v
<1>4. Abstract!Become(c, [QueueOf(c) EXCEPT !.phase = "open", !.waiting = w \ {i}, !.current = i])
  BY <1>3, QueueBecomes
<1>5. Abstract!Take(c)
  BY <1>1, <1>2, <1>4 DEF Abstract!Take, Abstract!Alive
<1> QED BY <1>5 DEF Abstract!Next

\* Nothing takes the turn.
LEMMA RestImplements ==
  ASSUME NEW c \in Clusters, OthersKeepQueue(c), NEW phase \in {"booting", "open"}, NEW m, NEW w,
         NEW k, w = {} \/ k # 0,
         QueueOf(c)  = [phase |-> phase, accepted |-> m, waiting |-> w, current |-> k],
         QueueOf(c)' = [phase |-> "open", accepted |-> m, waiting |-> {}, current |-> 0]
  PROVE  Abstract!Next
<1>1. QueueOf(c).phase \in {"booting", "open"} /\ QueueOf(c).waiting = w /\ QueueOf(c).current = k
  OBVIOUS
<1>2. QueueOf(c)' = [QueueOf(c) EXCEPT !.phase = "open", !.waiting = {}, !.current = 0]
  <2> DEFINE q == QueueOf(c)
  <2>1. q = [phase |-> phase, accepted |-> m, waiting |-> w, current |-> k]
    OBVIOUS
  <2> HIDE DEF q
  <2> DEFINE q1 == [q EXCEPT !.phase = "open"]
             q2 == [q1 EXCEPT !.waiting = {}]
  <2>3. [q EXCEPT !.phase = "open", !.waiting = {}, !.current = 0] = [q2 EXCEPT !.current = 0]
    OBVIOUS
  <2>4. q1 = [phase |-> "open", accepted |-> m, waiting |-> w, current |-> k]
    BY <2>1
  <2> HIDE DEF q1
  <2>5. q2 = [phase |-> "open", accepted |-> m, waiting |-> {}, current |-> k]
    BY <2>4
  <2> HIDE DEF q2
  <2>6. [q2 EXCEPT !.current = 0] =
          [phase |-> "open", accepted |-> m, waiting |-> {}, current |-> 0]
    BY <2>5
  <2> QED BY <2>3, <2>6 DEF q
<1>3. Abstract!Become(c, [QueueOf(c) EXCEPT !.phase = "open", !.waiting = {}, !.current = 0])
  BY <1>2, QueueBecomes
<1>4. Abstract!Rest(c)
  BY <1>1, <1>3 DEF Abstract!Rest, Abstract!Alive
<1> QED BY <1>4 DEF Abstract!Next

\* An ended queue, field by field.
LEMMA EndedQueue ==
  ASSUME NEW q
  PROVE  Abstract!Ended(q) = [phase |-> "ended", accepted |-> 0, waiting |-> {},
                              current |-> q.current]
<1> DEFINE k == q.current
<1>1. Abstract!Ended(q) = [Abstract!NoQueue EXCEPT !.phase = "ended", !.current = k]
  BY DEF Abstract!Ended
<1> HIDE DEF k
<1>2. [Abstract!NoQueue EXCEPT !.phase = "ended"] =
        [phase |-> "ended", accepted |-> 0, waiting |-> {}, current |-> 0]
  BY DEF Abstract!NoQueue
<1>3. [[phase |-> "ended", accepted |-> 0, waiting |-> {}, current |-> 0] EXCEPT !.current = k] =
        [phase |-> "ended", accepted |-> 0, waiting |-> {}, current |-> k]
  OBVIOUS
<1>4. [Abstract!NoQueue EXCEPT !.phase = "ended", !.current = k] =
        [[Abstract!NoQueue EXCEPT !.phase = "ended"] EXCEPT !.current = k]
  OBVIOUS
<1> QED BY <1>1, <1>2, <1>3, <1>4 DEF k

\* The same without the step that was current.
LEMMA EndedAtRest ==
  ASSUME NEW c
  PROVE  Abstract!Ended([QueueOf(c) EXCEPT !.current = 0]) =
           [phase |-> "ended", accepted |-> 0, waiting |-> {}, current |-> 0]
<1> DEFINE q == [QueueOf(c) EXCEPT !.current = 0]
<1>1. q.current = 0
  BY DEF QueueOf
<1> HIDE DEF q
<1>2. Abstract!Ended(q) = [phase |-> "ended", accepted |-> 0, waiting |-> {}, current |-> 0]
  BY <1>1, EndedQueue
<1> QED BY <1>2 DEF q

\* The cluster ends, with its last step still to be stopped or without.
LEMMA EndImplements ==
  ASSUME NEW c \in Clusters, OthersKeepQueue(c), QueueOf(c).phase \in {"booting", "open"},
         NEW k \in {0, QueueOf(c).current},
         QueueOf(c)' = [phase |-> "ended", accepted |-> 0, waiting |-> {}, current |-> k]
  PROVE  Abstract!Next
<1>1. QueueOf(c)' \in {Abstract!Ended(QueueOf(c)), Abstract!Ended([QueueOf(c) EXCEPT !.current = 0])}
  BY EndedQueue, EndedAtRest
<1>2. \/ Abstract!Become(c, Abstract!Ended(QueueOf(c)))
      \/ Abstract!Become(c, Abstract!Ended([QueueOf(c) EXCEPT !.current = 0]))
  BY <1>1, QueueBecomes
<1>3. Abstract!End(c)
  BY <1>2 DEF Abstract!End, Abstract!Alive
<1> QED BY <1>3 DEF Abstract!Next

\* The last step of an ended cluster has been stopped.
LEMMA DrainImplements ==
  ASSUME NEW c \in Clusters, OthersKeepQueue(c), QueueOf(c).phase = "ended",
         QueueOf(c).current # 0,
         QueueOf(c)' = [phase |-> "ended", accepted |-> 0, waiting |-> {}, current |-> 0]
  PROVE  Abstract!Next
<1>1. Abstract!Become(c, Abstract!Ended([QueueOf(c) EXCEPT !.current = 0]))
  BY EndedAtRest, QueueBecomes
<1>2. Abstract!Drain(c)
  BY <1>1 DEF Abstract!Drain
<1> QED BY <1>2 DEF Abstract!Next

-----------------------------------------------------------------------------
(***************************************************************************)
(* Requests name clusters that exist.                                      *)
(***************************************************************************)
RequestsNameClusters ==
  \A r \in Requests : \A c \in request[r].todo : repo[c].state # Absent

\* A cluster never ceases to exist.
LEMMA ClusterStays ==
  ASSUME TypeOK, EmrInv, [Next]_vars, NEW c \in Clusters, repo[c].state # Absent
  PROVE  repo'[c].state # Absent
<1>0. repo \in [Clusters -> Cluster]
  BY DEF TypeOK
<1>1. ASSUME NEW d \in Clusters, Command(d)
      PROVE  repo'[c].state # Absent
  BY <1>0, <1>1, CommandOnCluster DEF Absent
<1>2. ASSUME NEW r \in Requests, Terminate(r)
      PROVE  repo'[c].state # Absent
  <2>1. \/ repo' = repo
        \/ \E d \in Clusters, new \in Cluster :
             repo' = [repo EXCEPT ![d] = new] /\ new.state \in {"TERMINATING", "TERMINATED"}
    BY <1>2, TerminateEffect
  <2> QED BY <1>0, <2>1 DEF Absent
<1>3. ASSUME NEW t \in Tasks, DriverStep(t)
      PROVE  repo'[c].state # Absent
  <2>1. CASE c # task[t].cluster
    BY <1>3, <2>1, DriverAlone DEF EmrInv
  <2>2. CASE c = task[t].cluster
    <3>1. PICK new \in Cluster :
            /\ repo' = [repo EXCEPT ![c] = new]
            /\ \/ LeftIdle(t, repo[c], new)
               \/ LeftBootstrapping(t, repo[c], new)
               \/ LeftInStep(t, repo[c], new)
      BY <1>3, <2>2, DriverOutcome DEF EmrInv, RunnerInv
    <3>2. new.state # Absent
      BY <3>1 DEF LeftIdle, LeftBootstrapping, LeftInStep, Absent
    <3> QED BY <1>0, <3>1, <3>2
  <2> QED BY <2>1, <2>2
<1> QED BY <1>1, <1>2, <1>3, StepsOfNext, QuietSteps DEF DriverStep

\* A request only takes on clusters that exist.
LEMMA TodoOfRequest ==
  ASSUME TypeOK, QuietStep, NEW r \in Requests
  PROVE  \/ request'[r].todo \subseteq request[r].todo
         \/ \A c \in request'[r].todo : repo[c].state # Absent
<1>0. request \in [Requests -> Request]
  BY DEF TypeOK
<1>1. ASSUME NEW s \in Requests, NEW todo \in SUBSET request[s].todo, Proceed(s, todo)
      PROVE  request'[r].todo \subseteq request[r].todo
  BY <1>0, <1>1 DEF Proceed, IdleRequest
<1>2. ASSUME NEW s \in Requests, NEW todo \in SUBSET request[s].todo,
             NEW pc, NEW c, NEW copy, NEW ops, Await(s, pc, c, copy, ops, todo)
      PROVE  request'[r].todo \subseteq request[r].todo
  BY <1>0, <1>2 DEF Await
<1>3. ASSUME NEW s \in Requests, NEW todo \in SUBSET request[s].todo,
             NEW c, NEW copy, SaveAndCleanUp(s, c, copy, todo)
      PROVE  request'[r].todo \subseteq request[r].todo
  BY <1>1, <1>2, <1>3 DEF SaveAndCleanUp
<1>4. ASSUME NEW s \in Requests, NEW c \in Clusters,
             TerminateSkip(s, c) \/ TerminateRefused(s, c) \/ TerminateBegin(s, c)
      PROVE  request'[r].todo \subseteq request[r].todo
  <2>1. request[s].todo \ {c} \in SUBSET request[s].todo /\ {} \in SUBSET request[s].todo
    OBVIOUS
  <2>2. CASE TerminateSkip(s, c) \/ TerminateRefused(s, c)
    BY <1>1, <2>1, <2>2 DEF TerminateSkip, TerminateRefused
  <2>3. CASE TerminateBegin(s, c)
    BY <1>2, <1>3, <2>1, <2>3 DEF TerminateBegin
  <2> QED BY <1>4, <2>2, <2>3
<1>5. ASSUME NEW s \in Requests, TerminateSave(s) \/ TerminateFinish(s)
      PROVE  request'[r].todo \subseteq request[r].todo
  <2>1. request[s].todo \in SUBSET request[s].todo
    OBVIOUS
  <2> QED BY <1>1, <1>3, <1>5, <2>1 DEF TerminateSave, TerminateFinish
<1>6. ASSUME NEW s \in Requests, NEW cs, TerminateClusters(s, cs)
      PROVE  \/ request'[r].todo \subseteq request[r].todo
             \/ \A c \in request'[r].todo : repo[c].state # Absent
  BY <1>0, <1>6 DEF TerminateClusters, IdleRequest
<1>7. ASSUME NEW c \in Clusters, Command(c)
      PROVE  request' = request
  BY <1>7, CommandEffect
<1>8. ASSUME NEW t \in Tasks, SkipDuplicate(t) \/ PrepareFails(t) \/ Register(t) \/ Exit(t)
      PROVE  request' = request
  BY <1>8 DEF SkipDuplicate, PrepareFails, Register, Exit
<1> QED BY <1>4, <1>5, <1>6, <1>7, <1>8 DEF QuietStep, Terminate, vars

\* Requests go on naming clusters that exist.
LEMMA RequestsNameInductive ==
  ASSUME TypeOK, TypeOK', EmrInv, RequestsNameClusters, [Next]_vars
  PROVE  RequestsNameClusters'
<1> SUFFICES ASSUME NEW r \in Requests, NEW c \in request'[r].todo
             PROVE  repo'[c].state # Absent
  BY DEF RequestsNameClusters
<1>1. \A d \in request[r].todo : d \in Clusters /\ repo[d].state # Absent
  BY RequestType DEF RequestsNameClusters
<1>2. CASE QuietStep
  <2>1. repo[c].state # Absent
    BY <1>1, <1>2, TodoOfRequest
  <2>2. CASE c \in Clusters
    BY <2>1, <2>2, ClusterStays
  <2>3. c \in Clusters
    BY DEF TypeOK, Request
  <2> QED BY <2>2, <2>3
<1>3. ASSUME NEW t \in Tasks, DriverStep(t)
      PROVE  repo'[c].state # Absent
  <2>1. request' = request
    BY <1>3, DriverAlone DEF EmrInv
  <2> QED BY <1>1, <2>1, ClusterStays
<1> QED BY <1>2, <1>3, StepsOfNext DEF DriverStep

\* A termination changes clusters that exist.
LEMMA TerminateChangesCluster ==
  ASSUME TypeOK, EmrInv, RequestsNameClusters, NEW r \in Requests, Terminate(r),
         NEW c \in Clusters, repo'[c] # repo[c]
  PROVE  repo[c].state # Absent
<1>0. repo \in [Clusters -> Cluster]
  BY DEF TypeOK
<1>1. ASSUME NEW d \in Clusters, NEW copy \in Cluster, NEW todo, SaveAndCleanUp(r, d, copy, todo)
      PROVE  d = c
  BY <1>1, SaveEffect
<1>2. ASSUME NEW d \in Clusters, TerminateBegin(r, d)
      PROVE  repo[c].state # Absent
  <2>1. d \in request[r].todo /\ \E todo : SaveAndCleanUp(r, d, repo[d], todo)
    BY <1>2 DEF TerminateBegin
  <2>2. repo[d] \in Cluster
    BY <1>0
  <2> QED BY <1>1, <2>1, <2>2 DEF RequestsNameClusters
<1>3. CASE TerminateSave(r)
  <2>1. /\ request[r].cluster \in Clusters /\ repo[request[r].cluster].state # Absent
        /\ request[r].copy \in Cluster
    BY <1>3, WaiterHasCluster, RequestType DEF TerminateSave
  <2> QED BY <1>1, <1>3, <2>1 DEF TerminateSave
<1>4. CASE TerminateFinish(r)
  <2>1. request[r].cluster \in Clusters
    BY <1>4 DEF TerminateFinish, TypeOK
  <2> QED BY <1>0, <1>4, <2>1 DEF TerminateFinish, Absent
<1> QED BY <1>2, <1>3, <1>4 DEF Terminate, TerminateSkip, TerminateRefused

-----------------------------------------------------------------------------
(***************************************************************************)
(* The commands.                                                           *)
(***************************************************************************)
\* The queue of a cluster that has not ended, field by field.
LEMMA AliveQueue ==
  ASSUME NEW cl, NEW k, cl.state \in {"STARTING", "BOOTSTRAPPING", "RUNNING", "WAITING"}
  PROVE  /\ QueueIn(cl, k) = [phase |-> PhaseIn(cl.state), accepted |-> Len(cl.steps),
                              waiting |-> PendingSteps(cl), current |-> k]
         /\ PhaseIn(cl.state) \in {"booting", "open"}
         /\ cl.state \in {"RUNNING", "WAITING"} => PhaseIn(cl.state) = "open"
         /\ cl.state \in {"STARTING", "BOOTSTRAPPING"} => PhaseIn(cl.state) = "booting"
BY DEF QueueIn, PhaseIn, Absent

\* The queue of a cluster that has ended, or is about to.
LEMMA OverQueue ==
  ASSUME NEW cl, NEW k, cl.state \in {"TERMINATING"} \cup ClusterTerminal
  PROVE  /\ QueueIn(cl, k) = [phase |-> "ended", accepted |-> 0, waiting |-> {}, current |-> k]
         /\ PhaseIn(cl.state) = "ended"
BY DEF QueueIn, PhaseIn, Absent, ClusterTerminal

\* A domain tells the length.
LEMMA SameLength ==
  ASSUME NEW old \in Cluster, NEW new \in Cluster, DOMAIN new.steps = DOMAIN old.steps
  PROVE  Len(new.steps) = Len(old.steps)
<1>1. \A m, n \in Nat : 1..m = 1..n => m = n
  <2> SUFFICES ASSUME NEW m \in Nat, NEW n \in Nat, 1..m = 1..n, m < n
               PROVE  FALSE
    OBVIOUS
  <2>1. n \in 1..n /\ n \notin 1..m
    OBVIOUS
  <2> QED BY <2>1
<1>2. /\ DOMAIN new.steps = 1..Len(new.steps) /\ Len(new.steps) \in Nat
      /\ DOMAIN old.steps = 1..Len(old.steps) /\ Len(old.steps) \in Nat
  BY StepsOfCluster
<1> QED BY <1>1, <1>2

\* Aggregates of the same state, with as many steps and the same pending ones, have the same queue.
LEMMA SameQueue ==
  ASSUME NEW old \in Cluster, NEW new \in Cluster, NEW k, PhaseIn(new.state) = PhaseIn(old.state),
         DOMAIN new.steps = DOMAIN old.steps, PendingSteps(new) = PendingSteps(old)
  PROVE  QueueIn(new, k) = QueueIn(old, k)
<1>2. Len(new.steps) = Len(old.steps)
  BY SameLength
<1> QED BY <1>2 DEF QueueIn

\* Nobody runs a step of a cluster that does not exist.
LEMMA AbsentHasNoCurrent ==
  ASSUME TypeOK, EmrInv, NEW c \in Clusters, repo[c].state = Absent
  PROVE  CurrentIn(task, c) = 0
<1>1. \A u \in Tasks : task[u].pc \in Phase /\ task[u].cluster = c => task[u].op[1] # "step"
  BY DEF EmrInv, RunnerInv, RunnerInPhase, Running, Absent, ClusterTerminal
<1> QED BY <1>1, CurrentOfNobody

\* A new cluster has its initial steps waiting.
LEMMA CreateQueue ==
  ASSUME TypeOK, EmrInv, NEW c \in Clusters, CreateCluster(c), OthersKeepQueue(c),
         CurrentIn(task', c) = CurrentIn(task, c)
  PROVE  Abstract!Next
<1>0. repo \in [Clusters -> Cluster] /\ repo[c].state = Absent
  BY DEF TypeOK, CreateCluster
<1>1. PICK keepAlive \in KeepAlives, protected \in Protections \cup {FALSE},
           visible \in Visibilities \cup {FALSE}, m \in 0..BootstrapBound, steps \in StepLists :
        repo' = [repo EXCEPT ![c] =
                   [state |-> "STARTING", keepAlive |-> keepAlive, protected |-> protected,
                    visible |-> visible, bootstraps |-> m, steps |-> steps]]
  BY DEF CreateCluster
<1>2. repo'[c].state = "STARTING" /\ repo'[c].steps = steps
  BY <1>0, <1>1
<1>3. PICK n \in 0..StepBound : Len(steps) = n /\ DOMAIN steps = 1..n
  <2>1. PICK n \in 0..StepBound : steps \in [1..n -> {NewStep(a) : a \in FailureActions}]
    BY DEF StepLists
  <2>2. n \in Nat
    BY ConstantsAssumption
  <2>3. Len(steps) = n /\ DOMAIN steps = 1..n
    BY <2>1, <2>2, FunctionIsSequence
  <2> QED BY <2>3
<1>4. PendingSteps(repo'[c]) = 1..n
  BY <1>2, <1>3, StepListsType DEF PendingSteps
<1>5. QueueIn(repo'[c], 0) = [phase |-> "booting", accepted |-> n, waiting |-> 1..n, current |-> 0]
  BY <1>2, <1>3, <1>4, AliveQueue
<1>6. QueueOf(c)' = [phase |-> "booting", accepted |-> n, waiting |-> 1..n, current |-> 0]
  BY <1>0, <1>5, AbsentHasNoCurrent, QueueInTerms
<1>7. QueueOf(c).phase = "absent"
  BY <1>0 DEF QueueOf, QueuePhase, Absent
<1> QED BY <1>3, <1>6, <1>7, CreateImplements

\* Added steps wait behind all others.
LEMMA AddQueue ==
  ASSUME TypeOK, NEW c \in Clusters, AddSteps(c), OthersKeepQueue(c),
         CurrentIn(task', c) = CurrentIn(task, c)
  PROVE  Abstract!Next
<1> DEFINE k   == CurrentIn(task, c)
           old == repo[c]
<1>0. repo \in [Clusters -> Cluster] /\ old \in Cluster /\ old.state \in {"RUNNING", "WAITING"}
  BY DEF TypeOK, AddSteps, Serving
<1>1. PICK steps \in StepLists \ {<<>>} :
        /\ Len(old.steps) + Len(steps) <= StepBound
        /\ repo' = [repo EXCEPT ![c].state = "RUNNING", ![c].steps = @ \o steps]
  BY DEF AddSteps
<1> DEFINE n == Len(old.steps) + Len(steps)
<1>2. /\ old.steps \in Seq(Step) /\ steps \in Seq(Step) /\ steps # <<>>
      /\ Len(old.steps) \in Nat /\ Len(steps) \in Nat
      /\ DOMAIN old.steps = 1..Len(old.steps) /\ DOMAIN steps = 1..Len(steps)
  BY <1>0, <1>1, StepsOfCluster, StepListsType, LenProperties
<1>3. Len(steps) > 0
  BY <1>2, EmptySeq
<1>4. repo'[c].state = "RUNNING" /\ repo'[c].steps = old.steps \o steps
  BY <1>0, <1>1 DEF Cluster
<1>5. /\ Len(repo'[c].steps) = n /\ DOMAIN repo'[c].steps = 1..n
      /\ \A j \in 1..n : repo'[c].steps[j] = IF j <= Len(old.steps) THEN old.steps[j]
                                             ELSE steps[j - Len(old.steps)]
  BY <1>2, <1>4, ConcatProperties, LenProperties
<1>6. \A j \in DOMAIN steps : steps[j].state = "PENDING"
  BY <1>1, StepListsType
<1>7. n \in (Len(old.steps) + 1)..StepBound
  BY <1>1, <1>2, <1>3, ConstantsAssumption
<1>8. PendingSteps(repo'[c]) = PendingSteps(old) \cup ((Len(old.steps) + 1)..n)
  <2>1. \A j \in 1..Len(old.steps) :
          j \in 1..n /\ repo'[c].steps[j] = old.steps[j]
    BY <1>2, <1>5
  <2>2. \A j \in (Len(old.steps) + 1)..n :
          j \in 1..n /\ repo'[c].steps[j].state = "PENDING"
    <3> SUFFICES ASSUME NEW j \in (Len(old.steps) + 1)..n
                 PROVE  j \in 1..n /\ repo'[c].steps[j].state = "PENDING"
      OBVIOUS
    <3>1. j \in 1..n /\ ~(j <= Len(old.steps)) /\ j - Len(old.steps) \in DOMAIN steps
      BY <1>2
    <3>2. repo'[c].steps[j] = steps[j - Len(old.steps)]
      BY <1>5, <3>1
    <3> QED BY <1>6, <3>1, <3>2
  <2>3. \A j \in 1..n : j \in 1..Len(old.steps) \/ j \in (Len(old.steps) + 1)..n
    BY <1>2
  <2>4. DOMAIN repo'[c].steps = 1..n /\ DOMAIN old.steps = 1..Len(old.steps)
    BY <1>2, <1>5
  <2> HIDE DEF n
  <2> QED BY <2>1, <2>2, <2>3, <2>4 DEF PendingSteps
<1> HIDE DEF k
<1>9. /\ QueueIn(old, k) = [phase |-> "open", accepted |-> Len(old.steps),
                            waiting |-> PendingSteps(old), current |-> k]
      /\ QueueIn(repo'[c], k) = [phase |-> "open", accepted |-> n,
                                 waiting |-> PendingSteps(repo'[c]), current |-> k]
  <2> HIDE DEF old, n
  <2>1. PhaseIn(old.state) = "open" /\ PhaseIn(repo'[c].state) = "open"
    BY <1>0, <1>4, AliveQueue
  <2>2. QueueIn(old, k) = [phase |-> "open", accepted |-> Len(old.steps),
                           waiting |-> PendingSteps(old), current |-> k]
    BY <1>0, <2>1, AliveQueue
  <2>3. QueueIn(repo'[c], k) = [phase |-> "open", accepted |-> n,
                                waiting |-> PendingSteps(repo'[c]), current |-> k]
    <3>1. Len(repo'[c].steps) = n
      BY <1>5
    <3>2. repo'[c].state \in {"STARTING", "BOOTSTRAPPING", "RUNNING", "WAITING"}
      BY <1>4
    <3> QED BY <2>1, <3>1, <3>2, AliveQueue
  <2> QED BY <2>2, <2>3
<1>10. QueueOf(c) = QueueIn(old, k) /\ QueueOf(c)' = QueueIn(repo'[c], k)
  BY QueueInTerms DEF k
<1>11. Len(old.steps) \in Nat
  BY <1>2
<1> HIDE DEF old, n
<1> QED BY <1>7, <1>8, <1>9, <1>10, <1>11, AcceptImplements

\* A step that is cancelled before it started is withdrawn.
LEMMA CancelPendingQueue ==
  ASSUME TypeOK, EmrInv, NEW c \in Clusters, NEW i \in DOMAIN repo[c].steps,
         CancelPendingStep(c, i), OthersKeepQueue(c), CurrentIn(task', c) = CurrentIn(task, c)
  PROVE  Abstract!Next \/ QueueOf(c)' = QueueOf(c)
<1> DEFINE k   == CurrentIn(task, c)
           old == repo[c]
           new == SetStep(old, i, "CANCELLED")
<1>0. /\ repo \in [Clusters -> Cluster] /\ old \in Cluster
      /\ repo' = [repo EXCEPT ![c] = new] /\ old.steps[i].state = "PENDING"
  BY DEF TypeOK, CancelPendingStep
<1>1. /\ new \in Cluster /\ new.state = old.state /\ DOMAIN new.steps = DOMAIN old.steps
      /\ \A j \in DOMAIN old.steps :
           new.steps[j].state = IF j = i THEN "CANCELLED" ELSE old.steps[j].state
  BY <1>0, SetStepType DEF StepState
<1>2. repo'[c] = new
  BY <1>0
<1> HIDE DEF new, k
<1>3. QueueOf(c) = QueueIn(old, k) /\ QueueOf(c)' = QueueIn(new, k)
  BY <1>2, QueueInTerms DEF k
<1>4. i \in PendingSteps(old) /\ PendingSteps(new) = PendingSteps(old) \ {i}
  BY <1>0, <1>1 DEF PendingSteps
<1>5. CASE old.state \in {"TERMINATING"} \cup ClusterTerminal
  <2>1. QueueIn(old, k) = [phase |-> "ended", accepted |-> 0, waiting |-> {}, current |-> k]
    BY <1>5, OverQueue
  <2>2. QueueIn(new, k) = [phase |-> "ended", accepted |-> 0, waiting |-> {}, current |-> k]
    BY <1>1, <1>5, OverQueue
  <2> QED BY <1>3, <2>1, <2>2
<1>6. CASE old.state \in {"STARTING", "BOOTSTRAPPING", "RUNNING", "WAITING"}
  <2>1. Len(new.steps) = Len(old.steps)
    BY <1>0, <1>1, SameLength
  <2>2. /\ QueueIn(old, k) = [phase |-> PhaseIn(old.state), accepted |-> Len(old.steps),
                              waiting |-> PendingSteps(old), current |-> k]
        /\ QueueIn(new, k) = [phase |-> PhaseIn(old.state), accepted |-> Len(old.steps),
                              waiting |-> PendingSteps(old) \ {i}, current |-> k]
        /\ PhaseIn(old.state) \in {"booting", "open"}
    BY <1>1, <1>4, <1>6, <2>1, AliveQueue
  <2> HIDE DEF old
  <2> QED BY <1>3, <1>4, <2>2, WithdrawImplements
<1>7. old.state # Absent
  BY <1>4 DEF EmrInv, RunnerInv, NothingPends
<1>8. old.state \in ClusterState
  BY <1>0, <1>7 DEF Cluster
<1> QED BY <1>5, <1>6, <1>8 DEF ClusterState, ClusterTerminal

\* A command creates the cluster, adds to its queue or withdraws from it, or leaves it alone.
LEMMA CommandQueue ==
  ASSUME TypeOK, EmrInv, NEW c \in Clusters, Command(c)
  PROVE  Abstract!Next \/ AbstractQueue' = AbstractQueue
<1>0. repo \in [Clusters -> Cluster] /\ repo[c] \in Cluster /\ QuietStep
  BY DEF TypeOK, QuietStep
<1>1. \A d \in Clusters : CurrentIn(task', d) = CurrentIn(task, d)
  BY <1>0, QuietStepKeepsCurrent
<1>2. \A d \in Clusters \ {c} : repo'[d] = repo[d]
  BY <1>0, CommandEffect
<1>3. OthersKeepQueue(c)
  BY <1>1, <1>2, QueueInTerms DEF OthersKeepQueue
<1>4. ASSUME QueueOf(c)' = QueueOf(c)
      PROVE  AbstractQueue' = AbstractQueue
  BY <1>3, <1>4, QueuesStutter DEF OthersKeepQueue
<1>5. ASSUME NEW new \in Cluster, repo'[c] = new, new.state = repo[c].state,
             DOMAIN new.steps = DOMAIN repo[c].steps, PendingSteps(new) = PendingSteps(repo[c])
      PROVE  AbstractQueue' = AbstractQueue
  <2>1. QueueIn(new, CurrentIn(task, c)) = QueueIn(repo[c], CurrentIn(task, c))
    BY <1>0, <1>5, SameQueue
  <2>2. QueueOf(c)' = QueueOf(c)
    BY <1>1, <1>5, <2>1, QueueInTerms
  <2> QED BY <1>4, <2>2
<1>6. ASSUME NEW i \in DOMAIN repo[c].steps, CancelRunningStep(c, i)
      PROVE  AbstractQueue' = AbstractQueue
  <2> DEFINE new == SetStep(repo[c], i, "CANCEL_PENDING")
  <2>1. repo'[c] = new /\ repo[c].steps[i].state = "RUNNING"
    BY <1>0, <1>6 DEF CancelRunningStep
  <2>2. /\ new \in Cluster /\ new.state = repo[c].state /\ DOMAIN new.steps = DOMAIN repo[c].steps
        /\ \A j \in DOMAIN repo[c].steps :
             new.steps[j].state = IF j = i THEN "CANCEL_PENDING" ELSE repo[c].steps[j].state
    BY <1>0, SetStepType DEF StepState
  <2> HIDE DEF new
  <2>3. PendingSteps(new) = PendingSteps(repo[c])
    BY <2>1, <2>2 DEF PendingSteps
  <2> QED BY <1>5, <2>1, <2>2, <2>3
<1>7. CASE SetTerminationProtection(c) \/ SetVisibleToAllUsers(c)
  <2>1. /\ repo'[c] \in Cluster /\ repo'[c].state = repo[c].state
        /\ repo'[c].steps = repo[c].steps
    <3>1. repo'[c].state = repo[c].state /\ repo'[c].steps = repo[c].steps
      BY <1>0, <1>7 DEF SetTerminationProtection, SetVisibleToAllUsers, Cluster
    <3>2. TypeOK'
      BY CommandType
    <3> QED BY <3>1, <3>2 DEF TypeOK
  <2> QED BY <1>5, <2>1 DEF PendingSteps
<1>8. ASSUME NEW i \in DOMAIN repo[c].steps, CancelPendingStep(c, i)
      PROVE  Abstract!Next \/ AbstractQueue' = AbstractQueue
  BY <1>1, <1>3, <1>4, <1>8, CancelPendingQueue
<1> QED BY <1>1, <1>3, <1>6, <1>7, <1>8, CreateQueue, AddQueue DEF Command, CancelStep

-----------------------------------------------------------------------------
(***************************************************************************)
(* Terminations and the other quiet steps.                                 *)
(***************************************************************************)
\* The aggregate of a cluster is in one of four phases.
LEMMA PhasesOfCluster ==
  ASSUME NEW cl \in Cluster
  PROVE  \/ cl.state = Absent
         \/ cl.state \in {"STARTING", "BOOTSTRAPPING"}
         \/ cl.state \in {"RUNNING", "WAITING"}
         \/ cl.state \in {"TERMINATING"} \cup ClusterTerminal
BY DEF Cluster, ClusterState, ClusterTerminal

\* TerminateJobFlows ends the queue of a cluster, or leaves it as it is.
LEMMA TerminateQueue ==
  ASSUME TypeOK, EmrInv, RequestsNameClusters, NEW r \in Requests, Terminate(r)
  PROVE  Abstract!Next \/ AbstractQueue' = AbstractQueue
<1>0. repo \in [Clusters -> Cluster] /\ QuietStep
  BY DEF TypeOK, QuietStep
<1>1. \A d \in Clusters : CurrentIn(task', d) = CurrentIn(task, d)
  BY <1>0, QuietStepKeepsCurrent
<1>2. CASE repo' = repo
  <2>1. \A d \in Clusters : QueueOf(d)' = QueueOf(d)
    BY <1>1, <1>2, QueueInTerms
  <2> QED BY <2>1, QueuesStutter
<1>3. CASE repo' # repo
  <2>1. PICK c \in Clusters, new \in Cluster :
          /\ repo' = [repo EXCEPT ![c] = new] /\ new.state \in {"TERMINATING", "TERMINATED"}
    BY <1>3, TerminateEffect
  <2>2. repo'[c] = new /\ \A d \in Clusters \ {c} : repo'[d] = repo[d]
    BY <1>0, <2>1
  <2>3. OthersKeepQueue(c)
    BY <1>1, <2>2, QueueInTerms DEF OthersKeepQueue
  <2> DEFINE k == CurrentIn(task, c)
  <2>4. QueueOf(c) = QueueIn(repo[c], k) /\ QueueOf(c)' = QueueIn(new, k)
    BY <1>1, <2>2, QueueInTerms
  <2> HIDE DEF k
  <2>5. QueueIn(new, k) = [phase |-> "ended", accepted |-> 0, waiting |-> {}, current |-> k]
    BY <2>1, OverQueue DEF ClusterTerminal
  <2>6. repo[c].state # Absent
    <3>1. repo'[c] # repo[c]
      BY <1>0, <1>3, <2>1
    <3> QED BY <3>1, TerminateChangesCluster
  <2>7. CASE repo[c].state \in {"TERMINATING"} \cup ClusterTerminal
    <3>1. QueueOf(c)' = QueueOf(c)
      BY <2>4, <2>5, <2>7, OverQueue
    <3> QED BY <2>3, <3>1, QueuesStutter DEF OthersKeepQueue
  <2>8. CASE repo[c].state \in {"STARTING", "BOOTSTRAPPING", "RUNNING", "WAITING"}
    <3>1. QueueOf(c).phase \in {"booting", "open"} /\ QueueOf(c).current = k
      BY <2>4, <2>8, AliveQueue
    <3> QED BY <2>3, <2>4, <2>5, <3>1, EndImplements
  <2> QED BY <1>0, <2>6, <2>7, <2>8, PhasesOfCluster
<1> QED BY <1>2, <1>3

\* A step that is neither a command nor a termination nor one of the driver changes no queue.
LEMMA QuietQueue ==
  ASSUME TypeOK, QuietStep, repo' = repo
  PROVE  AbstractQueue' = AbstractQueue
<1>1. \A d \in Clusters : CurrentIn(task', d) = CurrentIn(task, d)
  BY QuietStepKeepsCurrent
<1>2. \A d \in Clusters : QueueOf(d)' = QueueOf(d)
  BY <1>1, QueueInTerms
<1> QED BY <1>2, QueuesStutter

-----------------------------------------------------------------------------
(***************************************************************************)
(* The driver.                                                             *)
(***************************************************************************)
\* A driver step concerns the queue of its own cluster alone.
LEMMA DriverKeepsOthers ==
  ASSUME TypeOK, EmrInv, NEW t \in Tasks, DriverStep(t)
  PROVE  OthersKeepQueue(task[t].cluster)
<1> DEFINE c == task[t].cluster
<1>0. RunnerHoldsLock /\ c \in Clusters
  BY DriverAlone DEF EmrInv
<1> SUFFICES ASSUME NEW d \in Clusters \ {c}
             PROVE  QueueOf(d)' = QueueOf(d)
  BY DEF OthersKeepQueue
<1>1. repo'[d] = repo[d] /\ \A u \in Tasks \ {t} : task'[u] = task[u]
  BY <1>0, DriverAlone
<1>2. task'[t].pc \in Phase => task'[t].cluster = c
  BY <1>0, DriverAlone, MovesOfTask DEF Running
<1>3. StepsAtWork(task', d) = StepsAtWork(task, d)
  BY <1>1, <1>2 DEF StepsAtWork
<1>4. CurrentIn(task', d) = CurrentIn(task, d)
  BY <1>3 DEF CurrentIn
<1> QED BY <1>1, <1>4, QueueInTerms

\* What is current in the cluster of a driver task, before and after its step.
LEMMA DriverCurrent ==
  ASSUME TypeOK, EmrInv, StepsBounded, NEW t \in Tasks, DriverStep(t)
  PROVE  LET c == task[t].cluster IN
         /\ ~Running(t) \/ task[t].op[1] = "bootstrap" => CurrentIn(task, c) = 0
         /\ StartedSteps(repo[c]) # {} => CurrentIn(task, c) # 0
         /\ Leave(t) => CurrentIn(task', c) = 0
         /\ \A n \in Nat : StartOperation(t, <<"bootstrap", n>>) => CurrentIn(task', c) = 0
         /\ \A i \in 1..StepBound : StartOperation(t, <<"step", i>>) => CurrentIn(task', c) = i
<1> DEFINE c == task[t].cluster
<1>0. /\ RunnerHoldsLock /\ StartedStepHasRunner /\ c \in Clusters
      /\ \A u \in Tasks \ {t} : task'[u] = task[u] /\ ~(task[u].pc \in Phase /\ task[u].cluster = c)
  BY DriverAlone DEF EmrInv, RunnerInv, Running
<1>1. ASSUME ~Running(t) \/ task[t].op[1] = "bootstrap"
      PROVE  CurrentIn(task, c) = 0
  <2>1. \A u \in Tasks : task[u].pc \in Phase /\ task[u].cluster = c => task[u].op[1] # "step"
    BY <1>0, <1>1 DEF Running
  <2> QED BY <2>1, CurrentOfNobody
<1>2. ASSUME StartedSteps(repo[c]) # {}
      PROVE  CurrentIn(task, c) # 0
  <2>1. PICK i \in StartedSteps(repo[c]) : TRUE
    BY <1>2
  <2>2. PICK u \in Tasks : Running(u) /\ task[u].cluster = c /\ task[u].op = <<"step", i>>
    BY <1>0, <2>1 DEF StartedStepHasRunner
  <2>3. i \in 1..StepBound
    BY <1>0 DEF StepsBounded, StartedSteps
  <2>4. i \in StepsAtWork(task, c)
    BY <2>2, <2>3 DEF StepsAtWork, Running
  <2>5. CurrentIn(task, c) \in 1..StepBound
    <3>1. StepsAtWork(task, c) \subseteq 1..StepBound
      BY DEF StepsAtWork
    <3> QED BY <2>4, <3>1 DEF CurrentIn
  <2> QED BY <2>5
<1>3. ASSUME Leave(t)
      PROVE  CurrentIn(task', c) = 0
  <2>1. task'[t].pc \notin Phase
    BY <1>0, <1>3, MovesOfTask DEF Running
  <2>2. \A u \in Tasks : task'[u].pc \in Phase /\ task'[u].cluster = c => task'[u].op[1] # "step"
    BY <1>0, <2>1
  <2> QED BY <2>2, CurrentOfNobody
<1>4. ASSUME NEW n \in Nat, StartOperation(t, <<"bootstrap", n>>)
      PROVE  CurrentIn(task', c) = 0
  <2>1. task'[t].op = <<"bootstrap", n>>
    BY <1>0, <1>4, MovesOfTask
  <2>2. \A u \in Tasks : task'[u].pc \in Phase /\ task'[u].cluster = c => task'[u].op[1] # "step"
    BY <1>0, <2>1
  <2> QED BY <2>2, CurrentOfNobody
<1>5. ASSUME NEW i \in 1..StepBound, StartOperation(t, <<"step", i>>)
      PROVE  CurrentIn(task', c) = i
  <2>1. task'[t].pc \in Phase /\ task'[t].cluster = c /\ task'[t].op = <<"step", i>>
    BY <1>0, <1>5, MovesOfTask DEF Running
  <2>2. \A u \in Tasks : task'[u].pc \in Phase /\ task'[u].cluster = c => u = t
    BY <1>0
  <2> QED BY <2>1, <2>2, CurrentOfRunner
<1> QED BY <1>1, <1>2, <1>3, <1>4, <1>5

\* A driver task that leaves its cluster has drained, ended or rested its queue.
LEMMA LeaveQueue ==
  ASSUME TypeOK, EmrInv, StepsBounded, NEW t \in Tasks, DriverStep(t), NEW c \in Clusters,
         c = task[t].cluster, NEW new \in Cluster, repo'[c] = new, LeftIdle(t, repo[c], new)
  PROVE  Abstract!Next \/ AbstractQueue' = AbstractQueue
<1> DEFINE old == repo[c]
           k   == CurrentIn(task, c)
<1>0. /\ c \in Clusters /\ old \in Cluster /\ OthersKeepQueue(c)
      /\ NothingPends
  BY DriverAlone, DriverKeepsOthers DEF EmrInv, RunnerInv
<1>1. /\ StepsFollow(old, new) /\ Leave(t)
      /\ new.state \notin {"STARTING", "BOOTSTRAPPING"}
      /\ new.state = old.state \/ old.state \in {"STARTING", "BOOTSTRAPPING"} \cup Serving
      /\ new.state \in {Absent, "TERMINATING"} => new.state = old.state
      /\ PendingSteps(new) # {} => new.state \in ClusterTerminal \cup {Absent, "TERMINATING"}
  BY DEF LeftIdle
<1>2. /\ StartedSteps(old) # {} => k # 0
      /\ CurrentIn(task', c) = 0
  BY <1>1, DriverCurrent
<1>3. QueueOf(c) = QueueIn(old, k) /\ QueueOf(c)' = QueueIn(new, 0)
  BY <1>0, <1>2, QueueInTerms
<1>4. old.state = Absent => k = 0
  BY <1>0, AbsentHasNoCurrent
<1> HIDE DEF k
<1>5. ASSUME QueueOf(c)' = QueueOf(c)
      PROVE  AbstractQueue' = AbstractQueue
  BY <1>0, <1>5, QueuesStutter DEF OthersKeepQueue
<1>6. DOMAIN new.steps = DOMAIN old.steps /\ PendingFollow(old, new)
  BY <1>1 DEF StepsFollow
<1>7. Len(new.steps) = Len(old.steps)
  BY <1>0, <1>6, SameLength
<1>8. CASE old.state = Absent
  <2>1. new.state = Absent
    BY <1>1, <1>8 DEF Absent, Serving
  <2>2. PendingSteps(old) = {}
    BY <1>0, <1>8 DEF NothingPends
  <2>3. PendingSteps(new) = PendingSteps(old)
    BY <1>6, <2>2 DEF PendingFollow
  <2>4. QueueIn(new, k) = QueueIn(old, k)
    BY <1>0, <1>6, <1>8, <2>1, <2>3, SameQueue
  <2> QED BY <1>3, <1>4, <1>5, <1>8, <2>4
<1>9. CASE old.state \in {"TERMINATING"} \cup ClusterTerminal
  <2>1. new.state = old.state
    BY <1>1, <1>9 DEF ClusterTerminal, Serving
  <2>2. QueueIn(old, k) = [phase |-> "ended", accepted |-> 0, waiting |-> {}, current |-> k]
    BY <1>9, OverQueue
  <2>3. QueueIn(new, 0) = [phase |-> "ended", accepted |-> 0, waiting |-> {}, current |-> 0]
    BY <1>9, <2>1, OverQueue
  <2>4. CASE k = 0
    BY <1>3, <1>5, <2>2, <2>3, <2>4
  <2>5. CASE k # 0
    <3>1. QueueOf(c).phase = "ended" /\ QueueOf(c).current # 0
      BY <1>3, <2>2, <2>5
    <3> QED BY <1>0, <1>3, <2>3, <3>1, DrainImplements
  <2> QED BY <2>4, <2>5
<1>10. CASE old.state \in {"STARTING", "BOOTSTRAPPING", "RUNNING", "WAITING"}
  <2>1. /\ QueueIn(old, k) = [phase |-> PhaseIn(old.state), accepted |-> Len(old.steps),
                              waiting |-> PendingSteps(old), current |-> k]
        /\ PhaseIn(old.state) \in {"booting", "open"}
    BY <1>10, AliveQueue
  <2>2. CASE new.state \in {"TERMINATING"} \cup ClusterTerminal
    <3>1. QueueIn(new, 0) = [phase |-> "ended", accepted |-> 0, waiting |-> {}, current |-> 0]
      BY <2>2, OverQueue
    <3>2. QueueOf(c).phase \in {"booting", "open"}
      BY <1>3, <2>1
    <3> QED BY <1>0, <1>3, <3>1, <3>2, EndImplements
  <2>3. CASE new.state \in {"RUNNING", "WAITING"}
    <3>1. PendingSteps(new) = {}
      BY <1>1, <2>3 DEF ClusterTerminal, Absent
    <3>2. PendingSteps(old) = {} \/ k # 0
      BY <1>2, <1>6, <3>1 DEF PendingFollow
    <3>3. PhaseIn(new.state) = "open"
      BY <2>3, AliveQueue
    <3>4. QueueIn(new, 0) = [phase |-> PhaseIn(new.state), accepted |-> Len(new.steps),
                             waiting |-> PendingSteps(new), current |-> 0]
      BY <2>3, AliveQueue
    <3>5. QueueIn(new, 0) = [phase |-> "open", accepted |-> Len(old.steps), waiting |-> {},
                             current |-> 0]
      BY <1>7, <3>1, <3>3, <3>4
    <3> QED BY <1>0, <1>3, <2>1, <3>2, <3>5, RestImplements
  <2>4. new.state # Absent
    BY <1>1, <1>10 DEF Absent
  <2> QED BY <1>1, <2>2, <2>3, <2>4, PhasesOfCluster
<1> QED BY <1>0, <1>8, <1>9, <1>10, PhasesOfCluster

\* A driver task that goes on with the set-up changes no queue.
LEMMA BootstrapQueue ==
  ASSUME TypeOK, EmrInv, StepsBounded, NEW t \in Tasks, DriverStep(t), NEW c \in Clusters,
         c = task[t].cluster, NEW new \in Cluster, repo'[c] = new, LeftBootstrapping(t, repo[c], new)
  PROVE  AbstractQueue' = AbstractQueue
<1> DEFINE old == repo[c]
<1>0. c \in Clusters /\ old \in Cluster /\ OthersKeepQueue(c)
  BY DriverAlone, DriverKeepsOthers DEF EmrInv
<1>1. CurrentIn(task, c) = 0 /\ CurrentIn(task', c) = 0
  BY DriverCurrent DEF LeftBootstrapping
<1>2. /\ new.steps = old.steps
      /\ new.state = old.state \/ (old.state = "STARTING" /\ new.state = "BOOTSTRAPPING")
  BY DEF LeftBootstrapping
<1>3. PhaseIn(new.state) = PhaseIn(old.state)
  BY <1>2 DEF PhaseIn, Absent
<1>4. PendingSteps(new) = PendingSteps(old)
  BY <1>2 DEF PendingSteps
<1>5. QueueIn(new, 0) = QueueIn(old, 0)
  BY <1>0, <1>2, <1>3, <1>4, SameQueue
<1>6. QueueOf(c)' = QueueOf(c)
  BY <1>0, <1>1, <1>5, QueueInTerms
<1> QED BY <1>0, <1>6, QueuesStutter DEF OthersKeepQueue

\* A driver task that starts a step has taken the first of those that wait.
LEMMA StartQueue ==
  ASSUME TypeOK, EmrInv, StepsBounded, NEW t \in Tasks, DriverStep(t), NEW c \in Clusters,
         c = task[t].cluster, NEW new \in Cluster, repo'[c] = new, LeftInStep(t, repo[c], new)
  PROVE  Abstract!Next
<1> DEFINE old == repo[c]
           k   == CurrentIn(task, c)
<1>0. c \in Clusters /\ old \in Cluster /\ OthersKeepQueue(c) /\ NothingPends
  BY DriverAlone, DriverKeepsOthers DEF EmrInv, RunnerInv
<1>1. /\ old.state \notin ClusterTerminal
      /\ new.state = "RUNNING" /\ DOMAIN new.steps = DOMAIN old.steps
  BY DEF LeftInStep
<1>2. PICK i \in PendingSteps(old) :
        /\ StartOperation(t, <<"step", i>>)
        /\ \E cl : /\ StepsFollow(old, cl) /\ StartedSteps(cl) = {}
                   /\ IsNextPending(cl, i)
                   /\ \A j \in DOMAIN cl.steps :
                        new.steps[j].state = IF j = i THEN "RUNNING" ELSE cl.steps[j].state
  BY DEF LeftInStep
<1>3. PICK cl : /\ StepsFollow(old, cl) /\ IsNextPending(cl, i)
                /\ \A j \in DOMAIN cl.steps :
                     new.steps[j].state = IF j = i THEN "RUNNING" ELSE cl.steps[j].state
  BY <1>2
<1>4. DOMAIN cl.steps = DOMAIN old.steps /\ PendingSteps(cl) = PendingSteps(old)
  BY <1>3 DEF StepsFollow, PendingFollow, IsNextPending
<1>5. PendingSteps(new) = PendingSteps(old) \ {i}
  BY <1>1, <1>3, <1>4 DEF PendingSteps
<1>6. \A j \in PendingSteps(old) : i <= j
  BY <1>3, <1>4 DEF IsNextPending
<1>7. PendingSteps(old) \subseteq 1..StepBound /\ PendingSteps(old) \in SUBSET Nat
  <2>1. DOMAIN old.steps \subseteq 1..StepBound
    BY <1>0 DEF StepsBounded
  <2> QED BY <2>1 DEF PendingSteps
<1>8. CurrentIn(task', c) = i
  BY <1>2, <1>7, DriverCurrent
<1>9. old.state \in {"STARTING", "BOOTSTRAPPING", "RUNNING", "WAITING"}
  <2>1. old.state \notin {Absent, "TERMINATING"}
    BY <1>0, <1>2 DEF NothingPends
  <2> QED BY <1>0, <1>1, <2>1, PhasesOfCluster
<1>10. QueueOf(c) = QueueIn(old, k) /\ QueueOf(c)' = QueueIn(new, i)
  BY <1>0, <1>8, QueueInTerms
<1> HIDE DEF k
<1>11. /\ QueueIn(old, k) = [phase |-> PhaseIn(old.state), accepted |-> Len(old.steps),
                             waiting |-> PendingSteps(old), current |-> k]
       /\ PhaseIn(old.state) \in {"booting", "open"}
  BY <1>9, AliveQueue
<1>12. QueueIn(new, i) = [phase |-> "open", accepted |-> Len(old.steps),
                          waiting |-> PendingSteps(old) \ {i}, current |-> i]
  <2>1. Len(new.steps) = Len(old.steps)
    BY <1>0, <1>1, SameLength
  <2>2. PhaseIn(new.state) = "open"
    BY <1>1, AliveQueue
  <2>3. QueueIn(new, i) = [phase |-> PhaseIn(new.state), accepted |-> Len(new.steps),
                           waiting |-> PendingSteps(new), current |-> i]
    BY <1>1, AliveQueue
  <2> QED BY <1>5, <2>1, <2>2, <2>3
<1> DEFINE w     == PendingSteps(old)
           phase == PhaseIn(old.state)
           m     == Len(old.steps)
<1>13. /\ w \in SUBSET Nat /\ i \in w /\ (\A j \in w : i <= j)
       /\ phase \in {"booting", "open"}
  BY <1>2, <1>6, <1>7, <1>11
<1>14. /\ QueueOf(c)  = [phase |-> phase, accepted |-> m, waiting |-> w, current |-> k]
       /\ QueueOf(c)' = [phase |-> "open", accepted |-> m, waiting |-> w \ {i}, current |-> i]
  BY <1>10, <1>11, <1>12
<1> HIDE DEF old, w, phase, m
<1> QED BY <1>0, <1>13, <1>14, TakeImplements

\* A step of the driver is a step of the queue of its cluster, or none.
LEMMA DriverQueue ==
  ASSUME TypeOK, EmrInv, StepsBounded, NEW t \in Tasks, DriverStep(t)
  PROVE  Abstract!Next \/ AbstractQueue' = AbstractQueue
<1>1. PICK c \in Clusters : c = task[t].cluster
  BY DriverAlone DEF EmrInv
<1>2. PICK new \in Cluster :
        /\ repo' = [repo EXCEPT ![c] = new]
        /\ \/ LeftIdle(t, repo[c], new)
           \/ LeftBootstrapping(t, repo[c], new)
           \/ LeftInStep(t, repo[c], new)
  BY <1>1, DriverOutcome DEF EmrInv, RunnerInv
<1>3. repo'[c] = new
  BY <1>1, <1>2 DEF TypeOK
<1> QED BY <1>1, <1>2, <1>3, LeaveQueue, BootstrapQueue, StartQueue

-----------------------------------------------------------------------------
(***************************************************************************)
(* The result.                                                             *)
(***************************************************************************)
\* What the mapping needs besides the invariant of the service.
QueueBounds == StepsBounded /\ RequestsNameClusters

\* Initially there are no clusters, so no queues.
LEMMA QueuesInitially == Init => QueueBounds /\ Abstract!Init
<1> SUFFICES ASSUME Init PROVE QueueBounds /\ Abstract!Init
  OBVIOUS
<1>1. /\ \A c \in Clusters : repo[c] = NoCluster
      /\ \A t \in Tasks : task[t].pc = "free"
      /\ \A r \in Requests : request[r] = IdleRequest
  BY DEF Init, FreeTask
<1>2. NoCluster.state = Absent /\ NoCluster.steps = <<>> /\ DOMAIN NoCluster.steps = {}
  BY DEF NoCluster
<1>3. IdleRequest.todo = {} /\ IdleRequest.copy = NoCluster
  BY DEF IdleRequest
<1>4. QueueBounds
  BY <1>1, <1>2, <1>3 DEF QueueBounds, StepsBounded, RequestsNameClusters
<1>5. ASSUME NEW c \in Clusters
      PROVE  QueueOf(c) = Abstract!NoQueue
  <2>1. CurrentIn(task, c) = 0
    BY <1>1, CurrentOfNobody DEF Phase
  <2>2. PendingSteps(NoCluster) = {} /\ Len(NoCluster.steps) = 0
    BY <1>2 DEF PendingSteps
  <2>3. PhaseIn(Absent) = "absent"
    BY DEF PhaseIn, Absent
  <2>4. QueueIn(NoCluster, 0) = [phase |-> "absent", accepted |-> 0, waiting |-> {}, current |-> 0]
    BY <1>2, <2>2, <2>3 DEF QueueIn
  <2> QED BY <1>1, <2>1, <2>4, QueueInTerms DEF Abstract!NoQueue
<1>6. Abstract!Init
  BY <1>5 DEF Abstract!Init
<1> QED BY <1>4, <1>6

\* Every step is one of the abstract queue, or invisible to its client.
LEMMA StepIsQueueStep ==
  ASSUME TypeOK, EmrInv, QueueBounds, [Next]_vars
  PROVE  Abstract!Next \/ AbstractQueue' = AbstractQueue
<1> USE DEF QueueBounds
<1>1. CASE QuietStep
  BY <1>1, QuietSteps, CommandQueue, TerminateQueue, QuietQueue
<1>2. ASSUME NEW t \in Tasks, DriverStep(t)
      PROVE  Abstract!Next \/ AbstractQueue' = AbstractQueue
  BY <1>2, DriverQueue
<1> QED BY <1>1, <1>2, StepsOfNext DEF DriverStep

\* However tasks, requests and children interleave, the service is, step by step, the queue
\* its clients see: the accepted steps of a cluster run one at a time, each once, in order,
\* only between set-up and end, and a queue that has ended never reopens.
THEOREM QueueIsImplementedStepByStep == Spec => Abstract!Init /\ [][Abstract!Next]_AbstractQueue
<1>1. Init => QueueBounds /\ Abstract!Init
  BY QueuesInitially
<1>2. TypeOK /\ TypeOK' /\ EmrInv /\ QueueBounds /\ [Next]_vars => QueueBounds'
  BY StepsBoundedInductive, RequestsNameInductive DEF QueueBounds
<1>3. TypeOK /\ EmrInv /\ QueueBounds /\ [Next]_vars => [Abstract!Next]_AbstractQueue
  BY StepIsQueueStep
<1> QED BY <1>1, <1>2, <1>3, EmrInvariant, PTL DEF Spec
=============================================================================
