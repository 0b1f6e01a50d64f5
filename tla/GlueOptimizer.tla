---------------------------- MODULE GlueOptimizer ----------------------------
(***************************************************************************)
(* The Glue table optimizer: the optimizer use cases and the table use     *)
(* cases that touch optimizers, the scheduler loop with its workers, the   *)
(* Spark processes, shutdown, crash and recovery.                          *)
(*                                                                         *)
(* Every change of the catalog is one SQLite write transaction.  Its body  *)
(* does not suspend, so a transaction takes effect at its commit, in one   *)
(* step; it may instead be refused because the storage is busy (the begin  *)
(* is retried a configured number of times and then raises).  Between two  *)
(* transactions a worker or the scheduler suspends, and anything else may  *)
(* happen.                                                                 *)
(*                                                                         *)
(* A table has one optimizer here; the code keeps up to three, one of each *)
(* type, and treats them alike and independently.                          *)
(***************************************************************************)
EXTENDS GlueOptimizerModel, FiniteSets

CONSTANTS
  Names,          \* table names, in the order in which due work is listed
  Types,          \* the optimizer types clients create
  MaxConcurrent,  \* max_concurrent_runs
  TableBound,     \* bound: tables that exist at a time
  RevisionBound,  \* bound: UpdateTableOptimizer calls on one optimizer
  TableFormats,   \* what UpdateTable makes of a table: "iceberg", or "other" as well
  BusyStorage     \* whether a write transaction can be refused

ASSUME ConstantsAssumption ==
  /\ Names \subseteq Nat
  /\ Types \subseteq OptimizerType
  /\ MaxConcurrent \in Nat \ {0}
  /\ TableBound \in Nat
  /\ RevisionBound \in Nat
  /\ TableFormats \subseteq {"iceberg", "other"}
  /\ BusyStorage \in BOOLEAN

VARIABLES
  table,      \* catalog_tables: whether a name has a table, and whether it is eligible
  optimizer,  \* catalog_table_optimizers: the optimizer of a table
  scheduler,  \* the scheduler task, and with it the life of the service
  worker,     \* TableOptimizerRuntime._workers and what their tasks left behind
  process     \* the Spark process of a run; it may outlive the service

vars == <<table, optimizer, scheduler, worker, process>>

-----------------------------------------------------------------------------
TableState == {"absent", "iceberg", "other"}

\* Where _execute is.  A claimed run has no task yet; "gone" was claimed in an earlier life.
WorkerPc ==
  {"none", "claimed", "created", "marking", "spawning", "waiting", "timedOut", "stopping",
   "completing", "failing", "interrupted", "left", "gone"}

Worker ==
  [pc        : WorkerPc,
   name      : Names \cup {0},   \* TableOptimizerWork.key
   revision  : Nat,              \* TableOptimizerWork.configuration_revision
   owned     : BOOLEAN,          \* an entry of _workers
   stopper   : BOOLEAN,          \* a _stop_process that will kill the process is under way
   recording : BOOLEAN,          \* the shielded fail transaction of an interrupted worker
   lost      : BOOLEAN]          \* the transaction that had to record its failure was refused

NoWorker == [pc |-> "none", name |-> 0, revision |-> 0, owned |-> FALSE,
             stopper |-> FALSE, recording |-> FALSE, lost |-> FALSE]

Open == scheduler \in {"reap", "claim", "dispatch"}

Init ==
  /\ table = [n \in Names |-> "absent"]
  /\ optimizer = [n \in Names |-> NoOptimizer]
  /\ scheduler = "reap"
  /\ worker = [r \in RunIds |-> NoWorker]
  /\ process = [r \in RunIds |-> "none"]

-----------------------------------------------------------------------------
(***************************************************************************)
(* The use cases clients call.                                             *)
(***************************************************************************)
HasOptimizer(n) == optimizer[n].type # "none"

CreateTable(n) ==
  /\ table[n] = "absent"
  /\ Cardinality({m \in Names : table[m] # "absent"}) < TableBound
  /\ \E format \in TableFormats : table' = [table EXCEPT ![n] = format]
  /\ UNCHANGED optimizer

\* What a rename does to an optimizer that moves with its table.
Moved(o) == CancelActiveRun(o)

\* A new definition, and with it possibly a new format or a new, unused name m.
UpdateTable(n) ==
  /\ table[n] # "absent"
  /\ \E format \in TableFormats :
       \/ /\ table' = [table EXCEPT ![n] = format]
          /\ UNCHANGED optimizer
       \/ \E m \in Names :
            /\ table[m] = "absent"
            /\ table' = [table EXCEPT ![n] = "absent", ![m] = format]
            /\ optimizer' = [optimizer EXCEPT ![n] = NoOptimizer, ![m] = Moved(optimizer[n])]

DeleteTable(n) ==
  /\ table[n] # "absent"
  /\ table' = [table EXCEPT ![n] = "absent"]
  /\ optimizer' = [optimizer EXCEPT ![n] = NoOptimizer]

\* The statements of the catalog transaction: the row of a table's optimizer and its runs.  A
\* replacement looks for the revision it has read, in the same transaction.
InsertOptimizer(n, o) == ~HasOptimizer(n) /\ optimizer' = [optimizer EXCEPT ![n] = o]
ReplaceOptimizer(n, o) == HasOptimizer(n) /\ optimizer' = [optimizer EXCEPT ![n] = o]
RemoveOptimizer(n) == HasOptimizer(n) /\ optimizer' = [optimizer EXCEPT ![n] = NoOptimizer]

CreateTableOptimizer(n) ==
  /\ table[n] = "iceberg"
  /\ \E type \in Types, enabled \in BOOLEAN : InsertOptimizer(n, NewOptimizer(type, enabled))
  /\ UNCHANGED table

UpdateTableOptimizer(n) ==
  /\ table[n] = "iceberg"
  /\ optimizer[n].revision < RevisionBound
  /\ \E enabled \in BOOLEAN : ReplaceOptimizer(n, Revise(CancelActiveRun(optimizer[n]), enabled))
  /\ UNCHANGED table

DeleteTableOptimizer(n) ==
  /\ RemoveOptimizer(n)
  /\ UNCHANGED table

Command(n) ==
  /\ Open
  /\ \/ CreateTable(n) \/ UpdateTable(n) \/ DeleteTable(n)
     \/ CreateTableOptimizer(n) \/ UpdateTableOptimizer(n) \/ DeleteTableOptimizer(n)
  /\ UNCHANGED <<scheduler, worker, process>>

\* The clock reaches next_run_time.
BecomesDue(n) ==
  /\ optimizer[n].next = "later"
  /\ optimizer' = [optimizer EXCEPT ![n].next = "due"]
  /\ UNCHANGED <<table, scheduler, worker, process>>

-----------------------------------------------------------------------------
(***************************************************************************)
(* The worker of run r: _execute, and the executor's execute inside it.    *)
(***************************************************************************)
Mut_CurrentWhenEnded(r) ==
  LET w == worker[r] IN
  /\ w.name \in Names
  /\ optimizer[w.name].revision = w.revision
  /\ optimizer[w.name].runs # <<>>
  /\ optimizer[w.name].runs[Len(optimizer[w.name].runs)].id = r

\* The catalog still has the run active under the claimed name and configuration.
Current(r) ==
  LET w == worker[r] IN
  /\ w.name \in Names
  /\ optimizer[w.name].revision = w.revision
  /\ IsActiveRun(optimizer[w.name], r)

Goto(r, pc) == worker' = [worker EXCEPT ![r].pc = pc]

\* The optimizer a worker has claimed work of.
Claimed(r) == optimizer[worker[r].name]

\* A transition of the run that makes the claimed optimizer o, unless the claim is stale.
Transition(r, o) ==
  optimizer' = IF Current(r) THEN [optimizer EXCEPT ![worker[r].name] = o] ELSE optimizer

\* The task enters the handler for cancellation; the fail transaction is a task of its own.
Interrupted(w) == [w EXCEPT !.pc = "interrupted", !.recording = TRUE]

\* task.cancel() delivered where the task is suspended.
Mut_UnshieldedStop(w) ==
  CASE w.pc = "created"                              -> [w EXCEPT !.pc = "left"]
    [] w.pc \in {"marking", "spawning", "completing"} -> Interrupted(w)
    [] w.pc = "waiting"                              -> [w EXCEPT !.pc = "stopping", !.stopper = TRUE]
    [] w.pc \in {"timedOut", "stopping"}             -> [Interrupted(w) EXCEPT !.stopper = FALSE]
    [] w.pc \in {"failing", "interrupted"}           -> [w EXCEPT !.pc = "left"]
    [] OTHER                                         -> w

CancelWorker(w) ==
  CASE w.pc = "created"                                          -> [w EXCEPT !.pc = "left"]
    [] w.pc \in {"marking", "spawning", "completing", "stopping"} -> Interrupted(w)
    [] w.pc = "waiting"               -> [w EXCEPT !.pc = "stopping", !.stopper = TRUE]
    [] w.pc = "timedOut"              -> [Interrupted(w) EXCEPT !.stopper = FALSE]
    [] w.pc \in {"failing", "interrupted"}                       -> [w EXCEPT !.pc = "left"]
    [] OTHER                                                     -> w

\* Cancel the workers of the runs rs; a process being waited for gets SIGTERM.
CancelWorkers(rs) ==
  /\ worker' = [r \in RunIds |-> IF r \in rs THEN CancelWorker(worker[r]) ELSE worker[r]]
  /\ process' = [r \in RunIds |-> IF r \in rs /\ worker[r].pc = "waiting"
                                  THEN "signalled" ELSE process[r]]

Start(r) ==
  /\ worker[r].pc = "created"
  /\ Goto(r, "marking")
  /\ UNCHANGED <<optimizer, process>>

Mut_SpawnUnmarked(r) ==
  /\ worker[r].pc = "marking"
  /\ Goto(r, IF Current(r) THEN "spawning" ELSE "left")
  /\ UNCHANGED <<optimizer, process>>

Mark(r) ==
  /\ worker[r].pc = "marking"
  /\ Transition(r, MarkInProgress(Claimed(r)))
  /\ Goto(r, IF Current(r) THEN "spawning" ELSE "left")
  /\ UNCHANGED process

Spawn(r) ==
  /\ worker[r].pc = "spawning"
  /\ \/ /\ process' = [process EXCEPT ![r] = "running"]
        /\ Goto(r, "waiting")
     \/ /\ Goto(r, "failing")
        /\ UNCHANGED process
  /\ UNCHANGED optimizer

\* The process exits by itself, with a readable result or not.
Exit(r) ==
  /\ worker[r].pc = "waiting"
  /\ process' = [process EXCEPT ![r] = "none"]
  /\ \E ok \in BOOLEAN : Goto(r, IF ok THEN "completing" ELSE "failing")
  /\ UNCHANGED optimizer

Timeout(r) ==
  /\ worker[r].pc = "waiting"
  /\ process' = [process EXCEPT ![r] = "signalled"]
  /\ worker' = [worker EXCEPT ![r] = [@ EXCEPT !.pc = "timedOut", !.stopper = TRUE]]
  /\ UNCHANGED optimizer

AfterStop(w) ==
  CASE w.pc = "timedOut" -> [w EXCEPT !.stopper = FALSE, !.pc = "failing"]
    [] w.pc = "stopping" -> [Interrupted(w) EXCEPT !.stopper = FALSE]
    [] OTHER             -> [w EXCEPT !.stopper = FALSE]

\* _stop_process: the process obeys SIGTERM, or it is killed after the grace period.
Stopped(r) ==
  /\ worker[r].stopper
  /\ process' = [process EXCEPT ![r] = "none"]
  /\ worker' = [worker EXCEPT ![r] = AfterStop(@)]
  /\ UNCHANGED optimizer

Complete(r) ==
  /\ worker[r].pc = "completing"
  /\ Transition(r, CompleteRun(Claimed(r)))
  /\ Goto(r, "left")
  /\ UNCHANGED process

RecordFailure(r) ==
  /\ worker[r].pc = "failing"
  /\ Transition(r, FailRun(Claimed(r)))
  /\ Goto(r, "left")
  /\ UNCHANGED process

\* The fail transaction of an interrupted worker, which may have left already.
RecordInterruption(r) ==
  /\ worker[r].recording
  /\ Transition(r, FailRun(Claimed(r)))
  /\ worker' = [worker EXCEPT ![r] = [@ EXCEPT !.recording = FALSE, !.pc = "left"]]
  /\ UNCHANGED process

\* A transaction of the worker is refused.
Refused(r) ==
  LET w == worker[r] IN
  /\ BusyStorage
  /\ \/ w.pc \in {"marking", "completing"} /\ Goto(r, "failing")
     \/ /\ w.pc = "failing"
        /\ worker' = [worker EXCEPT ![r] = [@ EXCEPT !.pc = "left", !.lost = TRUE]]
     \/ /\ w.recording
        /\ worker' = [worker EXCEPT ![r] = [@ EXCEPT !.recording = FALSE, !.pc = "left", !.lost = TRUE]]
  /\ UNCHANGED <<optimizer, process>>

\* The wait for a running process is over.
Finish(r) ==
  /\ Exit(r) \/ Timeout(r)
  /\ UNCHANGED <<table, scheduler>>

Work(r) ==
  /\ \/ Start(r) \/ Mark(r) \/ Spawn(r) \/ Stopped(r)
     \/ Complete(r) \/ RecordFailure(r) \/ RecordInterruption(r) \/ Refused(r)
  /\ UNCHANGED <<table, scheduler>>

\* A process nobody supervises any more ends when it likes.
StrayEnds(r) ==
  /\ process[r] \in {"running", "signalled"}
  /\ worker[r].pc # "waiting" /\ ~worker[r].stopper
  /\ process' = [process EXCEPT ![r] = "none"]
  /\ UNCHANGED <<table, optimizer, scheduler, worker>>

-----------------------------------------------------------------------------
(***************************************************************************)
(* The scheduler: _run repeats tick, which reaps, claims and dispatches.   *)
(***************************************************************************)
Owned == {r \in RunIds : worker[r].owned}

Mut_ReapEndedOnly ==
  /\ scheduler = "reap"
  /\ worker' = [r \in RunIds |-> IF r \in Owned /\ worker[r].pc = "left"
                                 THEN [worker[r] EXCEPT !.owned = FALSE] ELSE worker[r]]
  /\ scheduler' = "claim"
  /\ UNCHANGED <<table, optimizer, process>>

Mut_ReapStaleOnly ==
  /\ scheduler = "reap"
  /\ CancelWorkers({r \in Owned : worker[r].pc # "left" /\ ~Current(r)})
  /\ scheduler' = "claim"
  /\ UNCHANGED <<table, optimizer>>

\* Pop the workers whose task is done, cancel those whose claim is stale.
Reap ==
  LET done  == {r \in Owned : worker[r].pc = "left"}
      stale == {r \in Owned \ done : ~Current(r)}
  IN
  /\ scheduler = "reap"
  /\ worker' = [r \in RunIds |->
                  CASE r \in done  -> [worker[r] EXCEPT !.owned = FALSE]
                    [] r \in stale -> CancelWorker(worker[r])
                    [] OTHER       -> worker[r]]
  /\ process' = [r \in RunIds |-> IF r \in stale /\ worker[r].pc = "waiting"
                                  THEN "signalled" ELSE process[r]]
  /\ scheduler' = "claim"
  /\ UNCHANGED <<table, optimizer>>

Due == {n \in Names : optimizer[n].enabled /\ optimizer[n].next = "due"}

\* list_due_optimizers: the first so many by name.
Listed == {n \in Due : Cardinality({m \in Due : m <= n}) + Cardinality(Owned) <= MaxConcurrent}

FreshIds == {r \in RunIds : worker[r].pc = "none"}

Assignments == {id \in [Listed -> FreshIds] : \A m, n \in Listed : id[m] = id[n] => m = n}

ClaimedWork(n) == [NoWorker EXCEPT !.pc = "claimed", !.name = n, !.revision = optimizer[n].revision]

\* The claim commits.
Claim ==
  /\ scheduler = "claim"
  /\ Listed # {}
  /\ \A n \in Listed : table[n] = "iceberg"
  /\ \E id \in Assignments :
       /\ optimizer' = [n \in Names |-> IF n \in Listed THEN ClaimRun(optimizer[n], id[n])
                                        ELSE optimizer[n]]
       /\ worker' = [r \in RunIds |->
                       IF \E n \in Listed : id[n] = r
                       THEN ClaimedWork(CHOOSE n \in Listed : id[n] = r)
                       ELSE worker[r]]
  /\ scheduler' = "dispatch"
  /\ UNCHANGED <<table, process>>

\* There is no capacity or nothing due; or a listed table is not eligible any more and the
\* claim is rolled back; or the storage is busy.  Bound: or no identifiers are left.
ClaimNothing ==
  /\ scheduler = "claim"
  /\ \/ Listed = {}
     \/ \E n \in Listed : table[n] # "iceberg"
     \/ BusyStorage
     \/ Assignments = {}
  /\ scheduler' = "reap"
  /\ UNCHANGED <<table, optimizer, worker, process>>

\* The scheduler is resumed after the commit and creates the worker tasks.
Dispatch ==
  /\ scheduler = "dispatch"
  /\ worker' = [r \in RunIds |->
                  IF worker[r].pc = "claimed"
                  THEN [worker[r] EXCEPT !.pc = "created", !.owned = TRUE]
                  ELSE worker[r]]
  /\ scheduler' = "reap"
  /\ UNCHANGED <<table, optimizer, process>>

-----------------------------------------------------------------------------
(***************************************************************************)
(* The life of the service.                                                *)
(***************************************************************************)
\* close: the scheduler is cancelled, and what it had claimed but not dispatched is dropped;
\* then every worker is cancelled.
Close ==
  /\ Open
  /\ scheduler' = "closing"
  /\ CancelWorkers(Owned)
  /\ UNCHANGED <<table, optimizer>>

\* The memory of the service is lost; its identifiers are not used again.
GoDown ==
  /\ scheduler' = "down"
  /\ worker' = [r \in RunIds |-> IF worker[r].pc = "none" THEN NoWorker
                                 ELSE [NoWorker EXCEPT !.pc = "gone"]]
  /\ UNCHANGED <<table, optimizer, process>>

\* close has gathered the workers.
Closed ==
  /\ scheduler = "closing"
  /\ \A r \in Owned : worker[r].pc = "left"
  /\ GoDown

Crash == scheduler # "down" /\ GoDown

Mut_RecoverNothing(o) == o

\* recover_interrupted: an active run is abandoned by whoever had claimed it.
Recovered(o) == IF HasActiveRun(o) THEN FailRun(o) ELSE o

Restart ==
  /\ scheduler = "down"
  /\ optimizer' = [n \in Names |-> Recovered(optimizer[n])]
  /\ scheduler' = "reap"
  /\ UNCHANGED <<table, worker, process>>

Tick == Reap \/ Claim \/ ClaimNothing \/ Dispatch

Next ==
  \/ \E n \in Names : Command(n) \/ BecomesDue(n)
  \/ \E r \in RunIds : Work(r) \/ Finish(r) \/ StrayEnds(r)
  \/ Tick
  \/ Close \/ Closed \/ Crash \/ Restart

Spec == Init /\ [][Next]_vars

\* The loop runs every ready task, a stopped process obeys SIGTERM or SIGKILL, the clock
\* advances, and the storage is not busy each time the scheduler has something to claim.
\* Clients, operators and unsupervised processes promise nothing.
Fairness ==
  /\ \A r \in RunIds : WF_vars(Work(r))
  /\ \A n \in Names : WF_vars(BecomesDue(n))
  /\ WF_vars(Tick)
  /\ SF_vars(Claim)

FairSpec == Spec /\ Fairness

\* A process ends, or the configured timeout passes.  Compared with a tick of the scheduler
\* this is for ever, so only properties that need it assume it.
WaitsEnd == \A r \in RunIds : WF_vars(Finish(r))
-----------------------------------------------------------------------------
(***************************************************************************)
(* Properties.                                                             *)
(***************************************************************************)
\* Every variable stays in the shape the code gives it.
TypeOK ==
  /\ table \in [Names -> TableState]
  /\ optimizer \in [Names -> Optimizer]
  /\ scheduler \in {"reap", "claim", "dispatch", "closing", "down"}
  /\ worker \in [RunIds -> Worker]
  /\ process \in [RunIds -> {"none", "running", "signalled"}]

\* The schedule of an optimizer agrees with its history: while a run is active there is no
\* next run, an enabled optimizer that rests has one, a disabled one neither runs nor will.
\* Otherwise an optimizer would run twice at once, or silently never again.
SchedulingIsConsistent ==
  \A n \in Names :
    LET o == optimizer[n] IN
    /\ HasActiveRun(o) => o.enabled /\ o.next = "none"
    /\ o.enabled /\ ~HasActiveRun(o) => o.next # "none"
    /\ ~o.enabled => o.next = "none"

\* The history is bounded, and only its newest run can be active: no run is left behind
\* under a newer one, where nothing would ever end it.
HistoryIsSettled ==
  \A n \in Names :
    LET runs == optimizer[n].runs IN
    /\ Len(runs) <= HistoryLimit
    /\ \A i \in DOMAIN runs : i < Len(runs) => runs[i].state \in TerminalRunState

\* While the service is up, somebody is going to end every active run: the scheduler or a
\* worker has it in hand, unless recording its failure was itself refused.
ActiveRunHasWorker ==
  Open =>
    \A n \in Names, r \in RunIds :
      IsActiveRun(optimizer[n], r) =>
        /\ worker[r].name = n
        /\ worker[r].pc \notin {"none", "left", "gone"} \/ worker[r].recording \/ worker[r].lost

\* The history never hides a process: a process that still works for the current run of an
\* optimizer is reported as in_progress.
ProcessIsReported ==
  \A n \in Names, r \in RunIds :
    (Open /\ process[r] = "running" /\ worker[r].pc # "gone" /\ IsActiveRun(optimizer[n], r))
      => optimizer[n].runs[Len(optimizer[n].runs)].state = "in_progress"

\* A claim never exceeds the configured concurrency, whatever the workers it had counted
\* have done since.
WorkersAreLimited ==
  Cardinality(Owned \cup {r \in RunIds : worker[r].pc = "claimed"}) <= MaxConcurrent

\* The outcome of a run is recorded once: workers, stale claims, renames, updates and
\* recovery never replace it, wherever the table has moved.
RunEndIsFinal ==
  [][\A m, n \in Names :
       \A i \in DOMAIN optimizer[m].runs, j \in DOMAIN optimizer'[n].runs :
         (/\ optimizer[m].runs[i].id = optimizer'[n].runs[j].id
          /\ optimizer[m].runs[i].state \in TerminalRunState)
         => optimizer'[n].runs[j].state = optimizer[m].runs[i].state]_vars

\* A compaction that keeps failing is given up after the configured number of failures.
FailingCompactionIsGivenUp ==
  \A n \in Names :
    optimizer[n].type = "compaction" /\ optimizer[n].enabled => optimizer[n].failures < FailureLimit

\* Once SIGTERM has been sent somebody waits to send SIGKILL, as long as the service lives.
SignalledProcessIsKilled ==
  \A r \in RunIds : process[r] = "signalled" /\ worker[r].pc # "gone" => worker[r].stopper

\* The process of a claim that has become stale is terminated, however long it would have
\* run, unless the service that had started it crashed.
StaleProcessIsTerminated ==
  \A r \in RunIds :
    (Open /\ process[r] = "running" /\ worker[r].pc # "gone" /\ ~Current(r))
      ~> (process[r] # "running" \/ ~Open)

\* A process stopped because its worker was cancelled ends, however often it is cancelled.
CancelledProcessEnds ==
  \A r \in RunIds :
    (worker[r].pc = "stopping") ~> (process[r] = "none" \/ scheduler = "down")

\* A due optimizer of an eligible table does not stay due: it is claimed, or a client takes
\* it back, while the service is up and the identifiers of the model last.
DueOptimizerIsClaimed ==
  WaitsEnd =>
    \A n \in Names :
      (n \in Due) ~> (n \notin Due \/ ~Open \/ FreshIds = {} \/ table[n] # "iceberg")
=============================================================================
