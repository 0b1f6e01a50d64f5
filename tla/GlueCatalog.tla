----------------------------- MODULE GlueCatalog -----------------------------
(***************************************************************************)
(* Requests that change the Glue Data Catalog, and the write transactions  *)
(* they run in.                                                            *)
(*                                                                         *)
(* The service is one event loop.  A read opens a connection, queries and  *)
(* closes it without a suspension, so it is atomic and sees the committed  *)
(* store.  A write transaction takes the lock of the database with BEGIN   *)
(* IMMEDIATE and runs the whole command on its own connection, again       *)
(* without a suspension: that is one step.  The commit then runs on a task *)
(* of its own, shielded from a cancellation of the request, and other      *)
(* requests run before it; one that finds the lock taken sleeps and tries  *)
(* again, a bounded number of times.                                       *)
(***************************************************************************)
EXTENDS GlueCatalogStore

CONSTANTS
  Clients, NoWriter,
  CatalogSessions,    \* by name, what may happen in a behaviour: store, requests, listings, bounds
  RetryLimit          \* glue.sqlite.retry_limit

Committed(s) == [s EXCEPT !.revision = @ + 1]

\* The catalog after each of a sequence of commands; a behaviour starts from what they made of the
\* empty one.
StoresAfter(ops) ==
  LET after[i \in 0 .. Len(ops)] == IF i = 0 THEN Empty ELSE Committed(Effect(after[i - 1], ops[i]))
  IN after

ASSUME CatalogAssumption ==
  /\ NoWriter \notin Clients
  /\ \A name \in DOMAIN CatalogSessions :
       LET session == CatalogSessions[name]
       IN /\ Len(session.setup) \in Nat
          /\ \A i \in 1 .. Len(session.setup) :
               /\ IsCommand(session.setup[i])
               /\ Refusal(StoresAfter(session.setup)[i - 1], session.setup[i]) = "ok"
          /\ \A request \in session.requests : request.kind \in {"single", "batch"} =>
               /\ Len(request.ops) \in Nat \ {0}
               /\ \A i \in 1 .. Len(request.ops) : IsCommand(request.ops[i])

VARIABLES
  catalogSession,
  store,         \* the committed database
  draft,         \* what the open write transaction would make of it
  writer,        \* the client whose transaction holds the lock
  work,          \* what each client's request is doing
  budget         \* bound: requests still to come

catalogVars == <<catalogSession, store, draft, writer, work, budget>>

Scenario == CatalogSessions[catalogSession]

DomainErrors == {"AlreadyExists", "EntityNotFound", "InvalidInput", "VersionMismatch"}
Outcomes == DomainErrors \cup {"none", "ok", "busy", "failed", "cancelled"}

Idle == [pc |-> "idle", kind |-> "none", ops |-> << >>, index |-> 1, failures |-> {},
         attempts |-> 0, cancelled |-> FALSE, outcome |-> "none"]

At(c, pc) == work[c].pc = pc
Op(c) == work[c].ops[work[c].index]
Ended(w, outcome) == [w EXCEPT !.pc = "ended", !.outcome = outcome]
Waiting(w) == [w EXCEPT !.pc = "begin", !.attempts = 0, !.cancelled = FALSE, !.outcome = "none"]
-----------------------------------------------------------------------------
(* _SqliteCatalogRepository.transaction *)

\* BEGIN IMMEDIATE with the command; a refusal rolls back at once.
Begin(c) ==
  LET op == Op(c)
      refusal == Refusal(store, op)
  IN /\ At(c, "begin") /\ writer = NoWriter
     /\ IF refusal = "ok"
          THEN /\ writer' = c /\ draft' = Effect(store, op)
               /\ work' = [work EXCEPT ![c].pc = "commit"]
          ELSE /\ work' = [work EXCEPT ![c] = Ended(@, refusal)]
               /\ UNCHANGED <<writer, draft>>
     /\ UNCHANGED <<catalogSession, store, budget>>

\* the lock is taken: retry_limit sleeps, then CatalogStorageBusyError
Busy(c) ==
  /\ At(c, "begin") /\ writer # NoWriter
  /\ LET w == work[c]
     IN work' = [work EXCEPT ![c] =
          IF w.attempts < RetryLimit THEN [w EXCEPT !.attempts = w.attempts + 1] ELSE Ended(w, "busy")]
  /\ UNCHANGED <<catalogSession, store, draft, writer, budget>>

Commit(c) ==
  /\ writer = c
  /\ store' = Committed(draft) /\ writer' = NoWriter /\ draft' = Empty
  /\ work' = [work EXCEPT ![c] = Ended(@, IF @.cancelled THEN "cancelled" ELSE "ok")]
  /\ UNCHANGED <<catalogSession, budget>>

Mut_FailsAfterCommit(c) ==
  /\ writer = c /\ "commitFails" \in Scenario.faults
  /\ store' = Committed(draft) /\ writer' = NoWriter /\ draft' = Empty
  /\ work' = [work EXCEPT ![c] = Ended(@, "failed")]
  /\ UNCHANGED <<catalogSession, budget>>

\* the hook or the commit itself fails: rolled back, and the failure is what the caller gets,
\* a cancelled one too
CommitFails(c) ==
  /\ writer = c /\ "commitFails" \in Scenario.faults
  /\ writer' = NoWriter /\ draft' = Empty
  /\ work' = [work EXCEPT ![c] = Ended(@, "failed")]
  /\ UNCHANGED <<catalogSession, store, budget>>

\* A request that sleeps before another attempt ends without an effect.  One that waits for its
\* commit goes on to wait; only a second cancellation reaches the commit task and rolls it back.
CancelRequest(c) ==
  /\ "cancel" \in Scenario.faults
  /\ \/ /\ At(c, "begin") /\ work[c].attempts > 0
        /\ work' = [work EXCEPT ![c] = Ended(@, "cancelled")]
        /\ UNCHANGED <<writer, draft>>
     \/ /\ writer = c /\ ~work[c].cancelled
        /\ work' = [work EXCEPT ![c].cancelled = TRUE]
        /\ UNCHANGED <<writer, draft>>
     \/ /\ writer = c /\ work[c].cancelled
        /\ work' = [work EXCEPT ![c] = Ended(@, "cancelled")]
        /\ writer' = NoWriter /\ draft' = Empty
  /\ UNCHANGED <<catalogSession, store, budget>>
-----------------------------------------------------------------------------
(* Requests: one command, or a batch of them *)

Accepts(c) == At(c, "idle") /\ budget > 0

\* A batch looks for its table before the first item, outside any transaction.
Submit(c, request) ==
  /\ Accepts(c) /\ request.kind \in {"single", "batch"}
  /\ budget' = budget - 1
  /\ request.kind = "batch" => FindTable(store, request.ops[1].database, request.ops[1].table) # {}
  /\ work' = [work EXCEPT ![c] = Waiting([Idle EXCEPT !.kind = request.kind, !.ops = request.ops])]
  /\ UNCHANGED <<catalogSession, store, draft, writer>>

\* PartitionBatchHandler: an item the domain refuses is collected, any other error ends the batch.
ItemEnds(c) ==
  /\ At(c, "ended") /\ work[c].kind \in {"single", "batch"}
  /\ LET w == work[c]
         collected == w.kind = "batch" /\ w.outcome \in DomainErrors
     IN work' = [work EXCEPT ![c] =
          IF w.index < Len(w.ops) /\ (collected \/ w.outcome = "ok")
          THEN Waiting([w EXCEPT !.index = w.index + 1,
                                 !.failures = w.failures \cup IF collected THEN {w.index} ELSE {}])
          ELSE Idle]
  /\ UNCHANGED <<catalogSession, store, draft, writer, budget>>

\* The optimizer service starts and ends runs of a table in transactions of its own (GlueOptimizer).
OptimizerRuns ==
  /\ writer = NoWriter /\ budget > 0
  /\ \E t \in Scenario.optimized \cap DOMAIN store.tables :
       /\ budget' = budget - 1
       /\ store' = [store EXCEPT !.running =
            IF t \in DOMAIN @ THEN Without(@, {t})
            ELSE With(@, t, <<store.databases[store.tables[t].database], store.tables[t].name>>)]
  /\ UNCHANGED <<catalogSession, draft, writer, work>>

CatalogInit ==
  /\ catalogSession \in DOMAIN CatalogSessions
  /\ store = StoresAfter(Scenario.setup)[Len(Scenario.setup)] /\ budget = Scenario.maxRequests
  /\ draft = Empty /\ writer = NoWriter /\ work = [c \in Clients |-> Idle]
-----------------------------------------------------------------------------
StoreIsTyped ==
  /\ DOMAIN store.facts = DOMAIN store.partitions
  /\ DOMAIN store.health = DOMAIN store.tables
  /\ \A c \in Clients : work[c].outcome \in Outcomes
  /\ writer # NoWriter => At(writer, "commit")
  /\ \A c \in Clients : At(c, "commit") => writer = c

\* no two rows of one parent share a name, and no row outlives its parent
RowsHaveParents ==
  /\ \A d, e \in DOMAIN store.databases : store.databases[d] = store.databases[e] => d = e
  /\ \A t \in DOMAIN store.tables :
       /\ store.tables[t].database \in DOMAIN store.databases
       /\ \A u \in DOMAIN store.tables \ {t} :
            <<store.tables[t].database, store.tables[t].name>> # <<store.tables[u].database, store.tables[u].name>>
  /\ \A p \in DOMAIN store.partitions :
       /\ store.partitions[p].table \in DOMAIN store.tables
       /\ \A q \in DOMAIN store.partitions \ {p} : store.partitions[p] # store.partitions[q]

\* The facts and the health a listing reads are those of the values and keys of now.
FactsAreFresh ==
  /\ \A p \in DOMAIN store.partitions :
       LET row == store.partitions[p]
       IN store.facts[p] = QueryFacts(store.tables[row.table].keys, row.values)
  /\ \A t \in DOMAIN store.tables : store.health[t] = HealthOf(store, t)

VersionsGrow ==
  \A t \in DOMAIN store.tables :
    LET table == store.tables[t]
    IN \A i \in DOMAIN table.archive :
         /\ table.archive[i].version < table.version
         /\ \A j \in 1 .. i - 1 : table.archive[j].version < table.archive[i].version

\* An active optimizer run works on its table by the names the table has now.
RunsKnowTheirTable ==
  \A t \in DOMAIN store.running :
    /\ t \in DOMAIN store.tables
    /\ store.running[t] = <<store.databases[store.tables[t].database], store.tables[t].name>>

\* After any sequence of commands of several clients, in whatever order their transactions commit
\* or roll back, the committed catalog is one whole: every row has its parent and its own name,
\* the query facts and the health that GetPartitions trusts are those of the current values and
\* partition keys, archived versions are older ones, and an active optimizer run has not lost
\* its table to a rename (repository.py, table.py, database.py, partition.py, batch.py).
CatalogIsConsistent ==
  StoreIsTyped /\ RowsHaveParents /\ FactsAreFresh /\ VersionsGrow /\ RunsKnowTheirTable
=============================================================================
