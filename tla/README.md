# Verification of mystack in TLA+

mystack emulates two AWS services on one machine: **EMR** (clusters and steps
whose work is real local Spark or shell processes) and the **Glue Data Catalog**
(databases, tables, partitions and table optimizers in SQLite). A small
**proxy** in front routes requests to them. Each service is one Python process
with one asyncio event loop. A set of scripts and workflows turns a commit into
a **release**.

This directory holds TLA+ modules translated from `src/`, TLC configurations
that check them on small instances, and TLAPS proofs of the main theorems for
all values of the constants. `PROJECT.json` maps every definition to the source
lines it stands for and lists runs, mutants, findings, hazards and theorems.

Contents: [1 Inventory](#1-inventory) · [2 EMR](#2-the-emr-control-plane) ·
[3 Glue table optimizer](#3-the-glue-table-optimizer) ·
[4 EMR runtime](#4-the-emr-runtime-and-what-its-clients-see) ·
[5 Gateway](#5-the-proxy-and-the-aws-endpoints) ·
[6 Glue catalog](#6-the-glue-data-catalog) ·
[7 Release](#7-the-release-pipeline) · [8 Runs](#8-runs) · [9 Proofs](#9-proofs) ·
[10 Findings](#10-findings) · [11 Plan](#11-plan) · [12 Not modelled](#12-not-modelled)

## 1 Inventory

### EMR (`src/emr/src/mystack/emr`)

| part | state | operations | what makes it right | modules |
|---|---|---|---|---|
| domain model (`domain/model.py`) | cluster with steps, bootstrap actions, state, protection | legal transitions of cluster and step | only listed transitions happen; terminal is final | EmrModel |
| cluster commands (`application/cluster.py`) | none of their own; work on copies | RunJobFlow, TerminateJobFlows, SetTerminationProtection, SetVisibleToAllUsers, tags | an older copy never undoes newer changes; ended clusters have no child processes | EmrCluster |
| step commands (`application/step.py`) | as above | AddJobFlowSteps, CancelSteps | active-step limit; a cancellation reaches the child whenever it comes | EmrCluster |
| queue driver (`application/driver.py`, `application/failure.py`) | worker lock per cluster, one task per `schedule` | bootstrap, take next step, settle it, continue / wait / terminate | one operation at a time per cluster, in order; no lost wake-up; every transition it makes is legal in the state it reads back | EmrCluster |
| repository (`adapters/outbound/repository.py`) | clusters by id | add, get, save of isolated copies | `save` is last-writer-wins: safe only between suspension points | EmrCluster |
| task scheduler (`adapters/outbound/system.py`) | set of asyncio tasks | schedule, close with timeout | no task is lost; close ends them | EmrCluster, EmrExecution |
| process executor, runners (`adapters/outbound/runtime.py`) | children, deferred cancellations, port leases | execute, cancel, stop (SIGTERM, then SIGKILL), cleanup, close | no child outlives its cluster or the service unnoticed; leases are returned | EmrCluster, EmrExecution, EmrSubmit |
| execution journal (`adapters/outbound/journal.py`) | a directory per attempt | begin, complete, publication record, recovery, retention | after a crash every attempt gets a terminal record and a verdict | EmrExecution |
| log publisher (`adapters/outbound/logs.py`) | outbox | upload with timeout and retry | what is called published is the whole log | EmrExecution |
| runtime (`runtime.py`) | BUILT, STARTED, CLOSED | start, ordered close | nothing runs after close | EmrExecution |
| queries, pagination (`application/queries.py`) | none | pages of clusters and steps | no entry skipped or repeated | EmrConsole |
| inbound adapters | stream offsets | log stream, console resources, start-up plan, wire mapping | a stream misses no bytes; the console shows what is there | EmrLogStream, EmrConsole, EmrSubmit |

Commands and driver interact only through the repository and the executor: a
command saves a new aggregate and schedules a task; the task takes the cluster's
lock, reads the aggregate, saves a transition, suspends in a runner and reads
the aggregate *again*. TerminateJobFlows, in contrast, keeps the copy it read
before suspending. That asymmetry is where the hard behaviour lies. A runner writes
the journal, runs the child in the executor and gives the log to the publisher;
clusters are lost with the process, journal and logs are not.

### Glue (`src/glue/src/mystack/glue`)

| part | state | operations | what makes it right | modules |
|---|---|---|---|---|
| table optimizer (`domain/table_optimizer.py`, `application/table_optimizer*.py`) | per table and type: configuration, revision, schedule, run history, failures; scheduler task; worker tasks | create, update, delete; reap, claim, dispatch; mark, complete, fail; recover; start, close | a run ends once; schedule and history agree; every active run has somebody to end it; concurrency is limited | GlueOptimizerModel, GlueOptimizer |
| Spark executor (`adapters/outbound/table_optimizer_executor.py`) | one process group per run | spawn, wait with timeout, stop | stopped processes end | GlueOptimizer |
| databases, tables, versions, partitions, batches (`application/`) | definitions, versions, archives, values | CRUD, rename, batches, conditional updates | children have parents; versions grow; batches succeed partly and say so | GlueCatalogStore, GlueCatalog |
| paging, segments, expressions | tokens | keyset and offset pages, filters | evaluator and SQL agree; pages neither skip nor repeat | GluePages, GluePartitionExpressions, GluePartitionValues |
| repository and transactions (`adapters/outbound/sqlite_catalog`) | SQLite file, query facts, health facts | one write transaction at a time, busy retries, commit on a task of its own | all or nothing, also under cancellation; commands are serial; facts are never stale | GlueCatalogStore, GlueCatalog, GlueSerialCatalog |
| open table formats | metadata files in an object store | plan a document, publish it by a transaction, compensate | a table points to a document that exists and follows the one before | GlueIcebergMetadata, GlueOpenTableFormat |
| fault injection, error boundary | configuration | before an operation; after its failure | an answer tells the effect | Gateway |
| runtime, management | configuration | composition, wire mapping | — | — |

### Proxy, shared code, release

The proxy (`src/proxy`) has a life cycle (NEW, STARTED, FAILED, CLOSING, CLOSED)
around one shared HTTP client, and stateless routing and forwarding. The shared
packages hold the AWS endpoint (validation, dispatch, errors), configuration,
logging and static files. Both are in `Gateway`. The release scripts
(`src/scripts/release`) keep no state but the version files; what they guard is
on GitHub and in the registry: `ReleasePipeline`.

### What is hard here

* interleaving at every `await` of one event loop, and state read before an
  `await` and used after it (TerminateJobFlows, the driver, optimizer workers, the
  publication of metadata, the console's resources);
* cancellation of asyncio tasks, which is delivered wherever the task happens to
  be suspended, with and without `asyncio.shield`, while the thread behind an
  `await` goes on;
* child processes that exit, ignore SIGTERM, time out, or outlive the service;
* crash and restart with durable state (optimizer runs, EMR journals, catalog);
* storage that may refuse a transaction, uploads that fail or come late;
* tokens and markers kept by clients over state that goes on changing;
* facts stored beside the data they are derived from.

`PROJECT.json` lists these as hazards, each at its line, with the property that
covers it or the reason why none does.

## 2 The EMR control plane

Modules: `EmrModel` (aggregate), `EmrCluster` (system), `EmrQueue` (abstract
specification), `EmrClusterRefinement`, `MCEmrCluster`; proofs in `EmrClusterProofs`.

**Atomicity.** Everything runs on one event loop, so code between two points
that really suspend is one action. The repository's `asyncio.Lock` is never
contended, because its body never suspends, so `get`, `save` and `add` do not
suspend. What remains are the two `run()` coroutines of the runners, and in
TerminateJobFlows the awaits of `step_runner.cancel` and `cleanup` — and these
only when a live child is to be stopped. The driver's own `cleanup` never
suspends: no child of the cluster is registered when the driver calls it.

**State.** `repo` is the repository; `task` are the tasks the scheduler holds,
each with its place in `run()` (*preparing*: before the executor registers the
child; *running*: the registered child lives; *finishing*: unregistered, the
runner has not returned); `lock` are the worker locks; `cancellations` is
`LocalProcessExecutor._cancellations`; `request` are TerminateJobFlows calls with
the stale copy they carry.

| action | code |
|---|---|
| CreateCluster, AddSteps, CancelStep, SetTerminationProtection, SetVisibleToAllUsers | the command handlers |
| TerminateBegin / TerminateSave / TerminateFinish / TerminateSkip / TerminateRefused | `terminate_clusters` between its suspension points |
| SkipDuplicate, Drive | a task that finds the lock taken; one that takes it and runs to the first suspension |
| BootstrapReturn, StepReturn | what the driver does when a runner returns, including taking the next step |
| PrepareFails, Register, Exit | the executor: preparation fails, a child is registered (and at once stopped if a cancellation was deferred), it exits |

A stopping request and the runner of the child it stops are woken by the same
callback. The request then has nothing left to wait for; the step runner still
goes through a thread (unlinking its UI file), the journal and the publisher.
So the request finishes first, and `StepReturn` is guarded by `~HasWokenWaiter`.
The bootstrap runner has no such hop, and `BootstrapReturn` has no such guard.

**Abstract specification.** `EmrQueue` is what a submitting client sees: steps run
one at a time, each at most once, in accepted order, after set-up and before the
end; a cluster ends once; while alive it gets on with its work. It mentions
neither tasks, locks, copies nor processes. `EmrClusterRefinement` maps the
repository and the runners to it.

**Abstractions.** Names, times, log URIs, failure texts and tags are left out. A
step's identity is its position (identifiers are never reused). A request of
CancelSteps names one step. Exit merges the death of a process with its
unregistration (one callback).

## 3 The Glue table optimizer

Modules: `GlueOptimizerModel` (aggregate), `GlueOptimizer` (system),
`GlueOptimizerProofs`, `MCGlueOptimizer`.

**Atomicity.** A write transaction's body never suspends, so it takes effect in one
step, at its commit; or it is refused after the busy retries (`BusyStorage`).
Claiming is subtle: the claim commits one suspension before the worker tasks are
created, so `Claim` and `Dispatch` are different actions and everything may happen
in between.

**State.** `table` (absent, iceberg, other), `optimizer` (the aggregate per table:
type, enabled, revision, next run, failures, history), `scheduler` (where `_run`
is, or closing, or down), `worker` (per run: where `_execute` is suspended, its
claim, whether `_workers` owns it, whether a `_stop_process` is under way, whether
a shielded failure record is pending, whether a record was lost), `process` (none,
running, signalled). The clock is what `claim_due` compares: a next run that is
later, due or absent.

| action | code |
|---|---|
| CreateTable, UpdateTable (with rename and format change), DeleteTable | table use cases as far as optimizers see them |
| Create / Update / DeleteTableOptimizer | optimizer use cases |
| Start, Mark, Spawn, Exit, Timeout, Stopped, Complete, RecordFailure, RecordInterruption, Refused | `_execute` and the executor inside it, one step per suspension |
| Reap, Claim, ClaimNothing, Dispatch | one `tick` |
| Close, Closed, Crash, Restart | `close`, a crash, `recover_interrupted` on start |
| BecomesDue, StrayEnds | the clock; a process nobody supervises ends |

`CancelWorker` is asyncio's `cancel()` by place: a task that never started is
dropped; one that is spawning kills through the transport; one waiting for its
process goes into a *shielded* stop; one in the *unshielded* stop after a timeout
abandons it; one that is recording its failure loses the record. A process that
was running when the service crashed stays alive.

**Abstractions.** A table has one optimizer (the code keeps one per type and treats
them independently). A rename of a database cancels active runs table by table:
see `GlueCatalogStore`. Run identifiers are never reused
(random UUIDs), so the model runs out of them; properties that promise progress
say so. Because a run needs a fresh identifier, the small instances also cannot
show starvation by name order (`list_due_optimizers` sorts by name and cuts).

## 4 The EMR runtime and what its clients see

### Executions: `EmrSubmit`, `EmrExecution`, `EmrLogStream`

Proofs in `EmrExecutionProofs`.

`EmrCluster` says which execution the driver starts and when. `EmrExecution` takes
*any* execution at any time while the service serves, each on a task of its own, and
follows it to its end: it over-approximates the driver, so what holds here holds
under it. The two modules share the places of the executor (`preparing`,
`running`, `finishing` there are the points `begin`–`spawn`, `wait` and
`cleanup`–`settle` here).

**Atomicity.** One action is what a task does between two awaits that really suspend:
a thread (journal, unlink, upload), the creation of a child, its exit, a timer. A
document is written aside and renamed, so a crash leaves the old or the new one.

**State.** `session` says what clients do in this behaviour (which executions, which
are bootstrap actions, which have a LogUri, whether steps are cancelled or clusters
terminated, what the disk may refuse) and never changes. `pc` is where each task is suspended; `cancelled` are
tasks with a CancelledError still to be delivered; `child` are the processes;
`processes` and `cancellations` are the executor's tables, `available` and `lease`
the port pool; `journal`, `stdout`, `uiFile`, `publication`, `outbox` are the files
of an attempt and `archive` the object store. Four histories name the executions an
error of the disk has touched: `lostRecords` (this process could not read or complete
the record) and `lostVerdicts` (nor write the verdict of the publication), empty when a
service starts; `stuck` (spark-ui.json could not be removed) and `revived` (and in that
error the task's cancellation was lost), which stay.

| action | code |
|---|---|
| Start, RecoverRecord, FinishRecovery (with retention), Provision | `EmrRuntime.start`, `StepExecutionJournal.recover`, start-up clusters |
| Submit | `scheduler.schedule` for a new execution |
| JournalBegin / BeginFails, Prepare / PreparationFails, Spawn, Register, ProcessTimeout, ProcessReturns, Cleanup / CleanupFails, JournalComplete / CompleteFails | the runners and `LocalProcessExecutor.execute` |
| ReadPayload / PayloadFails, PutSucceeds / PutFails, LateUpload, Retry, WriteRecord, Settle | `S3StepLogPublisher.publish`, on a task or in recovery |
| CancelStep, TerminateJobFlow, RequestReturns, Kill | requests that stop a child |
| ChildWrites, ChildExits | the child |
| BeginClose, DeliverCancellation, CancelStopEnds, ShutdownTimeout, CloseExecutor, ExecutorClosed, CloseClients | `EmrRuntime.close` in its order; a task gets its CancelledError where it is suspended |
| DriverGoesOn | the driver of a task whose cancellation was lost takes its next step (`driver.py:127`) |
| Down | the process ends, after the close or in a crash at any point |

`CancelledAt`, `CancelChild` and `CancelledWrite` say what a cancellation does at each
point: a child whose creation is cancelled is killed by asyncio, an owner that waits
stops its child and goes on waiting, a document that is being written may still be
written. `EmrLogStream` adds a console that follows the log of one execution through
reconnections: `log_chunk` reads the state, then the bytes, then the publication,
and suspends in between.

**Errors of the disk.** Where a session says so (`failing`), a read, a write or a removal
may fail, each time anew, and its error goes where the code sends it:

| operation | what its error does | model |
|---|---|---|
| `journal.begin` | no lease and no child; the runner goes to its error result | BeginFails |
| writing the command or spark-ui.json | the same, through the `finally` block | PreparationFails |
| unlink of spark-ui.json (`runtime.py:573`) | skips the release of the port; replaces the outcome of the run, a CancelledError too | CleanupFails |
| `journal.complete` | swallowed (`runtime.py:638`); nothing is published | CompleteFails |
| reading the logs to publish | a failed publication | PayloadFails |
| outbox and `log-publication.json` | swallowed (`logs.py:319`, `:363`); publish goes on | `Attempted` |
| a record or verdict read in recovery | the record is left out; the verdict counts as none | `ReadableRecords`, `PublicationChoices` |
| a write or removal in recovery | ends the start of the service | BeginClose |

Properties: `UiPortsAreOwned`, `ShutdownSignalsEveryChild`, `RecoveryLeavesNoLooseEnd`,
`PublishedLogIsWhole`, `StreamEndsWithWholeLog`. They name what the code does not keep
when the disk refuses (section 10, items 18 to 20), and claim that nothing else goes wrong:

* a port stays away from the pool only with a task that has not ended, or with a
  spark-ui.json that could not be removed (`stuck`);
* after recovery a record runs, or is without a verdict, only if this process could not
  read or complete it (`lostRecords`) or could not write the verdict (`lostVerdicts`).
  What *earlier* services could not write is repaired like what they crashed in;
* a published log is whole unless its runner's cancellation was lost (`revived`).

`StreamEndsWithWholeLog` also excludes a step that TerminateJobFlows ended while its
runner was still at work: that is the finding `emr_terminal_before_logs`, seen from the
console. Without any one of these exclusions TLC finds a violation in the run's sessions.

**Abstractions.** A log is its length. stdout and stderr are read by the same code, so
one stands for both. A second artifact of the same file name overwrites the first in the
working directory; file names are not modelled. Retention removes a directory in one
step: a crash or an error in the middle of `shutil.rmtree` may leave a record without its
log, whose publication the next start may repeat with less. When the write of
spark-ui.json is cancelled, its thread may finish after the unlink and leave a file that
no running step reads. DriverGoesOn takes any step that is left, once a cancellation
was lost, where the driver takes the next of its own cluster.

### Listings and resources: `EmrConsole`

ListClusters and ListSteps cut a filtered and sorted list at an offset that the
client carries as a marker; `EmrManagementAdapter.resources` joins the clusters in
memory with the records on the disk in two reads.

| definition | code |
|---|---|
| InOrder, ClusterRows, StepRows, PageFrom, Marker | `EmrQueryHandler` and its `sorted`, `Paginator` |
| BeginListing, NextPage | a client that reads all pages |
| CreateCluster, AddSteps, StartStep, EndStep, EndCluster, RestartService, Tick | what happens meanwhile, at any time |
| ConsoleReadsClusters, ConsoleAnswers, RecoveredViews | `resources`, `_recovered_clusters`, `_recovered_cluster` |

`ListingIsComplete` says exactly when an offset is safe: an entry that matches all the
time is returned unless one before the marker left the list, and none is returned twice
unless one came in. `ConsoleShowsEveryCluster` needs its premise, that the live
clusters fit on one page: `resources` asks for one page only (`management.py:90`), so
further live clusters with a record are shown as recovered and
TERMINATED_WITH_ERRORS, and those without one are missing. `RecoveredIsGone` is the
statement without the premise; TLC violates it.

## 5 The proxy and the AWS endpoints

`Gateway` (proofs in `GatewayProofs`) takes requests from the client through `ProxyRuntime`,
`AwsServiceDetector.detect` and the forwarders to `AwsJsonRpcEndpoint` and its
operation, and back. A message is the evidence it carries (target, signing name,
host), the kind of its body, which constraints its input and output violate and how
the operation ends; letter case is kept, because the validation of the routes folds
it and the match of a target does not.

| action | code |
|---|---|
| GatewayStarts, GatewayCloses, ClientIsClosed | `ProxyRuntime.start`, `aclose` |
| Send, UpstreamFails, ResponseBegins, StreamBegins, ResponseEnds, Abandon | `AwsRequestForwarder`, `HttpServiceUiForwarder`, management and UI routes |
| EndpointReceives, OperationRuns | `AwsJsonRpcEndpoint.__call__` before and after the operation |
| ValidRoutes, ValidFamilies, ValidFaults | what refuses a configuration at start |
| Refusal, Injected, GlueDecision, EmrDecision, Response | order of the checks, fault injection, error boundaries |

`AnswersTellTheEffect` relates what the client is told to what services did: a success
means exactly one service did it, whatever the order of the routes; a refusal means
nothing happened. The premise about requests of several parts is a fact of the
code: TerminateJobFlows of several clusters may be refused after the first. A
5xx answer or a lost connection promises nothing. `UpstreamIsReleased` excludes one
case that the code does leak: a client that leaves before the first byte of a
streamed UI response, whose generator then never starts.

## 6 The Glue Data Catalog

Modules: `GluePartitionValues`, `GluePartitionExpressions`, `GlueCatalogStore` (the
rows and every command), `GlueCatalog` (requests and transactions),
`GlueIcebergMetadata` (documents), `GlueOpenTableFormat` (their publication),
`GluePages` (listings), `GlueSerialCatalog` (abstract specification),
`GlueCatalogRefinement`, `MCCatalog`; proofs in `GlueCatalogProofs`, `GlueFormatProofs`
and `GluePagesProofs`.

**Atomicity.** A command runs on its own connection without a suspension, between
BEGIN IMMEDIATE and the commit: one step (`Begin`) computes a `draft`. The commit runs
on a task of its own, shielded; other requests run in between, and a writer that
finds the lock taken sleeps and tries again, `RetryLimit` times. A read is one step on
the committed store.

**State.** `store` is the committed database: rows by integer key (a key in use plus
one, so a deleted greatest key comes back), and beside the partitions the *facts*
GetPartitions reads (typed projections, segments) and per table the *health* of those
facts. `work` is what each client's request is doing, `writer` who holds the lock.
`files` is the object store, `late` are writes whose request was cancelled. `listing`
is a client that reads page by page.

| definition | code |
|---|---|
| Create/Update/Delete Database, Table, Partition, each with its Refusal | the commands of `application/` with the SQL of `_SqliteCatalogTransaction` |
| WritePartition, RefreshFacts, RefreshHealth, ForgetIssues, DropTables | facts, health and cascades |
| Begin, Busy, Commit, CommitFails, CancelRequest | `transaction`, `_begin_write_transaction`, the shielded commit |
| Submit, ItemEnds | single requests and batches with partial success |
| OptimizerRuns | the optimizer's own transactions, as far as a rename sees them |
| CreateDocument, ApplyUpdate, UpdateDocument, ValidSchema, ValidSpec, ValidOrder | `domain/open_table_format.py` |
| SubmitCreate, SubmitUpdate, ReadMetadata, WriteCandidate, Publish, PublicationEnds, Compensate, LateWrite, …Fails | `OpenTableFormatCommands` |
| Page, KeysetPage, InOrder, OffsetPage, NextPage | the four listings, ORDER BY |
| IsExpression, Evaluate, Raises / SqlSelects | the parser's tree, the evaluator / the compiled predicate |

**Abstract specification.** `GlueSerialCatalog` is what the catalog promises its clients:
a client asks for a command, the command takes effect as a whole and at most once on the
catalog of one moment, and the client is told what happened. It knows no transaction, lock,
draft or retry. `GlueCatalogRefinement` maps the committed store and the requests to it: an
item of a batch is a command of its own, and a publication asks once its candidate is
written.

An expression is the sequence of the nodes of its tree, children first, and a node names its
children by their places. So one recursive function (`Outcome`) gives the truth of the
whole from that of its predicates, for the evaluator and for SQL alike.

Properties: `CatalogIsConsistent` (parents, unique names, fresh facts and health,
growing versions, runs that know their table), `PagesAreComplete` (a listing that runs
to its end returns each wanted row that was there all the time exactly once, and
nothing that the evaluator would refuse, though SQL selected it), and
`PointedMetadataIsWritten` (a table points to a document that exists, resolves, has its
columns, and follows the document of the version it replaced: no lost update), and
`CatalogIsSerial`: every behaviour is one of `GlueSerialCatalog`.

The named exclusions are what the code does *not* guarantee: `disowned` (item 1 of
section 10), `mistaken` (item 10: the table was created again, or the client named a
version ahead of its time), `disturbed` (item 3) and `HalfNullRange`
(item 2).

**Abstractions.** A value is a raw string with its place in the order of each type; a
LIKE pattern is the set of strings it matches; a table keeps what the catalog decides
with. Several catalogs, parameters, statistics and UDFs are left out.

## 7 The release pipeline

`ReleasePipeline` (proofs in `ReleasePipelineProofs`): `version.py` writes the version files one by one, commits are
pushed, a run per commit goes through the branch policy, the pre-flight scans, the
gate, the tag transaction, the resumable publication of the images and the release
transaction. Any call may fail before or after its effect (`TagCreate`,
`ReleaseCreate`, `PublishImage`, `JobFails`), a failed run may be started again from
the failed job or from the beginning (`Rerun`), somebody else may push tags
(`ForeignTag`) and an exception may expire. The scripts are the source; the stages
between them are those of `release.yml` and `container-publish.yml`.

`ReleaseIsOfOneCommit`: a release, its tag, its version files, its images and their
scans are of one commit. `TaggedVersionsGrow`: the versions the pipeline tags only
grow, whichever run is resumed.

## 8 Runs

| run | question | size |
|---|---|---|
| `emr_safety` | do tasks, two TerminateJobFlows requests and all commands keep the control plane consistent? | 626 k states |
| `emr_service` | without terminate requests: are ends published and clean, and is everything accepted eventually settled? all three failure policies | 23 k |
| `emr_queue` | does the control plane implement `EmrQueue`, do requests return, and are the ends of steps final while terminations do not overlap? | 25 k |
| `runtime` | do ports, records, logs and children survive cancellation, close, crash, recovery and a failing disk; are listings and the console complete; do proxy answers tell what happened? | 1.19 M |
| `glue_optimizer` | two tables, renames, updates, cancellation, shutdown, crash and recovery: are schedule, history and workers consistent? | 1.19 M |
| `glue_optimizer_progress` | storage that may refuse, a table that may lose its format: are stale processes stopped and due optimizers claimed? | 23 k |
| `catalog` | interleaved transactions, batches, publications of metadata and listings: is the catalog whole and serial, are pages complete? and does the release pipeline bind a release to one commit? | 973 k |
| `emr_stale_terminate`, `emr_terminal_before_logs`, `emr_orphan_child`, `glue_ineligible_table`, `glue_timeout_cancelled` | the findings of section 10 | |

`runtime` and `catalog` put several components into one run. The components of a run
share no variable, so nothing is lost by letting each behaviour be of one of them
(`part`) while the others rest in one initial state: the reachable states are the
union, not the product.

**EMR bounds.** One cluster: clusters share only the scheduler and the deferred
cancellations, which carry the cluster. Two tasks: enough for a task that finds
the lock taken while another leaves. Two requests: a request that overtakes
another. Three steps (two in the runs with liveness): one running, one pending,
one added late, so that accepted order, cancellation of pending work and the
active-step limit of two can all matter. One bootstrap action: a child before and
after service. Protection is only ever set in `emr_safety`, visibility only in
`emr_service`. Deadlock is not checked there: an idle service with its bounds
used up rests.

**Runtime bounds.** The sessions (`MCSessions`) are a published step whose log grows
to two bytes and may be terminated; one that may be cancelled, with two attempts of
publication; one whose records, verdicts and outbox may fail to be read or written, and one
whose journal and unlink may fail; one bootstrap action; one step without LogUri; two steps
that compete for the one port, which the stream does not watch; and two steps with an
unlink that may fail, where a driver goes on during the close. The kinds of failure are
spread over sessions that have the steps they concern; the proofs are for all of them
together. Two starts of the service: one restart over the files of the first. A chunk is
one byte, so a log takes two reads and a write may come between them. Pages are of
one entry and four clusters may be created, at two moments of a clock that orders
them. Two requests at the gateway: one that fails while another holds an upstream
response. The seven route tables contain a valid one in two cases, one service
without a route, and collisions on each kind of evidence; the messages let each
kind of evidence contradict another. Deadlock is not checked: services rest.

**Glue bounds.** Two tables: a rename needs a free name, and a claim can list two.
Two runs: one overtaken by the next. History limit one: every second claim drops
a run. Failure limit two: one failure that is tolerated, one that is not. One
update per optimizer: a stale configuration. One worker at a time: a claim at the
limit. Deadlock is checked: a crash is always possible.

**Catalog bounds.** Two clients with one busy retry: a transaction between another's
commit and its caller, and a writer that gives up. Four sessions (`AllSessions`), each
with the setup, requests and listings that meet: `numbers` (typed values of an int key,
where text order and number order differ and one value is no number), `texts` (batches,
segments, a change of the number of keys, cancelled and failing commits), `names`
(renames and drops of databases and tables under listings and optimizer runs),
`iceberg` (publications, a table dropped and created again, a failing object store).
Two or three requests a behaviour, pages of one and two. In the release part two commits,
two versions, and a re-run or a foreign tag (`OneDisturbance`): a run that is resumed after another
has overtaken it, or a tag that is there already. Deadlock is not checked: clients may have nothing left to ask.

**Symmetry** is used only in runs without liveness. Table names are not symmetric,
their order decides what is claimed first.

**Fairness.** Weak fairness of each task, request and worker step: the event loop
runs every ready callback, a stopped process ends (SIGKILL after the grace
period), and in EMR a child eventually exits. In Glue a running process need not
end before its timeout, and compared with a tick the timeout is for ever:
`WaitsEnd` is a premise of the one property that needs it. The scheduler's claim is
strongly fair: the storage is not busy *each* time there is something to claim.
Clients, operators and unsupervised processes promise nothing. `QuietSpec` adds
that clients stop, for one counterexample, so that it does not depend on them.
`runtime` and `catalog` check safety only and state no fairness.

**Mutants.** Each property of a passing run comes with a changed definition
(`Mut_…`, next to the original) that stands for a plausible bug in the code and
violates the property under the same configuration.

## 9 Proofs

TLAPS proves for every value of the constants, from the named assumptions on them.
The modules state what the code and its settings ensure: `PolicyAssumption` and
`ConstantsAssumption` (the actions on failure and the bounds of EMR and of the
optimizer), `ExecutionAssumption` and `StreamAssumption` (the requests and bounds of
a session, a chunk of at least one byte), `ConsoleAssumption` (a page of at least one
row; filters by states and times), `GatewayAssumption` (the shape of messages
and routes, complete handler families), `PartialAssumption` (an operation of Glue is
a transaction: what its domain refuses leaves nothing behind), `TextAssumption` and
`CatalogAssumption` (strings are totally ordered; requests are the commands of the
service, and so is the history a session starts from), `FormatAssumption` (a session
starts with the files its tables point to, each as CREATE writes it; no command but a
publication names a file; partition field ids are naturals), `ValueAssumption` (a value
that converts has a place in the order of its type, and NULL is none of them),
`PagesAssumption` (pages of at least one row; listings of the four kinds, over segments
every row has a number for, with an expression as the parser builds it or one it refuses)
and `PipelineAssumption` (versions are triples of naturals). A theorem that needs more
names it in its statement (`OneRequest`, `Requests = {}`). TLC evaluates every
assumption, and has checked every invariant below on the runs' instances before it
was proved.

### `EmrClusterProofs`

`TypeCorrect`, `OneOperationAlways`, `EmrInvariant`, `StartedStepAlwaysHasRunner`,
`PendingStepAlwaysHasTask`, `StepsAlwaysRunInOrder`, `NoTaskEverFails`,
`BootstrapAlwaysBeforeService`, `ClusterEndIsAlwaysFinal`.

`OneOperation` follows from *who runs holds the lock* (`RunnerHoldsLock`,
`LockHolderRuns`). The rest needs one inductive invariant, because every
conjunct leans on the others:

* `RunnerInv`: a runner's operation fits the cluster's phase (`RunnerInPhase`: a
  bootstrap action in BOOTSTRAPPING, a step in RUNNING, either one in TERMINATING
  or after the end); the step a task runs is in its cluster, and started while the
  cluster is RUNNING (`RunnerStepIsKept`); a bootstrapping cluster has a runner
  (`BootstrappingHasRunner`); an absent or TERMINATING cluster has no pending step
  (`NothingPends`); a TerminateJobFlows request that waits before it saves its copy
  holds up the runner of a step of that copy, and with it every change of the
  driver to the cluster (`WaiterStopsRunner`);
* `QueueInv`: pending steps have a task, steps run in order, no task fails.

Steps split into those that leave the driver alone (`QuietStep`) and those of the
driver (`DriverStep`). For the latter one lemma (`DriverOutcome`) says that a driver
segment leaves its task idle, bootstrapping, or in a step, and what the repository
looks like in each case; each conjunct follows from that. `ClusterEndIsFinal` is
the deep one: a request that holds an old copy could bring an ended cluster back
to life, and the proof shows that the runner cannot have returned while such a
request waits.

The second part of the module is about what clients are told of cancellations and ends,
over the same specification.

* `CancellationAlwaysReachesChild`, for any requests. Needed besides `EmrInv`:
  `WaiterSawChild`. A request that waits before it saves its copy waits for a
  *registered* child, so its late save cannot undo a cancellation that a task in
  its preparation still has to see.
* `StepEndIsAlwaysFinal`, as long as terminations do not overlap (`OneRequest`). The
  invariant is `WaiterCopyIsBehind`: only cancellations, and steps added, separate the
  repository from the copy a request holds, so that its save replaces no settled state.
  With two requests the theorem is false, and TLC shows it: the first saves
  INTERRUPTED, the second settles the step again from an older copy (section 10,
  item 16).
* `StepEndIsAlwaysPublished` and `EndedClusterNeverHasChild`, for `Requests = {}`: a
  termination does break both (the runs `emr_terminal_before_logs` and
  `emr_orphan_child`). The invariant is `RunnerServes`, a runner keeps its cluster in
  its phase.

The third part is the refinement, `QueueIsImplementedStepByStep`: the control plane, for
any clusters, tasks and overlapping requests, implements `EmrQueue` but for its fairness. Under the mapping
each step of the service is one step of the abstract queue of one cluster, or
leaves every queue as it is. `QueueIn` gives the queue as a function of the aggregate
and of the step at work; one lemma per operation (`CreateQueue`, `AddQueue`,
`CancelPendingQueue`, `CommandQueue`, `TerminateQueue`, `QuietQueue`, and of the driver
`BootstrapQueue`, `StartQueue`, `LeaveQueue`) names the abstract step; `StepIsQueueStep`
puts them together. The mapping needs the invariant of the service (that one step is at
work at a time, that steps run in order), that the copies of requests are within the
bounds (`StepsBounded`), and that requests name clusters that exist
(`RequestsNameClusters`): a copy saved over an absent cluster would create a queue.

### `EmrExecutionProofs`

`ExecutionInvariant`, `UiPortsAlwaysOwned`, `ShutdownAlwaysSignals`,
`RecoveryIsComplete`, `PublishedLogIsAlwaysWhole`; with the log stream
`StreamInvariant`, `ExecutionTypeCorrect`, `StreamAlwaysEndsWithWholeLog`. The
specification is that of executions and stream together (`LogSpec`).

`ExecInv` says for each execution what five views of it agree on: the phase of the
service (`PhaseOf`), task and child (`Life`), port lease (`PortOf`), record
(`RecordOf`), publication (`PublicationOf`); `PortInv` relates the leases of all.
Two conjuncts carry the rest. A cancelled task still owns its child until it has
stopped it (`Life`), so a port is never given back under a running child. And what
writes to the archive, the upload of a timed out attempt included, holds the whole log
(`PublicationOf`), because nothing publishes while a child can write; the one that may is a
task whose cancellation was lost, and `Life` says that this needs a failed unlink of a
cancelled run (`revived`). `Settled` carries the recovery: a record leaves `todo` settled, or
its failed write is on record in `lostRecords` or `lostVerdicts`, which start empty. `StreamInv` adds
that once the stream has read an ended state, nobody writes the log any more
(`Frozen`); it is inductive because log_chunk reads the *state first, the file second*.

The proof found an error of the model: a bootstrap action whose child cannot be
spawned (`Spawn`) went to the clean-up of a step; in the code it has none
(only `LocalSparkStepRunner.run` has, `runtime.py:572`). `Spawn` was corrected.

The second half of the module is about `EmrConsole` (`ConsoleSpec`, for any clusters, steps,
filters, page size and times): `ConsoleInvariant`, `ListingIsAlwaysComplete`,
`ConsoleAlwaysShowsEveryCluster`.

* `InOrderIsSorted`: a list in a strict total order has each member once, each behind those
  before it. So `ClusterRowsAre` and `StepRowsAre` say what a listing is of, and
  `RowsKeepOrder` that whatever is in a list before *and* after a change keeps its order.
* `InPlace` is the invariant of a listing between two pages: all due entries before the
  marker have been seen (`NoneMissed`), and nothing behind it (`NoneTwice`). That it is
  inductive is why the offset is safe just as long as the property says: if no entry before
  the marker left, as many entries are before it as were, all of them seen
  (`StillNoneMissed`); if none came in, no seen entry can move behind it
  (`StillNoneTwice`). Both are counting arguments (`NoRoom`). `TurnMissesNone` and
  `TurnRepeatsNone` are about the page itself.
* `ReadAll` is that of the console between its two reads: if the clusters in memory fit on a
  page, the ids it goes on with are all of theirs, so no record of one of them counts as
  recovered.

### `GatewayProofs`

`GatewayTypeCorrect`, `AnswersAlwaysTellTheEffect`, `UpstreamIsAlwaysReleased`, and
`DetectionIgnoresOrder`: on a table the settings accept, each kind of evidence names
at most one route, so the order of the routes decides nothing. `GatewayHonest`
relates what was sent to what ran (`ServedAsSent`) and to what was answered
(`AnsweredAsServed`). `PoolInv` follows the client through the life of the runtime: it
is closed only after the server has drained its requests, and every open upstream
response is read by somebody, or was left before its first byte.

### `ReleasePipelineProofs`

`PipelineInvariant`, `OneRunOfABranch`, `ReleaseIsAlwaysOfOneCommit`,
`TaggedVersionsAlwaysGrow`. What a stage has checked must still hold when a later
stage relies on it, though other runs, re-runs and people act in between. The
invariant states it stage by stage: `TagIsBound`, `EvidenceIsScanned`,
`ImagesAreVerified`, `ReleaseIsBound`. `NextVersionIsGreatest` holds between the check
of the order and the creation of the tag only because of `OneRunPerBranch`: without the
concurrency group a second run could tag a greater version in between.

### `GlueOptimizerProofs`

`TypeCorrect`, `ScheduleAlwaysConsistent`, `HistoryAlwaysSettled`,
`FailingCompactionAlwaysGivenUp`, `ActiveRunAlwaysHasWorker`, `ProcessAlwaysReported`,
`WorkersAlwaysLimited`, `RunEndAlwaysFinal`: every safety property of the run, and two
more. `FailingCompactionIsGivenUp` and `WorkersAreLimited` are no longer checked by a
run, since they are proved for all values.

1. `Good(o)`: one optimizer is well-formed, its schedule agrees with its history,
   its history is settled and an enabled compaction is below its failure limit.
   Each method of the aggregate keeps `Good`; `TypedInv` lifts that to the system.
2. `ActiveRunInHand` strengthens `ActiveRunHasWorker` by the revision: an active run's
   worker holds the claim under the *current* configuration. Without that the
   invariant is not inductive, since a worker whose claim is stale leaves without
   a word. The key lemma `OnlyClaimsActivate`: only a claim makes a run active.
3. `ProcessInv`: a running process is awaited, and a worker spawns only after it has
   marked the run.
4. `LimitInv`: workers and claimed work together stay within the limit. Listing by
   name is shown to leave room with the rank of each due name (`ListedAreFew`).
5. `HistoryInv`: identifiers are unique over all histories and recorded ones have
   been claimed. Without a claim each history continues that of its table, renamed
   or not (`OnlyClaimsStart`); a claim drops runs in front and adds one at the end
   (`ClaimExtends`). Hence `RunEndIsFinal`.

### `GlueCatalogProofs`

`CatalogStaysInOrder`, `CatalogIsAlwaysConsistent`, over the specification of requests,
transactions and publications together (`FormatSpec`), for any values, segments,
clients and commands, batches included.

The inductive invariant is `CatalogInOrder`: the committed `store` and the `draft` of
the open transaction are good, and one client, the one about to commit, holds the lock.
That the *draft* is good is what makes it inductive: `Begin` computes it from the store,
and no other transaction can change the store before it is committed. `StoreGood` says
what every command relies on: rows have positive keys and are finite in number
(`StoreTyped`; else `NewRow` could name a taken key), parents (`Parents`), one name per parent
(`UniqueNames`), fresh facts and health (`FreshFacts`), runs under the current name of
their table (`RunsAreNamed`).

There is a lemma per command (`CreateDatabaseKeepsOrder` to `DeletePartitionKeepsOrder`),
put together by `EffectKeepsOrder`. The hard conjunct is the health of a table, which
names the *first* bad partition. Partition keys are totally ordered
(`PartitionsAreOrdered`, from `TextAssumption`), so there is one first among finitely many
(`FirstIsThere`); `HealthIsSame` says that health depends on the rows, keys and facts of
its own table only, hence a command leaves that of the others alone
(`HealthOfOthersStays`); and a delete, which clears an issue by cascade, computes the
health again. A rename keeps `RunsAreNamed` only because it cancels the runs in the same
transaction. `StoresAreMade` and `SetupIsInOrder` show that any history of accepted
commands leaves a good store, by the least command that would not.

### `GlueFormatProofs`

`PublicationStaysInOrder`, `PointedMetadataIsAlwaysWritten`, `CatalogIsAlwaysSerial`, over the
same `FormatSpec` and on top of `CatalogInOrder`.

First the documents. `DocumentGood` says that ids are unique among schemas, specs and
orders, that the chosen ones exist, and that the last column and partition ids bound
those in use. `CreatedIsGood` and a lemma per action of an update show that whatever is
accepted stays good, and `GoodResolves` that a good document resolves. The ids of
partition fields and the outcome of a list of updates are defined by recursive functions;
the lemmas that they exist and stay good go by the least index where they would not.

Then their publication. `PublicationInOrder` is what makes `PointedMetadataIsWritten`
inductive:

* `PlanGood` ties each request to its plan by its program counter: what was read, what
  was planned, and from the write of the candidate to the end of the transaction that
  the file holds the planned document (`Written`).
* `Remembers` says what a read version still means later: if the table of that creation
  (`CreatedOnce`: a revision creates one table at most) still has the version, it still
  points to the file that was read. With the version check this is why no update is lost.
* `LocationsInOrder` is about who owns a file: plans have different locations, a
  location that is planned is in no table unless it was published, and a write left behind
  goes to a location whose request compensates or is gone. Without it a deletion or a late write
  could hit the file of a table.
* `DraftInOrder`: the draft is the effect of the writer's command on the *current* store.

There is a lemma per action (`BeginIsGood` to `CommitIsGood`). The deep one is
`CommittedIsBacked`: each table of the draft is that of the store or has the location of
the plan, whose file was written.

The proof found an error of the property: it held of sessions in which clients name old
versions only. For a version ahead of its time the update is lost in the code, too
(section 10, item 10); the model now has such a client and the history `mistaken` names it.

The end of the module is the refinement, `CatalogIsAlwaysSerial`: for any clients,
requests, retries, failing commits, cancellations and publications, the catalog implements
`GlueSerialCatalog`. Whatever happens to a request is seen at that client only
(`OneRequestMoves`), as one of four changes (`AskedIsSerial`, `AnsweredIsSerial`,
`ReturnedIsSerial`, `UnseenIsSerial`), and a lemma per action says which. The point is
`CommitIsSerial`: the command was judged and computed at `Begin`, on the store of that
moment, and takes effect at the commit, on the store of *this* moment; `DraftInOrder` says
that they are the same, and that the command is still not refused.

### `GluePagesProofs`

`PagesStayInOrder`, `PagesAreAlwaysComplete`, over `PagesSpec`: the catalog and its
publications as above, and a client that lists meanwhile. There are three layers.

1. *What a page is.* `EntriesAreOrdered` gives the entries of a listing a strict total
   order, so `InOrder` sorts them (`InOrderIsSorted`) and a keyset page is the next
   entries after the row the token names (`KeysetPageIsNext`, `PageIsNext`). Versions
   are counted instead (`VersionsPageIsNext`).
2. *What SQL selects.* The page is selected by the compiled predicate on the facts, but what
   is wanted is said by the evaluator on the raw values. `PredicatesAgree` compares the
   two predicate by predicate: three-valued logic, NULL in lists and ranges, negation, LIKE, and
   the conversion guard. `ExpressionsAgree` lifts that to expressions, by the least node
   where they would differ. They agree on a partition whose values convert, and
   `SelectedIsWanted` shows that a page is answered only if that is so of all partitions:
   the facts are those of the values (`FreshFacts`) and the health names a bad one if there is
   any. The one exception is a range with one NULL bound (`HalfNullRange`).
3. *What stays.* `ListingGood` is the invariant of a listing between two pages.
   `RowsFollow`: what was returned is sorted, wanted, and lies up to the row the token
   names, and every wanted entry that has stayed is returned or lies beyond that row.
   `NextPageKeepsListing` adds a page, `WatchKeepsListing` is about what other requests
   do meanwhile: an entry that stayed has kept its key, so its side of the row. For
   versions (`VersionsFollow`) the argument is another: while the table is there its list
   of versions only grows at the end (`VersionsStay`), so an offset stays where it was.
   That no command but UpdateTable touches an archive, and only by appending, is
   `CommandsKeepArchives`; that names are text, which the order needs, `EffectKeepsText`.

Expressions were trees evaluated by recursive operators before, about which nothing can be
proved; as sequences of nodes they are the same trees, and the least-node argument takes
the place of induction.

### Model-checked only

All liveness properties (`CancellationSettles`, `PendingStepIsTaken`, `TerminateReturns`,
`DueOptimizerIsClaimed`, `CancelledProcessEnds`, `StaleProcessIsTerminated`) and the fairness
half of `QueueIsImplemented`: TLAPS does not reason about fairness and ENABLED here. Of the
safety properties that runs check, each is stated by a theorem. The types of the variables of
`runtime` (`ExecutionTypeOK`, `GatewayTypeOK`) are proved and take no place in the run. The five properties that are
expected to be violated are refuted by TLC.

## 10 Findings

Each is a run that TLC finds violated, against a sentence of the repository.

* `emr_stale_terminate`: TerminateJobFlows saves the copy it read before it waited
  for a child; steps accepted meanwhile disappear (`cluster.py:136`).
* `emr_terminal_before_logs`: TerminateJobFlows gives a step its terminal state while
  its runner is still publishing (`cluster.py:135`).
* `emr_orphan_child`: cleanup stops the children registered at that moment; a
  bootstrap child registered later survives its cluster (`runtime.py:366`).
* `glue_ineligible_table`: one due optimizer whose table is no longer an Iceberg
  table rolls back every claim, so nothing else is claimed
  (`table_optimizer.py:264`).
* `glue_timeout_cancelled`: a worker cancelled during the grace period of a timeout
  never sends SIGKILL (`table_optimizer_executor.py:137`).

Met while modelling the later components. The properties of `runtime` and `catalog` name
these cases where they exclude them; none is stated as a run of its own.

1. A publication of Iceberg metadata that is cancelled while its transaction commits
   compensates all the same: it deletes the file the committed table points to
   (`open_table_format.py:99`, `:165`; `disowned`).
2. `NOT BETWEEN` with one NULL bound: the evaluator answers UNKNOWN, SQLite may answer
   TRUE by the other bound (`HalfNullRange`).
3. A keyset token names a row. If that row is renamed or re-keyed between two pages the
   listing goes on from its new place; if it is deleted the token is refused as one of
   another request; if its key is reused it is followed (`disturbed`).
4. A writer that waits for a busy database does so inside BEGIN IMMEDIATE with
   SQLite's own timeout, on the event loop, whose own commit it may be waiting for.
5. An output that violates its constraints is answered 500 after the operation took
   effect; a UI response whose client leaves before its first byte stays open until
   the proxy closes.
6. The record of a cancelled step says `failed`: `journal.complete` looks at the
   driver's private copy. An interrupted run without LogUri never gets a publication
   record, and retention never removes it.
7. The proxy refuses two routes whose target prefixes differ in case only, but matches
   a target as it is written. A request brought to a service by its signing name or
   host, with a target of another service, is answered UnknownOperation there.
8. Partitions whose table has changed its number of keys cannot be updated or deleted:
   both forms of the request are refused.
9. Release: the authorization of a publication does not look at the expiry of exceptions
   again; a registry that cannot be inspected counts as one without the image; the
   published image is built again rather than taken from the scan; a re-run of the
   publish job does not repeat the tag check.
10. UpdateTable with an open table format expects a *version*, and nothing compares it
    with the table or the version whose metadata was read (`mistaken`). A table that was
    dropped and created again under its hands has the expected version 0 again. And a
    `VersionId` of the client replaces the version that was read
    (`open_table_format.py:161`): a client that names the version a concurrent update
    is about to make replaces that update by a document based on the one before, though
    `docs/protocols/glue/glue-open-table-format.md:96` says "A stale writer receives
    `ConcurrentModificationException`". The proof of `PointedMetadataIsWritten` met this
    second case.
11. An Iceberg update without an action may replace the current schema by one that lacks
    a column its default partition spec is based on.
12. The fallback of `page_partitions` to the evaluator is never reached: the compiler
    takes every node the parser can build.
13. The console's resources use the first page of the clusters only (section 4), and a
    cluster created between its two reads is shown as recovered if its first record is
    written in time, which is what `ConsoleShowsEveryCluster` allows on top.
14. The fix hint of a failed side effect says that durable state must be unchanged
    (`aws_errors.py`); a batch may fail so after its first items have been committed.
    TerminateJobFlows of several clusters may be refused after the first.
15. Offset markers over a list filtered by state skip entries as others leave the list,
    and repeat them as others come in (section 4).
16. A second TerminateJobFlows replaces terminal step states by others and loses
    protection or visibility set meanwhile; a cancellation that comes after the child
    was unregistered stays in `_cancellations` until the close; a failed bootstrap
    leaves its steps PENDING; a cancelled deferred stop leaves a process registered
    until the executor closes.
17. The Spark UI route of EMR looks a port up and connects to it a moment later
    (`app.py:252`); in between the lease may pass to another step.
18. `LocalSparkStepRunner.run` removes spark-ui.json before it releases the port
    (`runtime.py:573`). If the unlink fails, the port is lost until the service
    restarts, and a step whose child ended well is reported as failed to prepare (`stuck`).
19. The same error replaces a CancelledError, and `except Exception` (`runtime.py:575`)
    swallows it: a runner cancelled by the close completes its record, publishes while
    its child may still be stopping, and its driver starts the next step (`revived`).
20. A verdict that cannot be written is only logged (`logs.py:319`), and so is a record that
    cannot be completed (`runtime.py:638`): the service goes on to serve with a record
    without a verdict, or one that says `running`, until its next start repairs it
    (`lostVerdicts`, `lostRecords`).

## 11 Plan

What is modelled is in sections 2 to 7, and every safety property the runs check is proved.
Next would be, in this order: the log of commits that clients make themselves
(`iceberg_commit.py`) as another writer of the object store, the expiry of exceptions and the
retention of snapshots in the release scripts, and the proxy's settings as a state that
may be reloaded, should the code come to allow that.

## 12 Not modelled

* Tags (same shape as visibility), reads of one object, wire mapping, settings, logging,
  static files: no state or pure I/O.
* The Spark job of an optimizer and everything it does to Iceberg files; Hudi and
  Delta, which the code only classifies; the log of commits by clients
  (`iceberg_commit.py`).
* The generated ANTLR lexer and parser, `ui/`, `contracts/`, `examples/`, the quality and
  compatibility scripts: generated code, browser code, data, batch programs over
  files without concurrent state.
* Rulesets, configuration checks and the retention of snapshots in the release scripts.
