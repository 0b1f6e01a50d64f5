---------------------------- MODULE EmrExecution ----------------------------
(***************************************************************************)
(* The execution of a child process in the EMR service and everything that *)
(* outlives it: the step and bootstrap runners, the process executor, the  *)
(* Spark UI port leases, the execution journal, the log publisher, and the *)
(* start, the ordered close, a crash and the recovery of the service.      *)
(*                                                                         *)
(* EmrCluster says which execution the queue driver starts and when; here  *)
(* any execution may be started while the service serves, each on a task   *)
(* of its own.  An action is one segment of a task between two awaits that *)
(* really suspend (a thread, a child, a timer).  A document is written to  *)
(* a temporary name and renamed, so a crash leaves the old or the new one; *)
(* a write, a read or a removal may fail, and then its error goes where    *)
(* the code sends it.                                                      *)
(*                                                                         *)
(* A crash is the container's: its children die with it, and what the disk *)
(* and the object store hold survives.                                     *)
(***************************************************************************)
EXTENDS EmrSubmit

CONSTANTS
  Executions,      \* steps and bootstrap actions ever started
  Ports,           \* the Spark UI ports port_min..port_max
  NoPort,          \* no lease, or no spark-ui.json
  Sessions         \* the settings and workloads explored, see session below

\* What the disk may refuse: to read a record, to write one, to write the verdict of a
\* publication or its outbox, to remove spark-ui.json
DiskFailures == {"read", "journal", "verdict", "outbox", "unlink"}

ASSUME ExecutionAssumption ==
  /\ NoPort \notin Ports
  /\ Sessions \subseteq
       [executions : SUBSET Executions, bootstrap : SUBSET Executions, logUri : SUBSET Executions,
        requests : SUBSET {"cancel", "terminate"}, failing : SUBSET DiskFailures,
        maxAttempts : Nat \ {0}, maxOutput : Nat, maxStarts : Nat]

VARIABLES
  \* What clients ask for, which never changes: the executions started, which of them are
  \* bootstrap actions and which have a LogUri; the requests that stop a step; what the disk
  \* may refuse; publication_max_attempts; and two bounds,
  \* what a child writes to stdout.log and how often the service starts.
  session,
  \* the service process
  phase,           \* where EmrRuntime.start or close is
  starts,          \* bound: starts so far
  startup,         \* executions the start-up clusters bring with them
  todo,            \* records recover() has still to visit
  closed,          \* the resources that are closed
  pc,              \* where the task of an execution, or its recovery, is
  cancelled,       \* tasks with a CancelledError to be delivered
  result,          \* what the execution, or its publication, has come to
  state,           \* the step in the process-local control plane
  request,         \* a CancelSteps or TerminateJobFlows request stopping the child
  available,       \* SparkUiPortLeases._available
  lease,           \* ui_port
  processes,       \* LocalProcessExecutor._processes
  cancellations,   \* LocalProcessExecutor._cancellations
  attempt,         \* publication attempt
  payload,         \* the log bytes publish has read
  late,            \* uploads that go on in their thread after a timeout
  child,           \* the child processes; "stopping" was sent SIGTERM and still runs
  \* the executions ever submitted, the disk and the object store
  used, journal, uiFile, stdout, outbox, publication, archive,
  \* history: the executions whose record this service process could not read or complete, those
  \* whose verdict it could not write, those whose spark-ui.json could not be removed, and of
  \* these the ones whose cancellation was lost in that error
  lostRecords, lostVerdicts, stuck, revived

service == <<startup, todo, closed, cancelled>>
control == <<state, request>>
executor == <<processes, cancellations, child>>
leases == <<available, lease>>
history == <<lostRecords, lostVerdicts, stuck, revived>>
past == <<session, used, history>>
upload == <<attempt, payload, late, archive, outbox>>
files == <<journal, uiFile, stdout, publication>>
executionVars == <<session, phase, starts, startup, todo, closed, pc, cancelled, result, control, leases,
                   executor, upload, used, journal, uiFile, stdout, publication, history>>

bootstrap == session.bootstrap
logUri == session.logUri

NoFile == -1       \* a log that does not exist
Bytes(size) == IF size = NoFile THEN 0 ELSE size

Phases == {"down", "recover", "provision", "serving", "draining", "overdue", "stopping", "closing", "closed"}
Resources == {"scheduler", "executor", "publisher", "artifacts"}
RunnerPoints == {"begin", "prepare", "spawn", "register", "wait", "stop", "timeout", "cancelstop",
                 "cleanup", "complete"}
PublishPoints == {"payload", "put", "backoff", "record", "giveup", "settle"}
Results == {"none", "ok", "failed", "error", "cancelled"}
Verdicts == {"none", "published", "failed", "skipped"}
StepStates == {"ABSENT", "RUNNING", "CANCEL_PENDING", "COMPLETED", "FAILED", "CANCELLED", "INTERRUPTED"}
JournalStates == {"none", "running", "completed", "failed", "cancelled", "interrupted"}
OutboxStates == {"none", "publishing", "retrying", "failed", "published"}

Idle(value) == [e \in Executions |-> value]
Records == {e \in Executions : journal[e] # "none"}
Alive(e) == child[e] \in {"running", "stopping"}
Signalled(e) == [child EXCEPT ![e] = IF Alive(e) THEN "stopping" ELSE @]
\* A document is written aside and moved into its place: a reader sees the old or the new one.
Written(file, e, value) == [file EXCEPT ![e] = value]
MayFail(failure) == failure \in session.failing
\* _write_json and _write_record swallow an error: the document stays what it was.
Attempted(file, e, value, failure) ==
  {Written(file, e, value)} \cup (IF MayFail(failure) THEN {file} ELSE {})
PublicationComplete(e) == publication[e] \in {"published", "skipped"}
Running == {e \in Executions : pc[e] # "none"}
-----------------------------------------------------------------------------
(* The service: create_app, EmrRuntime.start and the recovery. *)

\* What create_app builds: nothing of an earlier process is in memory.
FreshMemory ==
  /\ closed' = {} /\ cancelled' = {} /\ late' = {}
  /\ processes' = {} /\ cancellations' = {} /\ available' = Ports
  /\ pc' = Idle("none") /\ result' = Idle("none") /\ state' = Idle("ABSENT")
  /\ request' = Idle("none") /\ lease' = Idle(NoPort)
  /\ attempt' = Idle(0) /\ payload' = Idle(0)
  /\ lostVerdicts' = {} /\ UNCHANGED <<stuck, revived>>

ExecutionInit ==
  /\ session \in Sessions
  /\ phase = "down" /\ starts = 0 /\ startup = {} /\ todo = {}
  /\ closed = {} /\ cancelled = {} /\ late = {}
  /\ processes = {} /\ cancellations = {} /\ available = Ports
  /\ pc = Idle("none") /\ result = Idle("none") /\ state = Idle("ABSENT")
  /\ request = Idle("none") /\ lease = Idle(NoPort)
  /\ attempt = Idle(0) /\ payload = Idle(0)
  /\ child = Idle("none") /\ used = {}
  /\ journal = Idle("none") /\ uiFile = Idle(NoPort) /\ stdout = Idle(NoFile)
  /\ outbox = Idle("none") /\ publication = Idle("none") /\ archive = Idle(NoFile)
  /\ lostRecords = {} /\ lostVerdicts = {} /\ stuck = {} /\ revived = {}

\* records(): a record that cannot be read is left out.
ReadableRecords == IF MayFail("read") THEN SUBSET Records ELSE {Records}

\* A start-up plan that is refused keeps the server from being exposed.
Start ==
  /\ phase = "down" /\ starts < session.maxStarts
  /\ starts' = starts + 1
  /\ phase' = "recover"
  /\ FreshMemory
  /\ todo' \in ReadableRecords
  /\ lostRecords' = Records \ todo'
  /\ \E plan \in LoadedPlans :
       startup' \in {S \in SUBSET (session.executions \ used) : Cardinality(S) = Len(plan)}
  /\ UNCHANGED <<session, used, child, files, outbox, archive>>

\* What publish does before it suspends: without a LogUri, or after close, it
\* goes straight to its record.
PublishEntry(e) ==
  IF e \in logUri /\ "publisher" \notin closed THEN "payload" ELSE "record"

PublishVerdict(e) ==
  IF e \notin logUri THEN "skipped" ELSE IF "publisher" \in closed THEN "failed" ELSE "published"

Mut_RecoversInterruptedOnly(e) == e \in logUri /\ journal[e] = "running"

\* Whether recover() publishes the log of a record again
PublishesAgain(e) == e \in logUri /\ ~PublicationComplete(e)

\* A verdict that cannot be read counts as none.
PublicationChoices(e) == {PublishesAgain(e)} \cup (IF MayFail("read") THEN {e \in logUri} ELSE {})

\* recover(): one record.  An interrupted run without LogUri is not published.  A write that
\* fails here, or the removal of an expired run, ends the start of the service (BeginClose).
RecoverRecord(e) ==
  /\ phase = "recover" /\ e \in todo /\ Running = {}
  /\ journal' = [journal EXCEPT ![e] = IF @ = "running" THEN "interrupted" ELSE @]
  /\ \E again \in PublicationChoices(e) :
       IF again
         THEN pc' = [pc EXCEPT ![e] = PublishEntry(e)] /\ UNCHANGED todo
         ELSE todo' = todo \ {e} /\ UNCHANGED pc
  /\ UNCHANGED <<past, phase, starts, startup, closed, cancelled, result, control, leases,
                 executor, upload, uiFile, stdout, publication>>

\* _remove_expired: the runs past the cutoff, whose time the model leaves open
RemoveExpired(gone) ==
  /\ gone \subseteq {e \in Records : journal[e] # "running" /\ PublicationComplete(e)}
  /\ journal' = [e \in Executions |-> IF e \in gone THEN "none" ELSE journal[e]]
  /\ stdout' = [e \in Executions |-> IF e \in gone THEN NoFile ELSE stdout[e]]
  /\ uiFile' = [e \in Executions |-> IF e \in gone THEN NoPort ELSE uiFile[e]]
  /\ outbox' = [e \in Executions |-> IF e \in gone THEN "none" ELSE outbox[e]]
  /\ publication' = [e \in Executions |-> IF e \in gone THEN "none" ELSE publication[e]]

FinishRecovery ==
  /\ phase = "recover" /\ todo = {} /\ Running = {}
  /\ phase' = "provision"
  /\ \E gone \in SUBSET Executions : RemoveExpired(gone)
  /\ UNCHANGED <<past, starts, service, pc, result, control, leases, executor, attempt, payload,
                 late, archive>>

\* The tasks of the executions of new start.
StartTasks(new) ==
  /\ used' = used \cup new
  /\ pc' = [e \in Executions |->
              IF e \notin new THEN pc[e] ELSE IF e \in bootstrap THEN "prepare" ELSE "begin"]
  /\ state' = [e \in Executions |-> IF e \in new \ bootstrap THEN "RUNNING" ELSE state[e]]

\* scheduler.schedule for the executions of new
Schedule(new) ==
  /\ "scheduler" \notin closed
  /\ StartTasks(new)

\* The start-up clusters go through the ordinary create_cluster use case.
Provision ==
  /\ phase = "provision"
  /\ phase' = "serving"
  /\ Schedule(startup)
  /\ UNCHANGED <<session, history, starts, service, result, request, leases, executor, upload, files>>

\* RunJobFlow or AddSteps, seen from the runner
Submit(e) ==
  /\ phase = "serving" /\ e \in session.executions \ used
  /\ Schedule({e})
  /\ UNCHANGED <<session, history, phase, starts, service, result, request, leases, executor, upload,
                 files>>
-----------------------------------------------------------------------------
(* The runner of one execution. *)

\* journal.begin, then the lease, in the same segment as the first await of _command
JournalBegin(e) ==
  /\ pc[e] = "begin" /\ e \notin cancelled
  /\ journal' = Written(journal, e, "running")
  /\ \/ /\ available = {}
        /\ pc' = [pc EXCEPT ![e] = "complete"]
        /\ result' = [result EXCEPT ![e] = "error"]
        /\ UNCHANGED leases
     \/ \E port \in available :
          /\ available' = available \ {port}
          /\ lease' = [lease EXCEPT ![e] = port]
          /\ pc' = [pc EXCEPT ![e] = "prepare"]
          /\ UNCHANGED result
  /\ UNCHANGED <<past, phase, starts, service, control, executor, upload, uiFile, stdout,
                 publication>>

\* Nothing is prepared without a record; _complete_execution will try to write one.
BeginFails(e) ==
  /\ pc[e] = "begin" /\ e \notin cancelled /\ MayFail("journal")
  /\ pc' = [pc EXCEPT ![e] = "complete"]
  /\ result' = [result EXCEPT ![e] = "error"]
  /\ UNCHANGED <<past, phase, starts, service, control, leases, executor, upload, files>>

\* Materialize, record the command, write spark-ui.json; a bootstrap only materializes.
PreparationFails(e) ==
  /\ pc[e] = "prepare" /\ e \notin cancelled
  /\ result' = [result EXCEPT ![e] = "error"]
  /\ pc' = [pc EXCEPT ![e] = IF e \in bootstrap THEN "none" ELSE "cleanup"]
  /\ UNCHANGED <<past, phase, starts, service, control, leases, executor, upload, files>>

\* What S3ArtifactStore fetches before it is closed; a fetch may still fail (PreparationFails).
Fetches == "artifacts" \notin closed

Prepare(e) ==
  /\ pc[e] = "prepare" /\ e \notin cancelled
  /\ Fetches /\ "executor" \notin closed
  /\ e \notin bootstrap => \E config \in StepConfigs : Command(config) # Refused
  /\ uiFile' = [uiFile EXCEPT ![e] = lease[e]]
  /\ pc' = [pc EXCEPT ![e] = "spawn"]
  /\ UNCHANGED <<past, phase, starts, service, result, control, leases, executor, upload, journal,
                 stdout, publication>>

\* create_subprocess_exec: the child runs before its task resumes, or never does.
Spawn(e) ==
  /\ pc[e] = "spawn" /\ e \notin cancelled
  /\ stdout' = [stdout EXCEPT ![e] = 0]
  /\ \/ child' = [child EXCEPT ![e] = "running"] /\ pc' = [pc EXCEPT ![e] = "register"]
        /\ UNCHANGED result
     \/ result' = [result EXCEPT ![e] = "error"]
        /\ pc' = [pc EXCEPT ![e] = IF e \in bootstrap THEN "none" ELSE "cleanup"]
        /\ UNCHANGED child
  /\ UNCHANGED <<past, phase, starts, service, control, leases, processes, cancellations, upload,
                 journal, uiFile, publication>>

\* A cancellation that came before the child did is applied as it is registered.
Register(e) ==
  /\ pc[e] = "register" /\ e \notin cancelled
  /\ processes' = processes \cup {e}
  /\ cancellations' = cancellations \ {e}
  /\ LET stopped == e \in cancellations \/ "executor" \in closed
     IN /\ pc' = [pc EXCEPT ![e] = IF stopped THEN "stop" ELSE "wait"]
        /\ child' = IF stopped THEN Signalled(e) ELSE child
  /\ UNCHANGED <<past, phase, starts, service, result, control, leases, upload, files>>

\* process_timeout_seconds or bootstrap_timeout_seconds has passed.
ProcessTimeout(e) ==
  /\ pc[e] = "wait" /\ e \notin cancelled /\ Alive(e)
  /\ pc' = [pc EXCEPT ![e] = "timeout"]
  /\ child' = Signalled(e)
  /\ UNCHANGED <<past, phase, starts, service, result, control, leases, processes, cancellations,
                 upload, files>>

Unregister(e) ==
  /\ processes' = processes \ {e}
  /\ cancellations' = cancellations \ {e}

\* execute returns: -1 after a timeout, the child's exit code otherwise.
ProcessReturns(e) ==
  /\ pc[e] \in {"wait", "stop", "timeout"} /\ e \notin cancelled /\ child[e] = "exited"
  /\ \E outcome \in IF pc[e] = "timeout" THEN {"failed"} ELSE {"ok", "failed"} :
       result' = [result EXCEPT ![e] = outcome]
  /\ pc' = [pc EXCEPT ![e] = IF e \in bootstrap THEN "none" ELSE "cleanup"]
  /\ Unregister(e)
  /\ UNCHANGED <<past, phase, starts, service, control, leases, upload, child, files>>

Mut_ReleasesOnSuccess(e) ==
  /\ uiFile' = [uiFile EXCEPT ![e] = NoPort]
  /\ IF result[e] = "error"
       THEN UNCHANGED leases
       ELSE /\ available' = available \cup ({lease[e]} \ {NoPort})
            /\ lease' = [lease EXCEPT ![e] = NoPort]

\* The finally block of run: spark-ui.json first, then the lease.
ReleaseUi(e) ==
  /\ uiFile' = [uiFile EXCEPT ![e] = NoPort]
  /\ available' = available \cup ({lease[e]} \ {NoPort})
  /\ lease' = [lease EXCEPT ![e] = NoPort]

Cleanup(e) ==
  /\ pc[e] = "cleanup" /\ e \notin cancelled
  /\ ReleaseUi(e)
  /\ pc' = [pc EXCEPT ![e] = IF result[e] = "cancelled" THEN "none" ELSE "complete"]
  /\ UNCHANGED <<past, phase, starts, service, result, control, executor, upload, journal, stdout,
                 publication>>

\* The error of the unlink replaces whatever run was ending with, a CancelledError too, and
\* skips the release: the port stays leased to nobody, and run goes on to complete the record.
CleanupFails(e) ==
  /\ pc[e] = "cleanup" /\ e \notin cancelled /\ MayFail("unlink")
  /\ pc' = [pc EXCEPT ![e] = "complete"]
  /\ result' = [result EXCEPT ![e] = "error"]
  /\ stuck' = stuck \cup {e}
  /\ revived' = IF result[e] = "cancelled" THEN revived \cup {e} ELSE revived
  /\ UNCHANGED <<session, used, lostRecords, lostVerdicts, phase, starts, service, control, leases,
                 executor, upload, files>>

\* journal.complete looks at the copy of the step the driver passed, taken at
\* its start: RUNNING, whatever a client has asked for since.
CompletedState(copy, outcome) ==
  IF copy = "CANCEL_PENDING" THEN "cancelled" ELSE IF outcome = "ok" THEN "completed" ELSE "failed"

JournalComplete(e) ==
  /\ pc[e] = "complete" /\ e \notin cancelled
  /\ journal' = Written(journal, e, CompletedState("RUNNING", result[e]))
  /\ pc' = [pc EXCEPT ![e] = PublishEntry(e)]
  /\ UNCHANGED <<past, phase, starts, service, result, control, leases, executor, upload, uiFile,
                 stdout, publication>>
-----------------------------------------------------------------------------
(* S3StepLogPublisher.publish, on the runner's task or in recover(). *)

ReadPayload(e) ==
  /\ pc[e] = "payload" /\ e \notin cancelled
  /\ payload' = [payload EXCEPT ![e] = Bytes(stdout[e])]
  /\ attempt' = [attempt EXCEPT ![e] = 1]
  /\ outbox' \in Attempted(outbox, e, "publishing", "outbox")
  /\ pc' = [pc EXCEPT ![e] = "put"]
  /\ UNCHANGED <<past, phase, starts, service, result, control, leases, executor, late, files,
                 archive>>

\* The LogUri is malformed, or a log cannot be read.
PayloadFails(e) ==
  /\ pc[e] = "payload" /\ e \notin cancelled
  /\ pc' = [pc EXCEPT ![e] = "giveup"]
  /\ UNCHANGED <<past, phase, starts, service, result, control, leases, executor, upload, files>>

PutSucceeds(e) ==
  /\ pc[e] = "put" /\ e \notin cancelled
  /\ archive' = [archive EXCEPT ![e] = payload[e]]
  /\ pc' = [pc EXCEPT ![e] = "record"]
  /\ UNCHANGED <<past, phase, starts, service, result, control, leases, executor, attempt, payload,
                 late, files, outbox>>

RetriesLeft(e) == attempt[e] < session.maxAttempts

\* An object is refused or its attempt timed out, and then its thread goes on.
PutFails(e) ==
  /\ pc[e] = "put" /\ e \notin cancelled
  /\ late' \in {late, late \cup {e}}
  /\ IF RetriesLeft(e)
       THEN /\ pc' = [pc EXCEPT ![e] = "backoff"]
            /\ outbox' \in Attempted(outbox, e, "retrying", "outbox")
       ELSE /\ pc' = [pc EXCEPT ![e] = "giveup"]
            /\ outbox' \in Attempted(outbox, e, "failed", "outbox")
  /\ UNCHANGED <<past, phase, starts, service, result, control, leases, executor, attempt, payload,
                 files, archive>>

LateUpload(e) ==
  /\ e \in late /\ phase # "down"
  /\ late' = late \ {e}
  /\ archive' = [archive EXCEPT ![e] = payload[e]]
  /\ UNCHANGED <<past, phase, starts, service, pc, result, control, leases, executor, attempt,
                 payload, files, outbox>>

Retry(e) ==
  /\ pc[e] = "backoff" /\ e \notin cancelled
  /\ attempt' = [attempt EXCEPT ![e] = @ + 1]
  /\ outbox' \in Attempted(outbox, e, "publishing", "outbox")
  /\ pc' = [pc EXCEPT ![e] = "put"]
  /\ UNCHANGED <<past, phase, starts, service, result, control, leases, executor, payload, late,
                 files, archive>>

\* The driver, after run has returned: only a RUNNING step takes the result.
StepEnd(e) ==
  CASE state[e] = "CANCEL_PENDING" -> "CANCELLED"
    [] state[e] = "RUNNING" -> IF result[e] = "ok" THEN "COMPLETED" ELSE "FAILED"
    [] OTHER -> state[e]

\* The task ends, and what it knew with it.
TaskEnds(e) ==
  /\ pc' = [pc EXCEPT ![e] = "none"]
  /\ result' = [result EXCEPT ![e] = "none"]

PublishReturns(e) ==
  /\ TaskEnds(e)
  /\ IF phase = "recover"
       THEN todo' = todo \ {e} /\ UNCHANGED state
       ELSE state' = [state EXCEPT ![e] = StepEnd(e)] /\ UNCHANGED todo

\* _complete_execution swallows the error of a record that cannot be written; nothing is published.
CompleteFails(e) ==
  /\ pc[e] = "complete" /\ e \notin cancelled /\ MayFail("journal")
  /\ TaskEnds(e)
  /\ state' = [state EXCEPT ![e] = StepEnd(e)]
  /\ lostRecords' = lostRecords \cup {e}
  /\ UNCHANGED <<session, used, lostVerdicts, stuck, revived, phase, starts, service, request, leases,
                 executor, upload, files>>

Mut_VerdictOfLastPut(e) == PublishVerdict(e)

\* What publish comes to: an exception is a failure, whatever it was
Verdict(e) == IF pc[e] = "giveup" THEN "failed" ELSE PublishVerdict(e)

\* log-publication.json.  Its error is swallowed and publish goes on as if it were written; the
\* outbox of a published log follows.
WriteRecord(e) ==
  /\ pc[e] \in {"record", "giveup"} /\ e \notin cancelled
  /\ publication' \in Attempted(publication, e, Verdict(e), "verdict")
  /\ lostVerdicts' = IF publication'[e] = Verdict(e) THEN lostVerdicts ELSE lostVerdicts \cup {e}
  /\ IF Verdict(e) = "published"
       THEN pc' = [pc EXCEPT ![e] = "settle"] /\ UNCHANGED <<todo, state, result>>
       ELSE PublishReturns(e)
  /\ UNCHANGED <<session, used, lostRecords, stuck, revived, phase, starts, startup, closed,
                 cancelled, request, leases, executor, upload, journal, uiFile, stdout>>

Settle(e) ==
  /\ pc[e] = "settle" /\ e \notin cancelled
  /\ outbox' \in Attempted(outbox, e, "published", "outbox")
  /\ PublishReturns(e)
  /\ UNCHANGED <<past, phase, starts, startup, closed, cancelled, request, leases, executor,
                 attempt, payload, late, files, archive>>
-----------------------------------------------------------------------------
(* Client requests that stop a child, and the children themselves. *)

\* LocalProcessExecutor.cancel up to its first suspension
ExecutorCancel(e) ==
  IF e \in processes
    THEN child' = Signalled(e) /\ UNCHANGED cancellations
    ELSE /\ cancellations' = IF "executor" \in closed THEN cancellations ELSE cancellations \cup {e}
         /\ UNCHANGED child

TerminatedState(e) == IF state[e] = "RUNNING" THEN "INTERRUPTED" ELSE "CANCELLED"

CancelStep(e) ==
  /\ phase = "serving" /\ "cancel" \in session.requests
  /\ state[e] = "RUNNING" /\ e \notin bootstrap /\ request[e] = "none"
  /\ state' = [state EXCEPT ![e] = "CANCEL_PENDING"]
  /\ request' = [request EXCEPT ![e] = IF e \in processes THEN "cancel" ELSE "none"]
  /\ ExecutorCancel(e)
  /\ UNCHANGED <<past, phase, starts, service, pc, result, leases, processes, upload, files>>

TerminateJobFlow(e) ==
  /\ phase = "serving" /\ "terminate" \in session.requests
  /\ state[e] \in {"RUNNING", "CANCEL_PENDING"} /\ e \notin bootstrap
  /\ request[e] = "none"
  /\ ExecutorCancel(e)
  /\ IF e \in processes
       THEN request' = [request EXCEPT ![e] = "terminate"] /\ UNCHANGED state
       ELSE state' = [state EXCEPT ![e] = TerminatedState(e)] /\ UNCHANGED request
  /\ UNCHANGED <<past, phase, starts, service, pc, result, leases, processes, upload, files>>

\* The stopped child has exited: cancel returns and the request goes on.
RequestReturns(e) ==
  /\ request[e] # "none" /\ child[e] = "exited"
  /\ request' = [request EXCEPT ![e] = "none"]
  /\ IF request[e] = "terminate" /\ state[e] \in {"RUNNING", "CANCEL_PENDING"}
       THEN state' = [state EXCEPT ![e] = TerminatedState(e)]
       ELSE UNCHANGED state
  /\ UNCHANGED <<past, phase, starts, service, pc, result, leases, executor, upload, files>>

ChildWrites(e) ==
  /\ Alive(e) /\ stdout[e] < session.maxOutput
  /\ stdout' = [stdout EXCEPT ![e] = @ + 1]
  /\ UNCHANGED <<past, phase, starts, service, pc, result, control, leases, executor, upload,
                 journal, uiFile, publication>>

ChildExits(e) ==
  /\ Alive(e)
  /\ child' = [child EXCEPT ![e] = "exited"]
  /\ UNCHANGED <<past, phase, starts, service, pc, result, control, leases, processes,
                 cancellations, upload, files>>

\* _stop: the grace has passed and somebody still waits for the child.
Kill(e) ==
  /\ Alive(e)
  /\ pc[e] \in {"stop", "timeout", "cancelstop"} \/ request[e] # "none"
     \/ (phase = "stopping" /\ e \in processes)
  /\ child' = [child EXCEPT ![e] = "exited"]
  /\ UNCHANGED <<past, phase, starts, service, pc, result, control, leases, processes,
                 cancellations, upload, files>>
-----------------------------------------------------------------------------
(* The ordered close, and the crash. *)

\* EmrRuntime.close: application.close reaches the scheduler, which cancels every task.
\* Requests have returned: the server closes after the last of them.
BeginClose ==
  /\ phase \in {"recover", "provision", "serving"}
  /\ \A e \in Executions : request[e] = "none"
  /\ phase' = "draining"
  /\ closed' = closed \cup {"scheduler"}
  /\ cancelled' = IF phase = "serving" THEN Running ELSE {}
  /\ pc' = IF phase = "serving" THEN pc ELSE Idle("none")
  /\ UNCHANGED <<past, starts, startup, todo, result, control, leases, executor, upload, files>>

\* Where a task goes that gets its CancelledError at the point it is suspended at.
CancelledAt(e) ==
  CASE pc[e] \in {"prepare", "spawn", "register", "stop", "timeout", "cancelstop"} ->
         IF e \in bootstrap THEN "none" ELSE "cleanup"
    [] pc[e] = "wait" -> "cancelstop"
    [] OTHER -> "none"

Mut_OwnerLeavesChild(e) ==
  /\ child' = IF pc[e] = "register" THEN [child EXCEPT ![e] = "exited"] ELSE child
  /\ IF pc[e] \in {"timeout", "cancelstop"} THEN Unregister(e) ELSE UNCHANGED <<processes, cancellations>>

\* asyncio kills a child whose creation is cancelled; a waiting owner stops its child.
CancelChild(e) ==
  /\ child' = CASE pc[e] = "register" -> [child EXCEPT ![e] = "exited"]
                [] pc[e] = "wait"     -> Signalled(e)
                [] OTHER              -> child
  /\ IF pc[e] \in {"timeout", "cancelstop"} THEN Unregister(e) ELSE UNCHANGED <<processes, cancellations>>

\* The thread that writes or removes a document is not cancelled: it may still do so.
CancelledWrite(e) ==
  /\ journal' \in {journal,
       CASE pc[e] = "begin" -> Written(journal, e, "running")
         [] pc[e] = "complete" -> Written(journal, e, CompletedState("RUNNING", result[e]))
         [] OTHER -> journal}
  /\ publication' \in {publication,
       IF pc[e] \in {"record", "giveup"}
         THEN Written(publication, e, Verdict(e))
         ELSE publication}
  /\ uiFile' \in {uiFile, IF pc[e] = "cleanup" THEN [uiFile EXCEPT ![e] = NoPort] ELSE uiFile}
  /\ late' = IF pc[e] = "put" THEN late \cup {e} ELSE late

DeliverCancellation(e) ==
  /\ e \in cancelled
  /\ cancelled' = cancelled \ {e}
  /\ result' = [result EXCEPT ![e] = "cancelled"]
  /\ pc' = [pc EXCEPT ![e] = CancelledAt(e)]
  /\ CancelChild(e)
  /\ CancelledWrite(e)
  /\ UNCHANGED <<past, phase, starts, startup, todo, closed, control, leases, attempt, payload,
                 stdout, outbox, archive>>

\* The stop of a cancelled owner ends: execute raises.
CancelStopEnds(e) ==
  /\ pc[e] = "cancelstop" /\ e \notin cancelled /\ child[e] = "exited"
  /\ pc' = [pc EXCEPT ![e] = IF e \in bootstrap THEN "none" ELSE "cleanup"]
  /\ Unregister(e)
  /\ UNCHANGED <<past, phase, starts, service, result, control, leases, upload, child, files>>

\* A driver whose CancelledError was lost in an unlink starts its next step, during the close.
\* Which step is next, and of which cluster, EmrCluster says; here it is any that is left.
DriverGoesOn(e) ==
  /\ phase \in {"draining", "overdue"}
  /\ \E f \in revived : state[f] \in {"FAILED", "CANCELLED"}
  /\ e \in session.executions \ (used \cup bootstrap)
  /\ StartTasks({e})
  /\ UNCHANGED <<session, history, phase, starts, service, result, request, leases, executor, upload,
                 files>>

\* wait_for cancels the gather, and with it every task that is left, once more.
ShutdownTimeout ==
  /\ phase = "draining" /\ Running # {}
  /\ phase' = "overdue"
  /\ cancelled' = Running
  /\ UNCHANGED <<past, starts, startup, todo, closed, pc, result, control, leases, executor,
                 upload, files>>

\* LocalProcessExecutor.close: no child is accepted any more; the registered ones are stopped.
CloseExecutor ==
  /\ phase \in {"draining", "overdue"} /\ Running = {}
  /\ phase' = "stopping"
  /\ closed' = closed \cup {"executor"}
  /\ cancellations' = {}
  /\ child' = [e \in Executions |-> IF e \in processes /\ Alive(e) THEN "stopping" ELSE child[e]]
  /\ UNCHANGED <<past, starts, startup, todo, pc, cancelled, result, control, leases, processes,
                 upload, files>>

ExecutorClosed ==
  /\ phase = "stopping" /\ \A e \in processes : child[e] = "exited"
  /\ phase' = "closing"
  /\ processes' = {}
  /\ UNCHANGED <<past, starts, service, pc, result, control, leases, cancellations, upload, child,
                 files>>

\* The log publisher and the artifact store; then the state is CLOSED.
CloseClients ==
  /\ phase = "closing"
  /\ phase' = "closed"
  /\ closed' = closed \cup {"publisher", "artifacts"}
  /\ UNCHANGED <<past, starts, startup, todo, pc, cancelled, result, control, leases, executor,
                 upload, files>>

\* The process ends, after close or in a crash at any point.
Down ==
  /\ phase # "down"
  /\ phase' = "down"
  /\ FreshMemory
  /\ todo' = {} /\ startup' = {} /\ lostRecords' = {}
  /\ child' = [e \in Executions |-> IF Alive(e) THEN "exited" ELSE child[e]]
  /\ UNCHANGED <<session, used, starts, files, outbox, archive>>
-----------------------------------------------------------------------------
Runner(e) ==
  \/ JournalBegin(e) \/ BeginFails(e) \/ PreparationFails(e) \/ Prepare(e) \/ Spawn(e)
  \/ Register(e) \/ ProcessTimeout(e) \/ ProcessReturns(e) \/ Cleanup(e) \/ CleanupFails(e)
  \/ JournalComplete(e) \/ CompleteFails(e)

Publisher(e) ==
  \/ ReadPayload(e) \/ PayloadFails(e) \/ PutSucceeds(e) \/ PutFails(e) \/ LateUpload(e) \/ Retry(e)
  \/ WriteRecord(e) \/ Settle(e)

ExecutionNext ==
  \/ Start \/ FinishRecovery \/ Provision
  \/ BeginClose \/ ShutdownTimeout \/ CloseExecutor \/ ExecutorClosed \/ CloseClients \/ Down
  \/ \E e \in Executions :
       \/ RecoverRecord(e) \/ Submit(e) \/ Runner(e) \/ Publisher(e)
       \/ CancelStep(e) \/ TerminateJobFlow(e) \/ RequestReturns(e)
       \/ ChildWrites(e) \/ ChildExits(e) \/ Kill(e)
       \/ DeliverCancellation(e) \/ CancelStopEnds(e) \/ DriverGoesOn(e)
=============================================================================
