---------------------------- MODULE EmrLogStream ----------------------------
(***************************************************************************)
(* A console follows the log of one execution while it runs, is cancelled, *)
(* is interrupted by a restart or is published: the management read model  *)
(* of a step (the live control plane first, the journal otherwise), the    *)
(* byte-offset chunks and the reconnectable event stream.                  *)
(*                                                                         *)
(* log_chunk suspends between its three reads, and it reads the state      *)
(* first, then the chunk, then the publication.  Bytes are counted, not    *)
(* shown; stdout and stderr are read by the same code, so one log stands   *)
(* for both.                                                               *)
(***************************************************************************)
EXTENDS EmrExecution

CONSTANTS
  Watched,       \* the execution the console follows
  ChunkLimit     \* live_chunk_bytes

ASSUME StreamAssumption == Watched \in Executions /\ ChunkLimit \in Nat \ {0}

VARIABLES
  at,            \* where EmrLogEventStream.events is
  offset,        \* stdout_offset of the stream
  seen,          \* the step state log_chunk has read
  chunk,         \* the bytes log_chunk has read
  eof,           \* whether they reach the end of the file
  received,      \* the console: bytes it has, which is the Last-Event-ID it sends
  ended,         \* the console: it was told that the log is complete
  early          \* history: the log was published, or the step ended, while its child may still write

streamVars == <<at, offset, seen, chunk, eof, received, ended, early>>

StreamPoints == {"closed", "identity", "chunk", "publication"}
ActiveStepStates == {"PENDING", "RUNNING", "CANCEL_PENDING"}

StreamInit ==
  /\ at = "closed" /\ offset = 0 /\ seen = "ABSENT" /\ chunk = 0 /\ eof = FALSE
  /\ received = 0 /\ ended = FALSE /\ early = FALSE

\* What the generator remembers from one read to the next, and after it is gone.
Forget ==
  /\ seen' = "ABSENT" /\ chunk' = 0 /\ eof' = FALSE

Disconnect == at' = "closed" /\ offset' = 0 /\ Forget

NextRead == at' = "identity" /\ Forget /\ UNCHANGED offset

\* offsets_from_last_event_id: the URL keeps the offset the page was opened with, 0.
ResumeOffset(requested, lastEventId) == IF lastEventId > requested THEN lastEventId ELSE requested

OpenStream ==
  /\ phase = "serving" /\ at = "closed" /\ ~ended /\ Watched \in session.executions
  /\ at' = "identity"
  /\ offset' = ResumeOffset(0, received)
  /\ UNCHANGED <<seen, chunk, eof, received, ended, early, executionVars>>

\* The console goes away, or the stream's timeout has passed.
CloseStream ==
  /\ at # "closed"
  /\ Disconnect
  /\ UNCHANGED <<received, ended, early, executionVars>>

RecoveredState(record) ==
  CASE record = "completed" -> "COMPLETED"
    [] record = "failed" -> "FAILED"
    [] record = "cancelled" -> "CANCELLED"
    [] OTHER -> "INTERRUPTED"

\* _identity; a step neither the control plane nor the journal knows is an error.
Identity(e) ==
  IF state[e] # "ABSENT" THEN state[e]
  ELSE IF journal[e] # "none" THEN RecoveredState(journal[e]) ELSE "ABSENT"

ReadIdentity ==
  /\ at = "identity"
  /\ IF Identity(Watched) = "ABSENT"
       THEN Disconnect
       ELSE /\ seen' = Identity(Watched)
            /\ at' = "chunk"
            /\ UNCHANGED <<offset, chunk, eof>>
  /\ UNCHANGED <<received, ended, early, executionVars>>

\* _chunk: a file that does not exist is at its end.
Chunk(size, from, limit) ==
  LET start == IF from < Bytes(size) THEN from ELSE Bytes(size)
      rest  == Bytes(size) - start
      count == IF rest < limit THEN rest ELSE limit
  IN IF size = NoFile
       THEN [bytes |-> 0, next |-> from, eof |-> TRUE]
       ELSE [bytes |-> count, next |-> start + count, eof |-> start + count >= Bytes(size)]

ReadChunk ==
  /\ at = "chunk"
  /\ LET read == Chunk(stdout[Watched], offset, ChunkLimit)
     IN chunk' = read.bytes /\ offset' = read.next /\ eof' = read.eof
  /\ at' = "publication"
  /\ UNCHANGED <<seen, received, ended, early, executionVars>>

Mut_CompleteBeforeEnd(status) == seen \notin ActiveStepStates /\ status # "none"

\* A record that is not there is pending.
Complete(status) == seen \notin ActiveStepStates /\ eof /\ status # "none"

\* An event may be lost with its connection; the console then reconnects.
SendEvent ==
  /\ at = "publication"
  /\ LET complete == Complete(publication[Watched])
         event == chunk > 0 \/ complete
     IN \/ /\ event
           /\ received' = offset
           /\ ended' = complete
           /\ IF complete THEN Disconnect ELSE NextRead
        \/ event /\ Disconnect /\ UNCHANGED <<received, ended>>
        \/ ~event /\ NextRead /\ UNCHANGED <<received, ended>>
  /\ UNCHANGED <<early, executionVars>>

Mut_UiOfAnyStep(e) == uiFile[e]

\* spark_ui_port: only of a running step that is not recovered
SparkUiPort(e) == IF state[e] = "RUNNING" THEN uiFile[e] ELSE NoPort

ExecutionStep ==
  /\ ExecutionNext
  /\ IF phase' = "down" THEN Disconnect ELSE UNCHANGED <<at, offset, seen, chunk, eof>>
  /\ early' = (early \/ Watched \in revived'
                     \/ /\ state'[Watched] # state[Watched] /\ pc'[Watched] # "none"
                        /\ state'[Watched] \in {"INTERRUPTED", "CANCELLED"})
  /\ UNCHANGED <<received, ended>>

LogInit == ExecutionInit /\ StreamInit

LogNext ==
  \/ ExecutionStep
  \/ OpenStream \/ CloseStream \/ ReadIdentity \/ ReadChunk \/ SendEvent
-----------------------------------------------------------------------------
\* The values the variables take, and the bounds of the model.
ExecutionTypeOK ==
  /\ phase \in Phases /\ starts \in 0 .. session.maxStarts
  /\ startup \subseteq Executions /\ todo \subseteq Executions
  /\ closed \subseteq Resources
  /\ pc \in [Executions -> {"none"} \cup RunnerPoints \cup PublishPoints]
  /\ cancelled \subseteq Executions /\ late \subseteq Executions
  /\ result \in [Executions -> Results]
  /\ state \in [Executions -> StepStates]
  /\ request \in [Executions -> {"none", "cancel", "terminate"}]
  /\ available \subseteq Ports
  /\ lease \in [Executions -> Ports \cup {NoPort}]
  /\ processes \subseteq Executions /\ cancellations \subseteq Executions
  /\ attempt \in [Executions -> 0 .. session.maxAttempts]
  /\ payload \in [Executions -> 0 .. session.maxOutput]
  /\ child \in [Executions -> {"none", "running", "stopping", "exited"}]
  /\ {used, lostRecords, lostVerdicts, stuck, revived} \subseteq SUBSET Executions
  /\ session \in Sessions
  /\ journal \in [Executions -> JournalStates]
  /\ uiFile \in [Executions -> Ports \cup {NoPort}]
  /\ stdout \in [Executions -> NoFile .. session.maxOutput]
  /\ outbox \in [Executions -> OutboxStates]
  /\ publication \in [Executions -> Verdicts]
  /\ archive \in [Executions -> NoFile .. session.maxOutput]
  /\ at \in StreamPoints /\ offset \in 0 .. session.maxOutput /\ received \in 0 .. session.maxOutput
  /\ seen \in StepStates /\ chunk \in 0 .. ChunkLimit /\ {eof, ended, early} \subseteq BOOLEAN

\* The route to a Spark UI leads to the port its own step leases, nobody else leases that port,
\* and while the service serves every port is available, leased by a task that has not ended, or
\* held by a step whose spark-ui.json could not be removed: that error alone, which run swallows
\* (runtime.py:573-575), keeps a port from coming back (SparkUiPortLeases, spark_ui_port).
UiPortsAreOwned ==
  /\ \A e \in Executions : SparkUiPort(e) # NoPort => lease[e] = SparkUiPort(e)
  /\ \A e, f \in Executions : e # f /\ lease[e] # NoPort => lease[f] # lease[e]
  /\ phase = "serving" => available = Ports \ {lease[e] : e \in Running \cup stuck}

\* After the ordered close every child that still runs was sent SIGTERM, wherever its task was
\* when the close cancelled it: before it was registered, while it waited, or in a stop
\* (EmrRuntime.close, LocalProcessExecutor.close and execute).
ShutdownSignalsEveryChild ==
  phase = "closed" => \A e \in Executions : child[e] # "running"

\* Wherever the service stopped or crashed between begin, the exit of the child, complete and
\* the publication, and whatever an earlier service could not write, once it has recovered no
\* record claims to run, and every record of a step with a LogUri has a verdict on its
\* publication.  Excepted are the records this service could not read or complete, and the
\* verdicts it could not write, which the code only logs (StepExecutionJournal.recover and
\* _read, _complete_execution, S3StepLogPublisher._write_record).
RecoveryLeavesNoLooseEnd ==
  phase \in {"provision", "serving"} =>
    \A e \in Records \ (Running \cup lostRecords) :
      /\ journal[e] # "running"
      /\ e \in logUri \ lostVerdicts => publication[e] # "none"

\* A publication that says it is published is the whole log, whatever attempt timed out and
\* went on in its thread, unless an unlink error swallowed the cancellation of the runner, which
\* then publishes while its child is still being stopped (S3StepLogPublisher.publish,
\* LocalSparkStepRunner.run).
PublishedLogIsWhole ==
  \A e \in Executions \ revived : publication[e] = "published" => archive[e] = Bytes(stdout[e])

\* A console that is told the log is complete has all of it, through reconnections, a restart
\* and retention, unless TerminateJobFlows ended the step while its runner was still at work, or
\* the runner's cancellation was swallowed (log_chunk, LogEventStream.events).
StreamEndsWithWholeLog ==
  ended /\ ~early => received = Bytes(stdout[Watched]) \/ journal[Watched] = "none"

LogSpec == LogInit /\ [][LogNext]_<<executionVars, streamVars>>
=============================================================================
