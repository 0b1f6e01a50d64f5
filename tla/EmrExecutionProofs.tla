------------------------- MODULE EmrExecutionProofs -------------------------
(***************************************************************************)
(* Proofs about EmrExecution and EmrLogStream for any executions, ports,   *)
(* sessions, watched execution and chunk size; and, after those, about     *)
(* EmrConsole for any clusters, steps, filters, page size and times.       *)
(***************************************************************************)
EXTENDS EmrLogStream, EmrConsole, FiniteSetTheorems, SequenceTheorems, WellFoundedInduction, TLAPS

\* The values of the execution's variables
ExecTyped ==
  /\ session \in Sessions
  /\ phase \in Phases /\ starts \in 0 .. session.maxStarts
  /\ startup \subseteq session.executions /\ todo \subseteq Executions
  /\ closed \subseteq Resources
  /\ pc \in [Executions -> {"none"} \cup RunnerPoints \cup PublishPoints]
  /\ cancelled \subseteq Executions /\ late \subseteq Executions
  /\ result \in [Executions -> Results]
  /\ state \in [Executions -> StepStates]
  /\ request \in [Executions -> {"none", "cancel", "terminate"}]
  /\ available \subseteq Ports
  /\ lease \in [Executions -> Ports \cup {NoPort}]
  /\ processes \subseteq Executions /\ cancellations \subseteq Executions
  /\ attempt \in [Executions -> 0 .. session.maxAttempts]
  /\ payload \in [Executions -> 0 .. session.maxOutput]
  /\ child \in [Executions -> {"none", "running", "stopping", "exited"}]
  /\ used \subseteq Executions
  /\ lostRecords \subseteq Executions /\ lostVerdicts \subseteq Executions
  /\ stuck \subseteq Executions /\ revived \subseteq Executions
  /\ journal \in [Executions -> JournalStates]
  /\ uiFile \in [Executions -> Ports \cup {NoPort}]
  /\ stdout \in [Executions -> NoFile .. session.maxOutput]
  /\ outbox \in [Executions -> OutboxStates]
  /\ publication \in [Executions -> Verdicts]
  /\ archive \in [Executions -> NoFile .. session.maxOutput]

\* Where the phases of the service leave an execution
PhaseOf(e) ==
  /\ phase \in {"down", "recover", "provision"} =>
       /\ state[e] = "ABSENT" /\ lease[e] = NoPort /\ ~Alive(e)
       /\ pc[e] = "none" \/ (phase = "recover" /\ pc[e] \in PublishPoints)
  /\ phase \in {"stopping", "closing", "closed"} => pc[e] = "none"
  /\ phase \in {"recover", "provision", "serving"} => e \notin cancelled /\ result[e] # "cancelled"
  /\ phase # "serving" => request[e] = "none"
  /\ phase \in {"recover", "provision"} /\ e \in startup => e \notin used
  /\ phase = "recover" =>
       /\ e \in todo => journal[e] # "none"
       /\ pc[e] # "none" => e \in todo

BootstrapPoints == {"none", "prepare", "spawn", "register", "wait", "stop", "timeout", "cancelstop"}

\* Nothing of the execution is left or was ever there.
Untouched(e) ==
  /\ pc[e] = "none" /\ state[e] = "ABSENT" /\ child[e] = "none" /\ journal[e] = "none"
  /\ uiFile[e] = NoPort /\ stdout[e] = NoFile /\ publication[e] = "none"

\* The task of the execution is over, or publishes; its child is gone, unless the task's
\* cancellation was lost.
AtRest(e) == (~Alive(e) \/ e \in revived) /\ pc[e] \in {"none"} \cup PublishPoints

\* The life of an execution: one task, one child, one journal record
Life(e) ==
  /\ e \notin used => Untouched(e)
  /\ pc[e] \in {"begin", "prepare", "spawn"} => child[e] = "none" /\ stdout[e] = NoFile
  /\ child[e] = "running" => pc[e] \in {"register", "wait"}
  /\ pc[e] = "cleanup" /\ result[e] # "cancelled" => ~Alive(e)
  /\ pc[e] \in {"complete"} \cup PublishPoints => ~Alive(e) \/ e \in revived
  /\ e \in bootstrap =>
       /\ pc[e] \in BootstrapPoints /\ journal[e] = "none" /\ state[e] = "ABSENT"
       /\ uiFile[e] = NoPort
  /\ publication[e] # "none" \/ e \in late => AtRest(e) /\ e \in used
  /\ pc[e] \in PublishPoints => journal[e] # "running" /\ (journal[e] = "none" => phase = "recover")
  /\ pc[e] \in RunnerPoints /\ state[e] = "ABSENT" => e \in bootstrap
  /\ state[e] = "ABSENT" /\ journal[e] # "none" => AtRest(e)
  /\ phase = "serving" /\ state[e] \in {"RUNNING", "CANCEL_PENDING"} => pc[e] # "none"

LeasePoints == {"prepare", "spawn", "register", "wait", "stop", "timeout", "cancelstop", "cleanup"}

\* A lease lives as long as its task, or as the file that could not be removed, and the file of
\* a running step names it.
PortOf(e) ==
  /\ lease[e] # NoPort =>
       /\ e \in used \ bootstrap /\ pc[e] # "begin"
       /\ phase = "serving" => pc[e] \in LeasePoints \/ e \in stuck
  /\ state[e] = "RUNNING" /\ uiFile[e] # NoPort => lease[e] = uiFile[e]

\* A record that is settled needs no recovery, or this service could not read or write it.
Settled(e) ==
  /\ e \in lostRecords \/ journal[e] # "running"
  /\ e \in logUri => publication[e] # "none" \/ e \in lostRecords \/ e \in lostVerdicts

RecordOf(e) ==
  /\ phase = "recover" =>
       /\ journal[e] # "none" /\ e \notin todo => Settled(e)
       /\ e \in todo => e \in logUri \/ pc[e] = "none"
  /\ phase = "provision" /\ journal[e] # "none" => Settled(e)
  /\ phase = "serving" /\ journal[e] # "none" /\ pc[e] = "none" => Settled(e)
  /\ pc[e] = "settle" => publication[e] = "published" \/ e \in lostVerdicts

\* Retention has removed the record: the execution never comes back.
Gone(e) ==
  /\ e \in used /\ journal[e] = "none" /\ pc[e] = "none" /\ state[e] = "ABSENT"
  /\ publication[e] = "none" /\ ~Alive(e)

Whole(e) == archive[e] = Bytes(stdout[e])

\* Whatever writes to the archive writes the whole log, but for a task whose cancellation was
\* lost, and an attempt is left after a backoff.
PublicationOf(e) ==
  /\ e \notin revived =>
       /\ publication[e] = "published" => Whole(e)
       /\ pc[e] \in {"put", "backoff"} => payload[e] = Bytes(stdout[e])
       /\ pc[e] = "record" /\ Verdict(e) = "published" => Whole(e)
       /\ e \in late => payload[e] = Bytes(stdout[e]) \/ Gone(e)
  /\ pc[e] = "backoff" => attempt[e] < session.maxAttempts

\* No two tasks lease one port, and a port is available or leased.
PortInv ==
  /\ \A e, f \in Executions : e # f /\ lease[e] # NoPort => lease[f] # lease[e]
  /\ available = Ports \ {lease[e] : e \in Executions}

OpenInv == phase \in {"recover", "provision", "serving"} => closed = {}

Execution(e) == PhaseOf(e) /\ Life(e) /\ PortOf(e) /\ RecordOf(e) /\ PublicationOf(e)

ExecInv == ExecTyped /\ OpenInv /\ PortInv /\ \A e \in Executions : Execution(e)
-----------------------------------------------------------------------------
\* A step of the service
ServiceStep ==
  \/ Start \/ FinishRecovery \/ Provision
  \/ BeginClose \/ ShutdownTimeout \/ CloseExecutor \/ ExecutorClosed \/ CloseClients \/ Down

\* A step of one execution's task, child or requests
LocalStep(e) ==
  \/ RecoverRecord(e) \/ Submit(e) \/ Runner(e) \/ Publisher(e)
  \/ CancelStep(e) \/ TerminateJobFlow(e) \/ RequestReturns(e)
  \/ ChildWrites(e) \/ ChildExits(e) \/ Kill(e)
  \/ DeliverCancellation(e) \/ CancelStopEnds(e) \/ DriverGoesOn(e)

\* The step leaves an execution as it is.
Same(f) ==
  /\ phase' = phase /\ closed' = closed /\ startup' = startup /\ session' = session
  /\ pc'[f] = pc[f] /\ result'[f] = result[f] /\ state'[f] = state[f] /\ request'[f] = request[f]
  /\ lease'[f] = lease[f] /\ attempt'[f] = attempt[f] /\ payload'[f] = payload[f]
  /\ child'[f] = child[f] /\ journal'[f] = journal[f] /\ uiFile'[f] = uiFile[f]
  /\ stdout'[f] = stdout[f] /\ outbox'[f] = outbox[f] /\ publication'[f] = publication[f]
  /\ archive'[f] = archive[f]
  /\ (f \in cancelled' <=> f \in cancelled) /\ (f \in used' <=> f \in used)
  /\ (f \in todo' <=> f \in todo) /\ (f \in late' <=> f \in late)
  /\ (f \in lostRecords' <=> f \in lostRecords) /\ (f \in lostVerdicts' <=> f \in lostVerdicts)
  /\ (f \in stuck' <=> f \in stuck) /\ (f \in revived' <=> f \in revived)

\* A step of one execution leaves every other as it is.
LEMMA LocalFrame ==
  ASSUME ExecTyped, NEW e \in Executions, LocalStep(e), NEW f \in Executions \ {e}
  PROVE  Same(f)
<1> USE DEF ExecTyped, Same, service, control, executor, leases, past, history, upload, files
<1>1. CASE RecoverRecord(e)
  BY <1>1 DEF RecoverRecord, PublishEntry, PublicationChoices
<1>2. CASE Submit(e)
  BY <1>2 DEF Submit, Schedule, StartTasks
<1>3. CASE JournalBegin(e)
  BY <1>3 DEF JournalBegin, Written
<1>4. CASE PreparationFails(e)
  BY <1>4 DEF PreparationFails
<1>5. CASE Prepare(e)
  BY <1>5 DEF Prepare
<1>6. CASE Spawn(e)
  BY <1>6 DEF Spawn
<1>7. CASE Register(e)
  BY <1>7 DEF Register, Signalled, Alive
<1>8. CASE ProcessTimeout(e)
  BY <1>8 DEF ProcessTimeout, Signalled, Alive
<1>9. CASE ProcessReturns(e)
  BY <1>9 DEF ProcessReturns, Unregister
<1>10. CASE Cleanup(e)
  BY <1>10 DEF Cleanup, ReleaseUi
<1>11. CASE JournalComplete(e)
  BY <1>11 DEF JournalComplete, Written, CompletedState, PublishEntry
<1>12. CASE ReadPayload(e)
  BY <1>12 DEF ReadPayload, Attempted, Written
<1>13. CASE PutSucceeds(e)
  BY <1>13 DEF PutSucceeds
<1>14. CASE PutFails(e)
  BY <1>14 DEF PutFails, Attempted, Written
<1>15. CASE LateUpload(e)
  BY <1>15 DEF LateUpload
<1>16. CASE Retry(e)
  BY <1>16 DEF Retry, Attempted, Written
<1>17. CASE WriteRecord(e)
  BY <1>17 DEF WriteRecord, Attempted, Written, PublishReturns, TaskEnds
<1>18. CASE Settle(e)
  BY <1>18 DEF Settle, Attempted, Written, PublishReturns, TaskEnds
<1>19. CASE CancelStep(e)
  BY <1>19 DEF CancelStep, ExecutorCancel, Signalled, Alive
<1>20. CASE TerminateJobFlow(e)
  BY <1>20 DEF TerminateJobFlow, ExecutorCancel, Signalled, Alive
<1>21. CASE RequestReturns(e)
  BY <1>21 DEF RequestReturns
<1>22. CASE ChildWrites(e)
  BY <1>22 DEF ChildWrites
<1>23. CASE ChildExits(e)
  BY <1>23 DEF ChildExits
<1>24. CASE Kill(e)
  BY <1>24 DEF Kill
<1>25. CASE DeliverCancellation(e)
  BY <1>25 DEF DeliverCancellation, CancelChild, CancelledWrite, Signalled, Unregister, Written
<1>26. CASE CancelStopEnds(e)
  BY <1>26 DEF CancelStopEnds, Unregister
<1>27. CASE BeginFails(e)
  BY <1>27 DEF BeginFails
<1>28. CASE CleanupFails(e)
  BY <1>28 DEF CleanupFails
<1>29. CASE CompleteFails(e)
  BY <1>29 DEF CompleteFails, TaskEnds
<1>30. CASE PayloadFails(e)
  BY <1>30 DEF PayloadFails
<1>31. CASE DriverGoesOn(e)
  BY <1>31 DEF DriverGoesOn, StartTasks
<1> QED BY <1>1, <1>2, <1>3, <1>4, <1>5, <1>6, <1>7, <1>8, <1>9, <1>10, <1>11, <1>12, <1>13, <1>14,
  <1>15, <1>16, <1>17, <1>18, <1>19, <1>20, <1>21, <1>22, <1>23, <1>24, <1>25, <1>26, <1>27, <1>28,
  <1>29, <1>30, <1>31 DEF LocalStep, Runner, Publisher

\* What an execution's step writes has its type.
LEMMA LocalTyped ==
  ASSUME ExecTyped, NEW e \in Executions, PublicationOf(e), LocalStep(e)
  PROVE  ExecTyped'
<1> USE ExecutionAssumption DEF ExecTyped, service, control, executor, leases, past, history,
  upload, files,
  Phases, Resources, RunnerPoints, PublishPoints, Results, Verdicts, StepStates, JournalStates,
  OutboxStates, NoFile, Bytes
<1>1. CASE RecoverRecord(e)
  BY <1>1 DEF RecoverRecord, PublishEntry, PublicationChoices
<1>2. CASE Submit(e)
  BY <1>2 DEF Submit, Schedule, StartTasks, bootstrap
<1>3. CASE JournalBegin(e)
  BY <1>3 DEF JournalBegin, Written
<1>4. CASE PreparationFails(e)
  BY <1>4 DEF PreparationFails
<1>5. CASE Prepare(e)
  BY <1>5 DEF Prepare
<1>6. CASE Spawn(e)
  BY <1>6 DEF Spawn
<1>7. CASE Register(e)
  BY <1>7 DEF Register, Signalled, Alive
<1>8. CASE ProcessTimeout(e)
  BY <1>8 DEF ProcessTimeout, Signalled, Alive
<1>9. CASE ProcessReturns(e)
  BY <1>9 DEF ProcessReturns, Unregister
<1>10. CASE Cleanup(e)
  BY <1>10 DEF Cleanup, ReleaseUi
<1>11. CASE JournalComplete(e)
  BY <1>11 DEF JournalComplete, Written, CompletedState, PublishEntry
<1>12. CASE ReadPayload(e)
  BY <1>12 DEF ReadPayload, Attempted, Written
<1>13. CASE PutSucceeds(e)
  BY <1>13 DEF PutSucceeds
<1>14. CASE PutFails(e)
  BY <1>14 DEF PutFails, Attempted, Written
<1>15. CASE LateUpload(e)
  BY <1>15 DEF LateUpload
<1>16. CASE Retry(e)
  BY <1>16 DEF Retry, Attempted, Written, PublicationOf
<1>17. CASE WriteRecord(e)
  BY <1>17 DEF WriteRecord, Attempted, Written, PublishReturns, TaskEnds, Verdict, PublishVerdict,
    StepEnd
<1>18. CASE Settle(e)
  BY <1>18 DEF Settle, Attempted, Written, PublishReturns, TaskEnds, StepEnd
<1>19. CASE CancelStep(e)
  BY <1>19 DEF CancelStep, ExecutorCancel, Signalled, Alive
<1>20. CASE TerminateJobFlow(e)
  BY <1>20 DEF TerminateJobFlow, ExecutorCancel, Signalled, Alive, TerminatedState
<1>21. CASE RequestReturns(e)
  BY <1>21 DEF RequestReturns, TerminatedState
<1>22. CASE ChildWrites(e)
  BY <1>22 DEF ChildWrites
<1>23. CASE ChildExits(e)
  BY <1>23 DEF ChildExits
<1>24. CASE Kill(e)
  BY <1>24 DEF Kill
<1>25. CASE DeliverCancellation(e)
  BY <1>25 DEF DeliverCancellation, CancelChild, CancelledWrite, Signalled, Unregister, Written,
    Verdict, PublishVerdict, CompletedState, CancelledAt
<1>26. CASE CancelStopEnds(e)
  BY <1>26 DEF CancelStopEnds, Unregister
<1>27. CASE BeginFails(e)
  BY <1>27 DEF BeginFails
<1>28. CASE CleanupFails(e)
  BY <1>28 DEF CleanupFails
<1>29. CASE CompleteFails(e)
  BY <1>29 DEF CompleteFails, TaskEnds, StepEnd
<1>30. CASE PayloadFails(e)
  BY <1>30 DEF PayloadFails
<1>31. CASE DriverGoesOn(e)
  BY <1>31 DEF DriverGoesOn, StartTasks, bootstrap
<1> QED BY <1>1, <1>2, <1>3, <1>4, <1>5, <1>6, <1>7, <1>8, <1>9, <1>10, <1>11, <1>12, <1>13, <1>14,
  <1>15, <1>16, <1>17, <1>18, <1>19, <1>20, <1>21, <1>22, <1>23, <1>24, <1>25, <1>26, <1>27, <1>28,
  <1>29, <1>30, <1>31 DEF LocalStep, Runner, Publisher

\* So does what a step of the whole service writes.
LEMMA ServiceTyped ==
  ASSUME ExecTyped, ServiceStep
  PROVE  ExecTyped'
<1> USE ExecutionAssumption DEF ExecTyped, service, control, executor, leases, past, history,
  upload, files,
  Phases, Resources, RunnerPoints, PublishPoints, Results, Verdicts, StepStates, JournalStates,
  OutboxStates, NoFile, Bytes
<1>1. CASE Start
  BY <1>1 DEF Start, FreshMemory, Idle, Records, ReadableRecords
<1>2. CASE FinishRecovery
  BY <1>2 DEF FinishRecovery, RemoveExpired
<1>3. CASE Provision
  BY <1>3 DEF Provision, Schedule, StartTasks, bootstrap
<1>4. CASE BeginClose
  BY <1>4 DEF BeginClose, Idle, Running
<1>5. CASE ShutdownTimeout
  BY <1>5 DEF ShutdownTimeout, Running
<1>6. CASE CloseExecutor
  BY <1>6 DEF CloseExecutor
<1>7. CASE ExecutorClosed
  BY <1>7 DEF ExecutorClosed
<1>8. CASE CloseClients
  BY <1>8 DEF CloseClients
<1>9. CASE Down
  BY <1>9 DEF Down, FreshMemory, Idle
<1> QED BY <1>1, <1>2, <1>3, <1>4, <1>5, <1>6, <1>7, <1>8, <1>9 DEF ServiceStep

\* What holds of an execution the step leaves alone still holds.
LEMMA OthersKept ==
  ASSUME NEW f \in Executions, Execution(f), Same(f)
  PROVE  Execution(f)'
<1> USE DEF Execution, Same, bootstrap, logUri
<1>1. PhaseOf(f)'
  BY DEF PhaseOf, Alive
<1>2. Life(f)'
  BY DEF Life, Untouched, AtRest, Alive
<1>3. PortOf(f)'
  BY DEF PortOf
<1>4. RecordOf(f)'
  BY DEF RecordOf, Settled
<1>5. PublicationOf(f)'
  BY DEF PublicationOf, Whole, Verdict, PublishVerdict, Gone, Alive
<1> QED BY <1>1, <1>2, <1>3, <1>4, <1>5

\* A step of an execution keeps it where the phase leaves it.
LEMMA PhaseOfKept ==
  ASSUME ExecTyped, OpenInv, NEW e \in Executions, Execution(e), LocalStep(e)
  PROVE  PhaseOf(e)'
<1> USE ExecutionAssumption DEF ExecTyped, OpenInv, Execution, PhaseOf, Alive, PublishPoints,
  service, control, executor, leases, past, history, upload, files, NoFile, Bytes
<1>1. CASE RecoverRecord(e)
  BY <1>1 DEF RecoverRecord, PublishEntry, PublicationChoices, PublishesAgain,
    PublicationComplete, logUri, Running
<1>2. CASE Submit(e)
  BY <1>2 DEF Submit, Schedule, StartTasks, bootstrap
<1>3. CASE JournalBegin(e)
  BY <1>3 DEF JournalBegin, Written
<1>4. CASE PreparationFails(e)
  BY <1>4 DEF PreparationFails, bootstrap
<1>5. CASE Prepare(e)
  BY <1>5 DEF Prepare
<1>6. CASE Spawn(e)
  BY <1>6 DEF Spawn, bootstrap
<1>7. CASE Register(e)
  BY <1>7 DEF Register, Signalled
<1>8. CASE ProcessTimeout(e)
  BY <1>8 DEF ProcessTimeout, Signalled
<1>9. CASE ProcessReturns(e)
  BY <1>9 DEF ProcessReturns, Unregister, bootstrap
<1>10. CASE Cleanup(e)
  BY <1>10 DEF Cleanup, ReleaseUi
<1>11. CASE JournalComplete(e)
  BY <1>11 DEF JournalComplete, Written, CompletedState, PublishEntry, logUri
<1>12. CASE ReadPayload(e)
  BY <1>12 DEF ReadPayload, Attempted, Written
<1>13. CASE PutSucceeds(e)
  BY <1>13 DEF PutSucceeds
<1>14. CASE PutFails(e)
  BY <1>14 DEF PutFails, Attempted, Written, RetriesLeft
<1>15. CASE LateUpload(e)
  BY <1>15 DEF LateUpload
<1>16. CASE Retry(e)
  BY <1>16 DEF Retry, Attempted, Written
<1>17. CASE WriteRecord(e)
  BY <1>17 DEF WriteRecord, Attempted, Written, PublishReturns, TaskEnds, Verdict, PublishVerdict,
    StepEnd
<1>18. CASE Settle(e)
  BY <1>18 DEF Settle, Attempted, Written, PublishReturns, TaskEnds, StepEnd
<1>19. CASE CancelStep(e)
  BY <1>19 DEF CancelStep, ExecutorCancel, Signalled, bootstrap
<1>20. CASE TerminateJobFlow(e)
  BY <1>20 DEF TerminateJobFlow, ExecutorCancel, Signalled, TerminatedState, bootstrap
<1>21. CASE RequestReturns(e)
  BY <1>21 DEF RequestReturns, TerminatedState
<1>22. CASE ChildWrites(e)
  BY <1>22 DEF ChildWrites
<1>23. CASE ChildExits(e)
  BY <1>23 DEF ChildExits
<1>24. CASE Kill(e)
  BY <1>24 DEF Kill
<1>25. CASE DeliverCancellation(e)
  BY <1>25 DEF DeliverCancellation, CancelChild, CancelledWrite, Signalled, Unregister, Written,
    Verdict, PublishVerdict, CompletedState, CancelledAt
<1>26. CASE CancelStopEnds(e)
  BY <1>26 DEF CancelStopEnds, Unregister, bootstrap
<1>27. CASE BeginFails(e)
  BY <1>27 DEF BeginFails
<1>28. CASE CleanupFails(e)
  BY <1>28 DEF CleanupFails
<1>29. CASE CompleteFails(e)
  BY <1>29 DEF CompleteFails, TaskEnds, StepEnd
<1>30. CASE PayloadFails(e)
  BY <1>30 DEF PayloadFails
<1>31. CASE DriverGoesOn(e)
  BY <1>31 DEF DriverGoesOn, StartTasks, bootstrap
<1> QED BY <1>1, <1>2, <1>3, <1>4, <1>5, <1>6, <1>7, <1>8, <1>9, <1>10, <1>11, <1>12, <1>13, <1>14,
  <1>15, <1>16, <1>17, <1>18, <1>19, <1>20, <1>21, <1>22, <1>23, <1>24, <1>25, <1>26, <1>27, <1>28,
  <1>29, <1>30, <1>31 DEF LocalStep, Runner, Publisher

\* It follows the life of an execution.
LEMMA LifeKept ==
  ASSUME ExecTyped, OpenInv, NEW e \in Executions, Execution(e), LocalStep(e)
  PROVE  Life(e)'
<1> USE ExecutionAssumption DEF ExecTyped, OpenInv, Execution, Life, PhaseOf, PortOf, Untouched,
  AtRest, Alive, PublishPoints, RunnerPoints, BootstrapPoints, bootstrap, service, control,
  executor, leases, past, history, upload, files, NoFile, Bytes
<1>1. CASE RecoverRecord(e)
  BY <1>1 DEF RecoverRecord, PublishEntry, PublicationChoices, PublishesAgain,
    PublicationComplete, logUri, Running
<1>2. CASE Submit(e)
  BY <1>2 DEF Submit, Schedule, StartTasks
<1>3. CASE JournalBegin(e)
  BY <1>3 DEF JournalBegin, Written
<1>4. CASE PreparationFails(e)
  BY <1>4 DEF PreparationFails
<1>5. CASE Prepare(e)
  BY <1>5 DEF Prepare
<1>6. CASE Spawn(e)
  BY <1>6 DEF Spawn
<1>7. CASE Register(e)
  BY <1>7 DEF Register, Signalled
<1>8. CASE ProcessTimeout(e)
  BY <1>8 DEF ProcessTimeout, Signalled
<1>9. CASE ProcessReturns(e)
  BY <1>9 DEF ProcessReturns, Unregister
<1>10. CASE Cleanup(e)
  BY <1>10 DEF Cleanup, ReleaseUi
<1>11. CASE JournalComplete(e)
  BY <1>11 DEF JournalComplete, Written, CompletedState, PublishEntry, logUri
<1>12. CASE ReadPayload(e)
  BY <1>12 DEF ReadPayload, Attempted, Written
<1>13. CASE PutSucceeds(e)
  BY <1>13 DEF PutSucceeds
<1>14. CASE PutFails(e)
  BY <1>14 DEF PutFails, Attempted, Written, RetriesLeft
<1>15. CASE LateUpload(e)
  BY <1>15 DEF LateUpload
<1>16. CASE Retry(e)
  BY <1>16 DEF Retry, Attempted, Written
<1>17. CASE WriteRecord(e)
  BY <1>17 DEF WriteRecord, Attempted, Written, PublishReturns, TaskEnds, Verdict, PublishVerdict,
    StepEnd
<1>18. CASE Settle(e)
  BY <1>18 DEF Settle, Attempted, Written, PublishReturns, TaskEnds, StepEnd
<1>19. CASE CancelStep(e)
  BY <1>19 DEF CancelStep, ExecutorCancel, Signalled
<1>20. CASE TerminateJobFlow(e)
  BY <1>20 DEF TerminateJobFlow, ExecutorCancel, Signalled, TerminatedState
<1>21. CASE RequestReturns(e)
  BY <1>21 DEF RequestReturns, TerminatedState
<1>22. CASE ChildWrites(e)
  BY <1>22 DEF ChildWrites
<1>23. CASE ChildExits(e)
  BY <1>23 DEF ChildExits
<1>24. CASE Kill(e)
  BY <1>24 DEF Kill
<1>25. CASE DeliverCancellation(e)
  BY <1>25 DEF DeliverCancellation, CancelChild, CancelledWrite, Signalled, Unregister, Written,
    Verdict, PublishVerdict, CompletedState, CancelledAt
<1>26. CASE CancelStopEnds(e)
  BY <1>26 DEF CancelStopEnds, Unregister
<1>27. CASE BeginFails(e)
  BY <1>27 DEF BeginFails
<1>28. CASE CleanupFails(e)
  BY <1>28 DEF CleanupFails
<1>29. CASE CompleteFails(e)
  BY <1>29 DEF CompleteFails, TaskEnds, StepEnd
<1>30. CASE PayloadFails(e)
  BY <1>30 DEF PayloadFails
<1>31. CASE DriverGoesOn(e)
  BY <1>31 DEF DriverGoesOn, StartTasks
<1> QED BY <1>1, <1>2, <1>3, <1>4, <1>5, <1>6, <1>7, <1>8, <1>9, <1>10, <1>11, <1>12, <1>13, <1>14,
  <1>15, <1>16, <1>17, <1>18, <1>19, <1>20, <1>21, <1>22, <1>23, <1>24, <1>25, <1>26, <1>27, <1>28,
  <1>29, <1>30, <1>31 DEF LocalStep, Runner, Publisher

\* It keeps its lease with its task and its file.
LEMMA PortOfKept ==
  ASSUME ExecTyped, OpenInv, NEW e \in Executions, Execution(e), LocalStep(e)
  PROVE  PortOf(e)'
<1> USE ExecutionAssumption DEF ExecTyped, OpenInv, Execution, PortOf, PhaseOf, Life, Untouched,
  LeasePoints, BootstrapPoints, RunnerPoints, bootstrap, service, control, executor, leases, past,
  history,
  upload, files, NoFile, Bytes
<1>1. CASE RecoverRecord(e)
  BY <1>1 DEF RecoverRecord, PublishEntry, PublicationChoices, PublishesAgain,
    PublicationComplete, logUri, Running
<1>2. CASE Submit(e)
  BY <1>2 DEF Submit, Schedule, StartTasks
<1>3. CASE JournalBegin(e)
  BY <1>3 DEF JournalBegin, Written
<1>4. CASE PreparationFails(e)
  BY <1>4 DEF PreparationFails
<1>5. CASE Prepare(e)
  BY <1>5 DEF Prepare
<1>6. CASE Spawn(e)
  BY <1>6 DEF Spawn
<1>7. CASE Register(e)
  BY <1>7 DEF Register, Signalled, Alive
<1>8. CASE ProcessTimeout(e)
  BY <1>8 DEF ProcessTimeout, Signalled, Alive
<1>9. CASE ProcessReturns(e)
  BY <1>9 DEF ProcessReturns, Unregister
<1>10. CASE Cleanup(e)
  BY <1>10 DEF Cleanup, ReleaseUi
<1>11. CASE JournalComplete(e)
  BY <1>11 DEF JournalComplete, Written, CompletedState, PublishEntry, logUri
<1>12. CASE ReadPayload(e)
  BY <1>12 DEF ReadPayload, Attempted, Written
<1>13. CASE PutSucceeds(e)
  BY <1>13 DEF PutSucceeds
<1>14. CASE PutFails(e)
  BY <1>14 DEF PutFails, Attempted, Written, RetriesLeft
<1>15. CASE LateUpload(e)
  BY <1>15 DEF LateUpload
<1>16. CASE Retry(e)
  BY <1>16 DEF Retry, Attempted, Written
<1>17. CASE WriteRecord(e)
  BY <1>17 DEF WriteRecord, Attempted, Written, PublishReturns, TaskEnds, Verdict, PublishVerdict,
    StepEnd
<1>18. CASE Settle(e)
  BY <1>18 DEF Settle, Attempted, Written, PublishReturns, TaskEnds, StepEnd
<1>19. CASE CancelStep(e)
  BY <1>19 DEF CancelStep, ExecutorCancel, Signalled, Alive
<1>20. CASE TerminateJobFlow(e)
  BY <1>20 DEF TerminateJobFlow, ExecutorCancel, Signalled, Alive, TerminatedState
<1>21. CASE RequestReturns(e)
  BY <1>21 DEF RequestReturns, TerminatedState
<1>22. CASE ChildWrites(e)
  BY <1>22 DEF ChildWrites
<1>23. CASE ChildExits(e)
  BY <1>23 DEF ChildExits
<1>24. CASE Kill(e)
  BY <1>24 DEF Kill
<1>25. CASE DeliverCancellation(e)
  BY <1>25 DEF DeliverCancellation, CancelChild, CancelledWrite, Signalled, Unregister, Written,
    Verdict, PublishVerdict, CompletedState, CancelledAt
<1>26. CASE CancelStopEnds(e)
  BY <1>26 DEF CancelStopEnds, Unregister
<1>27. CASE BeginFails(e)
  BY <1>27 DEF BeginFails
<1>28. CASE CleanupFails(e)
  BY <1>28 DEF CleanupFails
<1>29. CASE CompleteFails(e)
  BY <1>29 DEF CompleteFails, TaskEnds, StepEnd
<1>30. CASE PayloadFails(e)
  BY <1>30 DEF PayloadFails
<1>31. CASE DriverGoesOn(e)
  BY <1>31 DEF DriverGoesOn, StartTasks
<1> QED BY <1>1, <1>2, <1>3, <1>4, <1>5, <1>6, <1>7, <1>8, <1>9, <1>10, <1>11, <1>12, <1>13, <1>14,
  <1>15, <1>16, <1>17, <1>18, <1>19, <1>20, <1>21, <1>22, <1>23, <1>24, <1>25, <1>26, <1>27, <1>28,
  <1>29, <1>30, <1>31 DEF LocalStep, Runner, Publisher

\* It leaves its record to be recovered, or settled.
LEMMA RecordOfKept ==
  ASSUME ExecTyped, OpenInv, NEW e \in Executions, Execution(e), LocalStep(e)
  PROVE  RecordOf(e)'
<1> USE ExecutionAssumption DEF ExecTyped, OpenInv, Execution, RecordOf, PhaseOf, Life, Settled,
  Untouched, logUri, bootstrap, AtRest, Alive, PublishPoints, RunnerPoints, Verdict, PublishVerdict,
  PublicationComplete, PublishesAgain, service, control, executor, leases, past, history, upload,
  files,
  NoFile, Bytes
<1>1. CASE RecoverRecord(e)
  <2>1. PICK again \in PublicationChoices(e) :
           IF again
             THEN pc' = [pc EXCEPT ![e] = PublishEntry(e)] /\ UNCHANGED todo
             ELSE todo' = todo \ {e} /\ UNCHANGED pc
    BY <1>1 DEF RecoverRecord
  <2>2. again = PublishesAgain(e) \/ again = (e \in logUri)
    BY <2>1 DEF PublicationChoices
  <2>3. again => e \in logUri
    BY <2>2 DEF PublishesAgain
  <2>4. ~again => e \notin logUri \/ publication[e] # "none"
    BY <2>2 DEF PublishesAgain, PublicationComplete
  <2>5. CASE again
    BY <1>1, <2>1, <2>3, <2>5 DEF RecoverRecord, PublishEntry, Running
  <2>6. CASE ~again
    BY <1>1, <2>1, <2>4, <2>6 DEF RecoverRecord, Running
  <2> QED BY <2>5, <2>6
<1>2. CASE Submit(e)
  BY <1>2 DEF Submit, Schedule, StartTasks
<1>3. CASE JournalBegin(e)
  BY <1>3 DEF JournalBegin, Written
<1>4. CASE PreparationFails(e)
  BY <1>4 DEF PreparationFails
<1>5. CASE Prepare(e)
  BY <1>5 DEF Prepare
<1>6. CASE Spawn(e)
  BY <1>6 DEF Spawn
<1>7. CASE Register(e)
  BY <1>7 DEF Register, Signalled
<1>8. CASE ProcessTimeout(e)
  BY <1>8 DEF ProcessTimeout, Signalled
<1>9. CASE ProcessReturns(e)
  BY <1>9 DEF ProcessReturns, Unregister
<1>10. CASE Cleanup(e)
  BY <1>10 DEF Cleanup, ReleaseUi
<1>11. CASE JournalComplete(e)
  BY <1>11 DEF JournalComplete, Written, CompletedState, PublishEntry
<1>12. CASE ReadPayload(e)
  BY <1>12 DEF ReadPayload, Attempted, Written
<1>13. CASE PutSucceeds(e)
  BY <1>13 DEF PutSucceeds
<1>14. CASE PutFails(e)
  BY <1>14 DEF PutFails, Attempted, Written, RetriesLeft
<1>15. CASE LateUpload(e)
  BY <1>15 DEF LateUpload
<1>16. CASE Retry(e)
  BY <1>16 DEF Retry, Attempted, Written
<1>17. CASE WriteRecord(e)
  BY <1>17 DEF WriteRecord, Attempted, Written, PublishReturns, TaskEnds, StepEnd
<1>18. CASE Settle(e)
  BY <1>18 DEF Settle, Attempted, Written, PublishReturns, TaskEnds, StepEnd
<1>19. CASE CancelStep(e)
  BY <1>19 DEF CancelStep, ExecutorCancel, Signalled
<1>20. CASE TerminateJobFlow(e)
  BY <1>20 DEF TerminateJobFlow, ExecutorCancel, Signalled, TerminatedState
<1>21. CASE RequestReturns(e)
  BY <1>21 DEF RequestReturns, TerminatedState
<1>22. CASE ChildWrites(e)
  BY <1>22 DEF ChildWrites
<1>23. CASE ChildExits(e)
  BY <1>23 DEF ChildExits
<1>24. CASE Kill(e)
  BY <1>24 DEF Kill
<1>25. CASE DeliverCancellation(e)
  BY <1>25 DEF DeliverCancellation, CancelChild, CancelledWrite, Signalled, Unregister, Written,
    CompletedState, CancelledAt
<1>26. CASE CancelStopEnds(e)
  BY <1>26 DEF CancelStopEnds, Unregister
<1>27. CASE BeginFails(e)
  BY <1>27 DEF BeginFails
<1>28. CASE CleanupFails(e)
  BY <1>28 DEF CleanupFails
<1>29. CASE CompleteFails(e)
  BY <1>29 DEF CompleteFails, TaskEnds, StepEnd
<1>30. CASE PayloadFails(e)
  BY <1>30 DEF PayloadFails
<1>31. CASE DriverGoesOn(e)
  BY <1>31 DEF DriverGoesOn, StartTasks
<1> QED BY <1>1, <1>2, <1>3, <1>4, <1>5, <1>6, <1>7, <1>8, <1>9, <1>10, <1>11, <1>12, <1>13, <1>14,
  <1>15, <1>16, <1>17, <1>18, <1>19, <1>20, <1>21, <1>22, <1>23, <1>24, <1>25, <1>26, <1>27, <1>28,
  <1>29, <1>30, <1>31 DEF LocalStep, Runner, Publisher

\* It publishes the whole log.
LEMMA PublicationOfKept ==
  ASSUME ExecTyped, OpenInv, NEW e \in Executions, Execution(e), LocalStep(e)
  PROVE  PublicationOf(e)'
<1> USE ExecutionAssumption DEF ExecTyped, OpenInv, Execution, PublicationOf, PhaseOf, Life,
  Untouched, AtRest, PublishPoints, Whole, Gone, Alive, Verdict, PublishVerdict, PublishesAgain,
  PublicationComplete, bootstrap, logUri, service, control, executor, leases, past, history,
  upload, files,
  NoFile, Bytes
<1>1. CASE RecoverRecord(e)
  BY <1>1 DEF RecoverRecord, PublishEntry, PublicationChoices, Running
<1>2. CASE Submit(e)
  BY <1>2 DEF Submit, Schedule, StartTasks
<1>3. CASE JournalBegin(e)
  BY <1>3 DEF JournalBegin, Written
<1>4. CASE PreparationFails(e)
  BY <1>4 DEF PreparationFails
<1>5. CASE Prepare(e)
  BY <1>5 DEF Prepare
<1>6. CASE Spawn(e)
  BY <1>6 DEF Spawn
<1>7. CASE Register(e)
  BY <1>7 DEF Register, Signalled
<1>8. CASE ProcessTimeout(e)
  BY <1>8 DEF ProcessTimeout, Signalled
<1>9. CASE ProcessReturns(e)
  BY <1>9 DEF ProcessReturns, Unregister
<1>10. CASE Cleanup(e)
  BY <1>10 DEF Cleanup, ReleaseUi
<1>11. CASE JournalComplete(e)
  BY <1>11 DEF JournalComplete, Written, CompletedState, PublishEntry
<1>12. CASE ReadPayload(e)
  BY <1>12 DEF ReadPayload, Attempted, Written
<1>13. CASE PutSucceeds(e)
  BY <1>13 DEF PutSucceeds
<1>14. CASE PutFails(e)
  BY <1>14 DEF PutFails, Attempted, Written, RetriesLeft
<1>15. CASE LateUpload(e)
  BY <1>15 DEF LateUpload
<1>16. CASE Retry(e)
  BY <1>16 DEF Retry, Attempted, Written
<1>17. CASE WriteRecord(e)
  BY <1>17 DEF WriteRecord, Attempted, Written, PublishReturns, TaskEnds, StepEnd
<1>18. CASE Settle(e)
  BY <1>18 DEF Settle, Attempted, Written, PublishReturns, TaskEnds, StepEnd
<1>19. CASE CancelStep(e)
  BY <1>19 DEF CancelStep, ExecutorCancel, Signalled
<1>20. CASE TerminateJobFlow(e)
  BY <1>20 DEF TerminateJobFlow, ExecutorCancel, Signalled, TerminatedState
<1>21. CASE RequestReturns(e)
  BY <1>21 DEF RequestReturns, TerminatedState
<1>22. CASE ChildWrites(e)
  BY <1>22 DEF ChildWrites
<1>23. CASE ChildExits(e)
  BY <1>23 DEF ChildExits
<1>24. CASE Kill(e)
  BY <1>24 DEF Kill
<1>25. CASE DeliverCancellation(e)
  BY <1>25 DEF DeliverCancellation, CancelChild, CancelledWrite, Signalled, Unregister, Written,
    CompletedState, CancelledAt
<1>26. CASE CancelStopEnds(e)
  BY <1>26 DEF CancelStopEnds, Unregister
<1>27. CASE BeginFails(e)
  BY <1>27 DEF BeginFails
<1>28. CASE CleanupFails(e)
  BY <1>28 DEF CleanupFails
<1>29. CASE CompleteFails(e)
  BY <1>29 DEF CompleteFails, TaskEnds, StepEnd
<1>30. CASE PayloadFails(e)
  BY <1>30 DEF PayloadFails
<1>31. CASE DriverGoesOn(e)
  BY <1>31 DEF DriverGoesOn, StartTasks
<1> QED BY <1>1, <1>2, <1>3, <1>4, <1>5, <1>6, <1>7, <1>8, <1>9, <1>10, <1>11, <1>12, <1>13, <1>14,
  <1>15, <1>16, <1>17, <1>18, <1>19, <1>20, <1>21, <1>22, <1>23, <1>24, <1>25, <1>26, <1>27, <1>28,
  <1>29, <1>30, <1>31 DEF LocalStep, Runner, Publisher

\* A port taken is taken from the available ones, and a port released was its task's own.
LEMMA LocalPorts ==
  ASSUME ExecTyped, PortInv, NEW e \in Executions, Execution(e), LocalStep(e)
  PROVE  PortInv'
<1> USE ExecutionAssumption DEF ExecTyped
<1>1. CASE JournalBegin(e)
  <2>1. CASE UNCHANGED leases
    BY <2>1 DEF PortInv, leases
  <2>2. CASE ~UNCHANGED leases
    <3>1. PICK port \in available :
             available' = available \ {port} /\ lease' = [lease EXCEPT ![e] = port]
      BY <1>1, <2>2 DEF JournalBegin
    <3>2. lease[e] = NoPort
      BY <1>1 DEF JournalBegin, Execution, PortOf
    <3>3. \A f \in Executions : lease[f] # port
      BY <3>1 DEF PortInv
    <3>4. \A f, g \in Executions : f # g /\ lease'[f] # NoPort => lease'[g] # lease'[f]
      BY <3>1, <3>3 DEF PortInv
    <3>5. ASSUME NEW p \in Ports
          PROVE  p \in available' <=> \A f \in Executions : lease'[f] # p
      BY <3>1, <3>2, <3>3 DEF PortInv
    <3>6. available' = Ports \ {lease'[f] : f \in Executions}
      BY <3>1, <3>5
    <3> QED BY <3>4, <3>6 DEF PortInv
  <2> QED BY <2>1, <2>2
<1>2. CASE Cleanup(e)
  <2>1. available' = available \cup ({lease[e]} \ {NoPort}) /\ lease' = [lease EXCEPT ![e] = NoPort]
    BY <1>2 DEF Cleanup, ReleaseUi
  <2>2. \A f, g \in Executions : f # g /\ lease'[f] # NoPort => lease'[g] # lease'[f]
    BY <2>1 DEF PortInv
  <2>3. ASSUME NEW p \in Ports
        PROVE  p \in available' <=> \A f \in Executions : lease'[f] # p
    BY <2>1 DEF PortInv
  <2>4. available' = Ports \ {lease'[f] : f \in Executions}
    BY <2>1, <2>3
  <2> QED BY <2>2, <2>4 DEF PortInv
<1>3. CASE ~JournalBegin(e) /\ ~Cleanup(e)
  <2>1. UNCHANGED leases
    BY <1>3 DEF LocalStep, Runner, Publisher, RecoverRecord, Submit, PreparationFails, Prepare,
      Spawn,
      Register, ProcessTimeout, ProcessReturns, JournalComplete, ReadPayload, PutSucceeds, PutFails,
      LateUpload, Retry, WriteRecord, Settle, CancelStep, TerminateJobFlow, RequestReturns,
      ChildWrites, ChildExits, Kill, DeliverCancellation, CancelStopEnds, BeginFails,
      CleanupFails, CompleteFails, PayloadFails,
      DriverGoesOn
  <2> QED BY <2>1 DEF PortInv, leases
<1> QED BY <1>1, <1>2, <1>3

\* A step of the service keeps every execution's part of the invariant.
LEMMA ServiceKeeps ==
  ASSUME ExecInv, ServiceStep, NEW e \in Executions
  PROVE  Execution(e)'
<1> USE ExecutionAssumption
<1> DEFINE P == Execution(e)
<1>1. P /\ ExecTyped /\ OpenInv
  BY DEF ExecInv
<1> HIDE DEF P
<1> USE <1>1 DEF P, Execution, ExecTyped, OpenInv, bootstrap, logUri, service, control, executor,
  leases, past, history, upload, files, NoFile, Bytes
<1>2. PhaseOf(e)'
  <2> USE DEF PhaseOf, Alive, PublishPoints
  <2>1. CASE Start
    BY <2>1 DEF Start, FreshMemory, Idle, Records, ReadableRecords
  <2>2. CASE FinishRecovery
    BY <2>2 DEF FinishRecovery, RemoveExpired, Running, Records, PublicationComplete
  <2>3. CASE Provision
    BY <2>3 DEF Provision, Schedule, StartTasks
  <2>4. CASE BeginClose
    BY <2>4 DEF BeginClose, Idle, Running
  <2>5. CASE ShutdownTimeout
    BY <2>5 DEF ShutdownTimeout, Running
  <2>6. CASE CloseExecutor
    BY <2>6 DEF CloseExecutor, Running
  <2>7. CASE ExecutorClosed
    BY <2>7 DEF ExecutorClosed
  <2>8. CASE CloseClients
    BY <2>8 DEF CloseClients
  <2>9. CASE Down
    BY <2>9 DEF Down, FreshMemory, Idle
  <2> QED BY <2>1, <2>2, <2>3, <2>4, <2>5, <2>6, <2>7, <2>8, <2>9 DEF ServiceStep
<1>3. Life(e)'
  <2> USE DEF Life, PhaseOf, PortOf, Untouched, AtRest, Alive, PublishPoints, RunnerPoints,
    BootstrapPoints
  <2>1. CASE Start
    BY <2>1 DEF Start, FreshMemory, Idle, Records, ReadableRecords
  <2>2. CASE FinishRecovery
    BY <2>2 DEF FinishRecovery, RemoveExpired, Running, Records, PublicationComplete
  <2>3. CASE Provision
    BY <2>3 DEF Provision, Schedule, StartTasks
  <2>4. CASE BeginClose
    BY <2>4 DEF BeginClose, Idle, Running
  <2>5. CASE ShutdownTimeout
    BY <2>5 DEF ShutdownTimeout, Running
  <2>6. CASE CloseExecutor
    BY <2>6 DEF CloseExecutor, Running
  <2>7. CASE ExecutorClosed
    BY <2>7 DEF ExecutorClosed
  <2>8. CASE CloseClients
    BY <2>8 DEF CloseClients
  <2>9. CASE Down
    BY <2>9 DEF Down, FreshMemory, Idle
  <2> QED BY <2>1, <2>2, <2>3, <2>4, <2>5, <2>6, <2>7, <2>8, <2>9 DEF ServiceStep
<1>4. PortOf(e)'
  <2> USE DEF PortOf, PhaseOf, Life, Untouched, LeasePoints, BootstrapPoints, RunnerPoints
  <2>1. CASE Start
    BY <2>1 DEF Start, FreshMemory, Idle, Records, ReadableRecords
  <2>2. CASE FinishRecovery
    BY <2>2 DEF FinishRecovery, RemoveExpired, Running, Records, PublicationComplete
  <2>3. CASE Provision
    BY <2>3 DEF Provision, Schedule, StartTasks
  <2>4. CASE BeginClose
    BY <2>4 DEF BeginClose, Idle, Running
  <2>5. CASE ShutdownTimeout
    BY <2>5 DEF ShutdownTimeout, Running
  <2>6. CASE CloseExecutor
    BY <2>6 DEF CloseExecutor, Running
  <2>7. CASE ExecutorClosed
    BY <2>7 DEF ExecutorClosed
  <2>8. CASE CloseClients
    BY <2>8 DEF CloseClients
  <2>9. CASE Down
    BY <2>9 DEF Down, FreshMemory, Idle
  <2> QED BY <2>1, <2>2, <2>3, <2>4, <2>5, <2>6, <2>7, <2>8, <2>9 DEF ServiceStep
<1>5. RecordOf(e)'
  <2> USE DEF RecordOf, PhaseOf, Life, Settled, Untouched, AtRest, Alive, PublishPoints,
    RunnerPoints
  <2>1. CASE Start
    BY <2>1 DEF Start, FreshMemory, Idle, Records, ReadableRecords
  <2>2. CASE FinishRecovery
    BY <2>2 DEF FinishRecovery, RemoveExpired, Running, Records, PublicationComplete
  <2>3. CASE Provision
    BY <2>3 DEF Provision, Schedule, StartTasks
  <2>4. CASE BeginClose
    BY <2>4 DEF BeginClose, Idle, Running
  <2>5. CASE ShutdownTimeout
    BY <2>5 DEF ShutdownTimeout, Running
  <2>6. CASE CloseExecutor
    BY <2>6 DEF CloseExecutor, Running
  <2>7. CASE ExecutorClosed
    BY <2>7 DEF ExecutorClosed
  <2>8. CASE CloseClients
    BY <2>8 DEF CloseClients
  <2>9. CASE Down
    BY <2>9 DEF Down, FreshMemory, Idle
  <2> QED BY <2>1, <2>2, <2>3, <2>4, <2>5, <2>6, <2>7, <2>8, <2>9 DEF ServiceStep
<1>6. PublicationOf(e)'
  <2> USE DEF PublicationOf, PhaseOf, Life, Untouched, AtRest, Alive, PublishPoints, Whole, Gone,
    Verdict, PublishVerdict
  <2>1. CASE Start
    BY <2>1 DEF Start, FreshMemory, Idle, Records, ReadableRecords
  <2>2. CASE FinishRecovery
    BY <2>2 DEF FinishRecovery, RemoveExpired, Running, Records, PublicationComplete
  <2>3. CASE Provision
    BY <2>3 DEF Provision, Schedule, StartTasks
  <2>4. CASE BeginClose
    BY <2>4 DEF BeginClose, Idle, Running
  <2>5. CASE ShutdownTimeout
    BY <2>5 DEF ShutdownTimeout, Running
  <2>6. CASE CloseExecutor
    BY <2>6 DEF CloseExecutor, Running
  <2>7. CASE ExecutorClosed
    BY <2>7 DEF ExecutorClosed
  <2>8. CASE CloseClients
    BY <2>8 DEF CloseClients
  <2>9. CASE Down
    BY <2>9 DEF Down, FreshMemory, Idle
  <2> QED BY <2>1, <2>2, <2>3, <2>4, <2>5, <2>6, <2>7, <2>8, <2>9 DEF ServiceStep
<1> QED BY <1>2, <1>3, <1>4, <1>5, <1>6

\* A step of the service takes or releases ports only by forgetting every lease.
LEMMA ServicePorts ==
  ASSUME PortInv, ServiceStep
  PROVE  PortInv'
<1>1. CASE Start \/ Down
  <2>1. available' = Ports /\ lease' = [e \in Executions |-> NoPort]
    BY <1>1 DEF Start, Down, FreshMemory, Idle
  <2>2. {lease'[e] : e \in Executions} \subseteq {NoPort}
    BY <2>1
  <2> QED BY <2>1, <2>2, ExecutionAssumption DEF PortInv
<1>2. CASE ~(Start \/ Down)
  <2>1. UNCHANGED leases
    BY <1>2 DEF ServiceStep, FinishRecovery, Provision, BeginClose, ShutdownTimeout, CloseExecutor,
      ExecutorClosed, CloseClients
  <2> QED BY <2>1 DEF PortInv, leases
<1> QED BY <1>1, <1>2

LEMMA OpenKept ==
  ASSUME OpenInv, ServiceStep \/ \E e \in Executions : LocalStep(e)
  PROVE  OpenInv'
<1>1. CASE ServiceStep
  BY <1>1 DEF OpenInv, service, ServiceStep, Start, FreshMemory, FinishRecovery, Provision,
    BeginClose,
    ShutdownTimeout, CloseExecutor, ExecutorClosed, CloseClients, Down
<1>2. ASSUME NEW e \in Executions, LocalStep(e)
      PROVE  UNCHANGED <<phase, closed>>
  BY <1>2 DEF service, LocalStep, Runner, Publisher, RecoverRecord, Submit, JournalBegin,
    PreparationFails, Prepare, Spawn, Register, ProcessTimeout, ProcessReturns, Cleanup,
    JournalComplete, ReadPayload, PutSucceeds, PutFails, LateUpload, Retry, WriteRecord, Settle,
    CancelStep, TerminateJobFlow, RequestReturns, ChildWrites, ChildExits, Kill,
    DeliverCancellation, CancelStopEnds, BeginFails, CleanupFails, CompleteFails, PayloadFails,
    DriverGoesOn
<1> QED BY <1>1, <1>2 DEF OpenInv

\* An execution's step, or a step of the service, is all there is.
LEMMA StepsOfExecutionNext ==
  ExecutionNext <=> ServiceStep \/ \E e \in Executions : LocalStep(e)
BY DEF ExecutionNext, ServiceStep, LocalStep

LEMMA ExecInvInitially ==
  ASSUME ExecutionInit
  PROVE  ExecInv
<1> USE ExecutionAssumption DEF ExecutionInit, Idle, NoFile
<1>1. ExecTyped
  BY DEF ExecTyped, Phases, RunnerPoints, Results, StepStates, JournalStates, OutboxStates, Verdicts
<1>2. PortInv
  <2>1. {lease[e] : e \in Executions} \subseteq {NoPort}
    OBVIOUS
  <2> QED BY <2>1 DEF PortInv
<1>3. ASSUME NEW e \in Executions
      PROVE  Execution(e)
  <2>1. PhaseOf(e) /\ Life(e) /\ PortOf(e)
    BY DEF PhaseOf, Life, PortOf, Untouched, Alive, PublishPoints, RunnerPoints, BootstrapPoints
  <2>2. RecordOf(e) /\ PublicationOf(e)
    BY DEF RecordOf, PublicationOf
  <2> QED BY <2>1, <2>2 DEF Execution
<1> QED BY <1>1, <1>2, <1>3 DEF ExecInv, OpenInv

LEMMA ExecInvKept ==
  ASSUME ExecInv, [ExecutionNext]_executionVars
  PROVE  ExecInv'
<1>1. ASSUME NEW e \in Executions, LocalStep(e)
      PROVE  ExecInv'
  <2>1. ExecTyped /\ OpenInv /\ PortInv /\ Execution(e)
    BY DEF ExecInv
  <2>2. ExecTyped'
    BY <1>1, <2>1, LocalTyped DEF Execution
  <2>3. PortInv'
    BY <1>1, <2>1, LocalPorts
  <2>4. OpenInv'
    BY <1>1, <2>1, OpenKept
  <2>5. Execution(e)'
    BY <1>1, <2>1, PhaseOfKept, LifeKept, PortOfKept, RecordOfKept, PublicationOfKept DEF Execution
  <2>6. ASSUME NEW f \in Executions \ {e}
        PROVE  Execution(f)'
    <3>1. Same(f)
      BY <1>1, <2>1, LocalFrame
    <3> QED BY <3>1, OthersKept DEF ExecInv
  <2> QED BY <2>2, <2>3, <2>4, <2>5, <2>6 DEF ExecInv
<1>2. CASE ServiceStep
  <2>1. ExecTyped' /\ PortInv' /\ OpenInv'
    BY <1>2, ServiceTyped, ServicePorts, OpenKept DEF ExecInv
  <2> QED BY <1>2, <2>1, ServiceKeeps DEF ExecInv
<1>3. CASE UNCHANGED executionVars
  <2> USE <1>3 DEF executionVars, history, control, leases, executor, upload
  <2>1. ExecTyped' /\ PortInv' /\ OpenInv'
    BY DEF ExecInv, ExecTyped, PortInv, OpenInv
  <2>2. ASSUME NEW e \in Executions
        PROVE  Execution(e)'
    <3>1. Same(e)
      BY DEF Same
    <3> QED BY <3>1, OthersKept DEF ExecInv
  <2> QED BY <2>1, <2>2 DEF ExecInv
<1> QED BY <1>1, <1>2, <1>3, StepsOfExecutionNext

\* What the console does changes nothing of the execution.
LEMMA LogStepIsExecutionStep ==
  ASSUME [LogNext]_<<executionVars, streamVars>>
  PROVE  [ExecutionNext]_executionVars
BY DEF LogNext, ExecutionStep, OpenStream, CloseStream, ReadIdentity, ReadChunk, SendEvent

\* The inductive invariant of the execution: types, ports, and for every execution where the phase
\* of the service leaves it, the life of its task and child, its lease, its journal record and its
\* publication (EmrRuntime, LocalSparkStepRunner, LocalProcessExecutor, StepExecutionJournal,
\* S3StepLogPublisher).
THEOREM ExecutionInvariant == LogSpec => []ExecInv
<1>1. LogInit => ExecInv
  BY ExecInvInitially DEF LogInit
<1>2. ExecInv /\ [LogNext]_<<executionVars, streamVars>> => ExecInv'
  BY ExecInvKept, LogStepIsExecutionStep
<1> QED BY <1>1, <1>2, PTL DEF LogSpec
-----------------------------------------------------------------------------
\* The Spark UI route of a step leads to the port that step leases, nobody else leases that port,
\* and while the service serves a port is kept from coming back by nothing but a task that has not
\* ended or a spark-ui.json that could not be removed (SparkUiPortLeases, LocalSparkStepRunner.run,
\* spark_ui_port).
THEOREM UiPortsAlwaysOwned == LogSpec => []UiPortsAreOwned
<1>1. ASSUME ExecInv
      PROVE  UiPortsAreOwned
  <2>1. ExecTyped /\ PortInv /\ \A e \in Executions : PortOf(e)
    BY <1>1 DEF ExecInv, Execution
  <2>2. \A e \in Executions : SparkUiPort(e) # NoPort => lease[e] = SparkUiPort(e)
    BY <2>1 DEF PortOf, SparkUiPort
  <2>3. \A e, f \in Executions : e # f /\ lease[e] # NoPort => lease[f] # lease[e]
    BY <2>1 DEF PortInv
  <2>4. ASSUME phase = "serving", NEW p \in Ports
        PROVE  p \in {lease[e] : e \in Executions} <=> p \in {lease[e] : e \in Running \cup stuck}
    <3>1. ASSUME NEW e \in Executions, lease[e] = p
          PROVE  e \in Running \cup stuck
      <4>1. lease[e] # NoPort
        BY <3>1, ExecutionAssumption
      <4> QED BY <2>1, <2>4, <4>1 DEF PortOf, LeasePoints, Running
    <3>2. Running \cup stuck \subseteq Executions
      BY <2>1 DEF Running, ExecTyped
    <3> QED BY <3>1, <3>2
  <2>5. phase = "serving" => available = Ports \ {lease[e] : e \in Running \cup stuck}
    BY <2>1, <2>4 DEF PortInv
  <2> QED BY <2>2, <2>3, <2>5 DEF UiPortsAreOwned
<1> QED BY <1>1, ExecutionInvariant, PTL

\* After the ordered close every child that still runs was sent SIGTERM (EmrRuntime.close,
\* LocalProcessExecutor.close and execute).
THEOREM ShutdownAlwaysSignals == LogSpec => []ShutdownSignalsEveryChild
<1>1. ExecInv => ShutdownSignalsEveryChild
  BY DEF ExecInv, Execution, PhaseOf, Life, ShutdownSignalsEveryChild
<1> QED BY <1>1, ExecutionInvariant, PTL

\* Once the service has recovered, whatever earlier services crashed in or could not write, no
\* record claims to run and every record of a step with a LogUri has a verdict on its publication,
\* but for the records this service could not read or complete and the verdicts it could not write
\* (StepExecutionJournal.recover, S3StepLogPublisher._write_record).
THEOREM RecoveryIsComplete == LogSpec => []RecoveryLeavesNoLooseEnd
<1>1. ASSUME ExecInv
      PROVE  RecoveryLeavesNoLooseEnd
  <2>1. SUFFICES ASSUME phase \in {"provision", "serving"}, NEW e \in Executions,
                        journal[e] # "none", e \notin Running, e \notin lostRecords
                 PROVE  Settled(e)
    BY DEF RecoveryLeavesNoLooseEnd, Records, Settled
  <2>2. RecordOf(e)
    BY <1>1 DEF ExecInv, Execution
  <2> QED BY <2>1, <2>2 DEF RecordOf, Running
<1> QED BY <1>1, ExecutionInvariant, PTL

\* A publication that says it is published is the whole log, whatever attempt timed out and went on
\* in its thread, unless the runner's cancellation was lost in an unlink error
\* (S3StepLogPublisher.publish, LocalSparkStepRunner.run).
THEOREM PublishedLogIsAlwaysWhole == LogSpec => []PublishedLogIsWhole
<1>1. ExecInv => PublishedLogIsWhole
  BY DEF ExecInv, Execution, PublicationOf, Whole, PublishedLogIsWhole
<1> QED BY <1>1, ExecutionInvariant, PTL
-----------------------------------------------------------------------------
(* The log a console follows *)

\* What a step may do to a log: once its execution is at rest it stays, and so does the log until
\* retention removes it for good; before that it only grows; and a step of the control plane ends
\* with its execution at rest, or else is ended by a request while its runner still works.
LogMoves(e) ==
  /\ AtRest(e) /\ e \in used =>
       AtRest(e)' /\ e \in used' /\ (stdout'[e] = stdout[e] \/ Gone(e)' \/ e \in revived)
  /\ Gone(e) => Gone(e)'
  /\ Gone(e)' \/ Bytes(stdout[e]) <= Bytes(stdout'[e])
  /\ state'[e] # state[e] /\ state'[e] \notin {"ABSENT", "RUNNING", "CANCEL_PENDING"} =>
       \/ AtRest(e)' /\ e \in used'
       \/ pc'[e] # "none" /\ state'[e] \in {"INTERRUPTED", "CANCELLED"}

LEMMA LocalLogMoves ==
  ASSUME ExecTyped, NEW e \in Executions, Execution(e), LocalStep(e)
  PROVE  LogMoves(e)
<1> USE ExecutionAssumption DEF ExecTyped, Execution, PhaseOf, Life, RecordOf, Untouched, AtRest,
  Gone, Alive, LogMoves, PublishPoints, RunnerPoints, BootstrapPoints, bootstrap, StepStates,
  service, control, executor, leases, past, history, upload, files, NoFile, Bytes
<1>1. CASE RecoverRecord(e)
  BY <1>1 DEF RecoverRecord, PublishEntry, PublicationChoices, PublishesAgain,
    PublicationComplete, logUri, Running
<1>2. CASE Submit(e)
  BY <1>2 DEF Submit, Schedule, StartTasks
<1>3. CASE JournalBegin(e)
  BY <1>3 DEF JournalBegin, Written
<1>4. CASE PreparationFails(e)
  BY <1>4 DEF PreparationFails
<1>5. CASE Prepare(e)
  BY <1>5 DEF Prepare
<1>6. CASE Spawn(e)
  BY <1>6 DEF Spawn
<1>7. CASE Register(e)
  BY <1>7 DEF Register, Signalled
<1>8. CASE ProcessTimeout(e)
  BY <1>8 DEF ProcessTimeout, Signalled
<1>9. CASE ProcessReturns(e)
  BY <1>9 DEF ProcessReturns, Unregister
<1>10. CASE Cleanup(e)
  BY <1>10 DEF Cleanup, ReleaseUi
<1>11. CASE JournalComplete(e)
  BY <1>11 DEF JournalComplete, Written, CompletedState, PublishEntry
<1>12. CASE ReadPayload(e)
  BY <1>12 DEF ReadPayload, Attempted, Written
<1>13. CASE PutSucceeds(e)
  BY <1>13 DEF PutSucceeds
<1>14. CASE PutFails(e)
  BY <1>14 DEF PutFails, Attempted, Written
<1>15. CASE LateUpload(e)
  BY <1>15 DEF LateUpload
<1>16. CASE Retry(e)
  BY <1>16 DEF Retry, Attempted, Written
<1>17. CASE WriteRecord(e)
  BY <1>17 DEF WriteRecord, Attempted, Written, PublishReturns, TaskEnds, StepEnd
<1>18. CASE Settle(e)
  BY <1>18 DEF Settle, Attempted, Written, PublishReturns, TaskEnds, StepEnd
<1>19. CASE CancelStep(e)
  BY <1>19 DEF CancelStep, ExecutorCancel, Signalled
<1>20. CASE TerminateJobFlow(e)
  BY <1>20 DEF TerminateJobFlow, ExecutorCancel, Signalled, TerminatedState
<1>21. CASE RequestReturns(e)
  BY <1>21 DEF RequestReturns, TerminatedState
<1>22. CASE ChildWrites(e)
  BY <1>22 DEF ChildWrites
<1>23. CASE ChildExits(e)
  BY <1>23 DEF ChildExits
<1>24. CASE Kill(e)
  BY <1>24 DEF Kill
<1>25. CASE DeliverCancellation(e)
  BY <1>25 DEF DeliverCancellation, CancelChild, CancelledWrite, Signalled, Unregister, Written,
    CancelledAt
<1>26. CASE CancelStopEnds(e)
  BY <1>26 DEF CancelStopEnds, Unregister
<1>27. CASE BeginFails(e)
  BY <1>27 DEF BeginFails
<1>28. CASE CleanupFails(e)
  BY <1>28 DEF CleanupFails
<1>29. CASE CompleteFails(e)
  BY <1>29 DEF CompleteFails, TaskEnds, StepEnd
<1>30. CASE PayloadFails(e)
  BY <1>30 DEF PayloadFails
<1>31. CASE DriverGoesOn(e)
  BY <1>31 DEF DriverGoesOn, StartTasks
<1> QED BY <1>1, <1>2, <1>3, <1>4, <1>5, <1>6, <1>7, <1>8, <1>9, <1>10, <1>11, <1>12, <1>13, <1>14,
  <1>15, <1>16, <1>17, <1>18, <1>19, <1>20, <1>21, <1>22, <1>23, <1>24, <1>25, <1>26, <1>27, <1>28,
  <1>29, <1>30, <1>31 DEF LocalStep, Runner, Publisher

LEMMA ServiceLogMoves ==
  ASSUME ExecTyped, NEW e \in Executions, Execution(e), ServiceStep
  PROVE  LogMoves(e)
<1> USE ExecutionAssumption DEF ExecTyped, Execution, PhaseOf, Life, RecordOf, Untouched, AtRest,
  Gone, Alive, LogMoves, PublishPoints, RunnerPoints, BootstrapPoints, bootstrap, StepStates,
  service, control, executor, leases, past, history, upload, files, NoFile, Bytes
<1>1. CASE Start
  BY <1>1 DEF Start, FreshMemory, Idle, Records, ReadableRecords
<1>2. CASE FinishRecovery
  BY <1>2 DEF FinishRecovery, RemoveExpired, Running, Records, PublicationComplete
<1>3. CASE Provision
  BY <1>3 DEF Provision, Schedule, StartTasks
<1>4. CASE BeginClose
  BY <1>4 DEF BeginClose, Idle, Running
<1>5. CASE ShutdownTimeout
  BY <1>5 DEF ShutdownTimeout, Running
<1>6. CASE CloseExecutor
  BY <1>6 DEF CloseExecutor
<1>7. CASE ExecutorClosed
  BY <1>7 DEF ExecutorClosed
<1>8. CASE CloseClients
  BY <1>8 DEF CloseClients
<1>9. CASE Down
  BY <1>9 DEF Down, FreshMemory, Idle
<1> QED BY <1>1, <1>2, <1>3, <1>4, <1>5, <1>6, <1>7, <1>8, <1>9 DEF ServiceStep

LEMMA EveryStepMovesTheLog ==
  ASSUME ExecInv, [ExecutionNext]_executionVars, NEW e \in Executions
  PROVE  LogMoves(e)
<1>1. ExecTyped /\ Execution(e)
  BY DEF ExecInv
<1>2. ASSUME NEW f \in Executions \ {e}, LocalStep(f)
      PROVE  LogMoves(e)
  <2>1. Same(e)
    BY <1>1, <1>2, LocalFrame
  <2>2. stdout[e] \in Int
    BY <1>1 DEF ExecTyped, NoFile
  <2> QED BY <2>1, <2>2 DEF Same, LogMoves, AtRest, Gone, Alive, Bytes, NoFile
<1>3. CASE UNCHANGED executionVars
  <2>1. stdout[e] \in Int
    BY <1>1 DEF ExecTyped, NoFile
  <2> QED BY <1>3, <2>1 DEF executionVars, history, control, executor, leases, upload, LogMoves,
    AtRest, Gone,
       Alive, Bytes, NoFile
<1> QED BY <1>1, <1>2, <1>3, LocalLogMoves, ServiceLogMoves, StepsOfExecutionNext

StreamTyped ==
  /\ at \in StreamPoints
  /\ offset \in 0 .. session.maxOutput /\ received \in 0 .. session.maxOutput
  /\ seen \in StepStates /\ chunk \in 0 .. ChunkLimit
  /\ eof \in BOOLEAN /\ ended \in BOOLEAN /\ early \in BOOLEAN

\* Nothing will be written to the log any more.
Frozen == AtRest(Watched) /\ Watched \in used

\* What the console has read, or was told, of a log that is written no more
StreamInv ==
  /\ Watched \in revived => early
  /\ at # "closed" => phase \notin {"down", "recover", "provision"}
  /\ at \in {"chunk", "publication"} => seen # "ABSENT"
  /\ ended => at = "closed"
  /\ Gone(Watched) \/ (offset <= Bytes(stdout[Watched]) /\ received <= Bytes(stdout[Watched]))
  /\ ~early /\ state[Watched] \notin {"ABSENT", "RUNNING", "CANCEL_PENDING"} => Frozen
  /\ ~early /\ at \in {"chunk", "publication"} /\ seen \notin ActiveStepStates => Frozen
  /\ ~early /\ at = "publication" /\ seen \notin ActiveStepStates /\ eof =>
       offset = Bytes(stdout[Watched]) \/ Gone(Watched)
  /\ ended /\ ~early => Gone(Watched) \/ (Frozen /\ received = Bytes(stdout[Watched]))

\* A chunk starts where it is asked for, or at the end of a shorter file, and stays in the file.
LEMMA ChunkInFile ==
  ASSUME NEW size \in Int, size >= NoFile, NEW from \in Nat, NEW limit \in Nat
  PROVE  LET read == Chunk(size, from, limit)
         IN /\ read.bytes \in 0 .. limit
            /\ size = NoFile => read.next = from
            /\ size # NoFile => read.next \in 0 .. size
            /\ read.eof \in BOOLEAN
            /\ read.eof /\ size # NoFile => read.next = size
<1> DEFINE start == IF from < Bytes(size) THEN from ELSE Bytes(size)
<1> DEFINE rest == Bytes(size) - start
<1> DEFINE count == IF rest < limit THEN rest ELSE limit
<1>1. CASE size = NoFile
  <2>1. Chunk(size, from, limit) = [bytes |-> 0, next |-> from, eof |-> TRUE]
    BY <1>1 DEF Chunk
  <2> QED BY <1>1, <2>1
<1>2. CASE size # NoFile
  <2>1. Chunk(size, from, limit) =
          [bytes |-> count, next |-> start + count, eof |-> start + count >= Bytes(size)]
    BY <1>2 DEF Chunk
  <2>2. size \in Nat /\ Bytes(size) = size
    BY <1>2 DEF Bytes, NoFile
  <2>3. start \in 0 .. size /\ rest \in 0 .. size /\ count \in 0 .. limit /\ count <= rest
    BY <2>2
  <2>4. start + count \in 0 .. size
    BY <2>2, <2>3
  <2>5. start + count >= size => start + count = size
    BY <2>2, <2>4
  <2> DEFINE reached == start + count >= Bytes(size)
  <2> DEFINE next == start + count
  <2>6. reached \in BOOLEAN /\ (reached => next = size) /\ next \in 0 .. size
    BY <2>2, <2>4, <2>5
  <2>7. Chunk(size, from, limit) = [bytes |-> count, next |-> next, eof |-> reached]
    BY <2>1
  <2> HIDE DEF start, rest, count, reached, next
  <2>8. Chunk(size, from, limit).bytes = count /\ Chunk(size, from, limit).next = next
    BY <2>7
  <2>9. Chunk(size, from, limit).eof = reached
    BY <2>7
  <2> QED BY <1>2, <2>3, <2>6, <2>8, <2>9
<1> QED BY <1>1, <1>2

LEMMA StreamTypedKept ==
  ASSUME ExecTyped, ExecTyped', StreamTyped, [LogNext]_<<executionVars, streamVars>>
  PROVE  StreamTyped'
<1> USE ExecutionAssumption, StreamAssumption DEF StreamTyped, StreamPoints
<1>1. session' = session /\ session.maxOutput \in Nat
  <2>1. session' = session
    <3>1. ASSUME NEW e \in Executions, LocalStep(e)
          PROVE  session' = session
      BY <3>1 DEF past, history, LocalStep, Runner, Publisher, RecoverRecord, Submit, JournalBegin,
        PreparationFails, Prepare, Spawn, Register, ProcessTimeout, ProcessReturns, Cleanup,
        JournalComplete, ReadPayload, PutSucceeds, PutFails, LateUpload, Retry, WriteRecord, Settle,
        CancelStep, TerminateJobFlow, RequestReturns, ChildWrites, ChildExits, Kill,
        DeliverCancellation, CancelStopEnds, BeginFails, CleanupFails, CompleteFails, PayloadFails,
        DriverGoesOn
    <3>2. ServiceStep => session' = session
      BY DEF past, history, ServiceStep, Start, FinishRecovery, Provision, BeginClose,
        ShutdownTimeout,
        CloseExecutor, ExecutorClosed, CloseClients, Down
    <3> QED BY <3>1, <3>2, LogStepIsExecutionStep, StepsOfExecutionNext DEF executionVars
  <2> QED BY <2>1 DEF ExecTyped
<1>2. CASE ExecutionStep
  <2>1. eof' \in BOOLEAN /\ ended' \in BOOLEAN /\ early' \in BOOLEAN
    BY <1>2 DEF ExecutionStep, Disconnect, Forget
  <2>2. \/ at' = "closed" /\ offset' = 0 /\ seen' = "ABSENT" /\ chunk' = 0
        \/ UNCHANGED <<at, offset, seen, chunk>>
    BY <1>2 DEF ExecutionStep, Disconnect, Forget
  <2>3. UNCHANGED received
    BY <1>2 DEF ExecutionStep
  <2> QED BY <1>1, <2>1, <2>2, <2>3 DEF StepStates
<1>3. CASE OpenStream
  BY <1>1, <1>3 DEF OpenStream, ResumeOffset
<1>4. CASE CloseStream
  <2>1. eof' \in BOOLEAN
    BY <1>4 DEF CloseStream, Disconnect, Forget
  <2>2. at' = "closed" /\ offset' = 0 /\ seen' = "ABSENT" /\ chunk' = 0
    BY <1>4 DEF CloseStream, Disconnect, Forget
  <2>3. UNCHANGED <<received, ended, early>>
    BY <1>4 DEF CloseStream
  <2> QED BY <1>1, <2>1, <2>2, <2>3 DEF StepStates
<1>5. CASE ReadIdentity
  <2>1. Identity(Watched) \in StepStates
    BY DEF Identity, RecoveredState, ExecTyped, StepStates
  <2>2. eof' \in BOOLEAN
    BY <1>5 DEF ReadIdentity, Disconnect, Forget
  <2>3. \/ at' = "closed" /\ offset' = 0 /\ seen' = "ABSENT" /\ chunk' = 0
        \/ at' = "chunk" /\ seen' = Identity(Watched) /\ UNCHANGED <<offset, chunk>>
    BY <1>5 DEF ReadIdentity, Disconnect, Forget
  <2>4. UNCHANGED <<received, ended, early>>
    BY <1>5 DEF ReadIdentity
  <2> QED BY <1>1, <2>1, <2>2, <2>3, <2>4 DEF StepStates
<1>6. CASE ReadChunk
  <2>1. stdout[Watched] \in Int /\ stdout[Watched] >= NoFile /\ stdout[Watched] <= session.maxOutput
    BY <1>1 DEF ExecTyped, NoFile
  <2> DEFINE read == Chunk(stdout[Watched], offset, ChunkLimit)
  <2>2. /\ read.bytes \in 0 .. ChunkLimit /\ read.eof \in BOOLEAN
        /\ read.next = offset \/ read.next \in 0 .. stdout[Watched]
    BY <1>1, <2>1, ChunkInFile
  <2>3. chunk' = read.bytes /\ offset' = read.next /\ eof' = read.eof /\ at' = "publication"
        /\ UNCHANGED <<seen, received, ended, early>>
    BY <1>6 DEF ReadChunk
  <2> HIDE DEF read
  <2> QED BY <1>1, <2>1, <2>2, <2>3
<1>7. CASE SendEvent
  <2>1. /\ Disconnect \/ NextRead
        /\ received' \in {offset, received} /\ early' = early
    BY <1>7 DEF SendEvent
  <2>2. ended' \in BOOLEAN
    BY <1>7 DEF SendEvent, Complete
  <2>3. eof' \in BOOLEAN
    BY <2>1 DEF Disconnect, NextRead, Forget
  <2>4. /\ (at' = "closed" /\ offset' = 0) \/ (at' = "identity" /\ offset' = offset)
        /\ seen' = "ABSENT" /\ chunk' = 0
    BY <2>1 DEF Disconnect, NextRead, Forget
  <2> QED BY <1>1, <2>1, <2>2, <2>3, <2>4 DEF StepStates
<1>8. CASE UNCHANGED <<executionVars, streamVars>>
  BY <1>1, <1>8 DEF streamVars
<1> QED BY <1>2, <1>3, <1>4, <1>5, <1>6, <1>7, <1>8 DEF LogNext

LEMMA StreamInvKept ==
  ASSUME ExecInv, ExecInv', StreamTyped, StreamTyped', StreamInv, [LogNext]_<<executionVars, streamVars>>
  PROVE  StreamInv'
<1> USE StreamAssumption, ExecutionAssumption
<1>1. LogMoves(Watched)
  BY EveryStepMovesTheLog, LogStepIsExecutionStep
<1>2. /\ stdout[Watched] \in Int /\ stdout[Watched] >= NoFile
      /\ stdout'[Watched] \in Int /\ stdout'[Watched] >= NoFile
      /\ offset \in Nat /\ received \in Nat /\ state[Watched] \in StepStates
      /\ journal[Watched] \in JournalStates
  BY DEF ExecInv, ExecTyped, StreamTyped, NoFile
<1>3. CASE ExecutionStep
  <2>1. \/ at' = "closed" /\ offset' = 0
        \/ phase' # "down" /\ UNCHANGED <<at, offset, seen, eof>>
    <3>1. CASE phase' = "down"
      BY <1>3, <3>1 DEF ExecutionStep, Disconnect
    <3>2. CASE phase' # "down"
      BY <1>3, <3>2 DEF ExecutionStep
    <3> QED BY <3>1, <3>2
  <2>2. UNCHANGED <<received, ended>>
    BY <1>3 DEF ExecutionStep
  <2>3. /\ ~early' => ~early /\ Watched \notin revived'
        /\ ~early' /\ state'[Watched] # state[Watched] /\ pc'[Watched] # "none" =>
             state'[Watched] \notin {"INTERRUPTED", "CANCELLED"}
    BY <1>3 DEF ExecutionStep
  <2>4. phase' \in {"recover", "provision"} => phase \in {"down", "recover", "provision"}
    <3>1. ASSUME NEW e \in Executions, LocalStep(e)
          PROVE  phase' = phase
      BY <3>1 DEF LocalStep, Runner, Publisher, RecoverRecord, Submit, JournalBegin,
        PreparationFails, Prepare, Spawn, Register, ProcessTimeout, ProcessReturns, Cleanup,
        JournalComplete, ReadPayload, PutSucceeds, PutFails, LateUpload, Retry, WriteRecord, Settle,
        CancelStep, TerminateJobFlow, RequestReturns, ChildWrites, ChildExits, Kill,
        DeliverCancellation, CancelStopEnds, BeginFails, CleanupFails, CompleteFails, PayloadFails,
        DriverGoesOn
    <3>2. ServiceStep =>
            (phase' \in {"recover", "provision"} => phase \in {"down", "recover", "provision"})
      BY DEF ServiceStep, Start, FinishRecovery, Provision, BeginClose, ShutdownTimeout,
        CloseExecutor, ExecutorClosed, CloseClients, Down
    <3> QED BY <3>1, <3>2, LogStepIsExecutionStep, StepsOfExecutionNext DEF executionVars
  <2> QED BY <1>1, <1>2, <2>1, <2>2, <2>3, <2>4 DEF LogMoves, StreamInv, Frozen, Bytes, NoFile
<1>4. CASE OpenStream
  <2>1. /\ at' = "identity" /\ at = "closed" /\ phase = "serving" /\ ~ended
        /\ offset' \in {0, received}
        /\ UNCHANGED <<executionVars, received, ended, early>>
    BY <1>4 DEF OpenStream, ResumeOffset
  <2> QED BY <1>1, <1>2, <2>1 DEF StreamInv, LogMoves, Frozen, AtRest, Alive, Gone, Bytes, NoFile,
    executionVars, history, control, executor
<1>5. CASE CloseStream
  <2>1. /\ at' = "closed" /\ offset' = 0 /\ UNCHANGED <<executionVars, received, ended, early>>
    BY <1>5 DEF CloseStream, Disconnect
  <2> QED BY <1>2, <2>1 DEF StreamInv, Frozen, AtRest, Alive, Gone, Bytes, NoFile, executionVars,
    history, control, executor
<1>6. CASE ReadIdentity
  <2>1. UNCHANGED <<executionVars, received, ended, early>> /\ at = "identity"
    BY <1>6 DEF ReadIdentity
  <2>2. CASE Identity(Watched) = "ABSENT"
    <3>1. at' = "closed" /\ offset' = 0
      BY <1>6, <2>2 DEF ReadIdentity, Disconnect
    <3> QED BY <1>2, <2>1, <3>1 DEF StreamInv, Frozen, AtRest, Alive, Gone, Bytes, NoFile,
      executionVars, history, control, executor
  <2>3. CASE Identity(Watched) # "ABSENT"
    <3>1. at' = "chunk" /\ seen' = Identity(Watched) /\ UNCHANGED offset
      BY <1>6, <2>3 DEF ReadIdentity
    <3>2. ASSUME ~early, seen' \notin ActiveStepStates
          PROVE  Frozen
      <4>1. CASE state[Watched] # "ABSENT"
        BY <3>1, <3>2, <4>1 DEF Identity, StreamInv, ActiveStepStates
      <4>2. CASE state[Watched] = "ABSENT"
        <5>1. journal[Watched] # "none"
          BY <2>3, <4>2 DEF Identity
        <5> QED BY <4>2, <5>1 DEF ExecInv, Execution, Life, Untouched, Frozen
      <4> QED BY <4>1, <4>2
    <3> QED BY <1>2, <2>1, <2>3, <3>1, <3>2 DEF StreamInv, Frozen, AtRest, Alive, Gone, Bytes,
      NoFile, executionVars, history, control, executor
  <2> QED BY <2>2, <2>3
<1>7. CASE ReadChunk
  <2> DEFINE read == Chunk(stdout[Watched], offset, ChunkLimit)
  <2>1. /\ at = "chunk" /\ at' = "publication" /\ offset' = read.next /\ eof' = read.eof
        /\ UNCHANGED <<executionVars, seen, received, ended, early>>
    BY <1>7 DEF ReadChunk
  <2>2. /\ stdout[Watched] = NoFile => read.next = offset
        /\ stdout[Watched] # NoFile => read.next \in 0 .. stdout[Watched]
        /\ read.eof /\ stdout[Watched] # NoFile => read.next = stdout[Watched]
    BY <1>2, ChunkInFile
  <2>3. eof' /\ stdout[Watched] # NoFile => offset' = stdout[Watched]
    BY <2>1, <2>2
  <2>4. /\ stdout[Watched] = NoFile => offset' = offset
        /\ stdout[Watched] # NoFile => offset' \in 0 .. stdout[Watched]
    BY <2>1, <2>2
  <2> HIDE DEF read
  <2> QED BY <1>2, <2>1, <2>3, <2>4 DEF StreamInv, Frozen, AtRest, Alive, Gone, Bytes, NoFile,
    executionVars, history, control, executor
<1>8. CASE SendEvent
  <2> DEFINE complete == Complete(publication[Watched])
  <2>1. /\ at = "publication" /\ UNCHANGED <<executionVars, early>>
        /\ \/ received' = offset /\ (ended' = complete) /\ (IF complete THEN Disconnect ELSE NextRead)
           \/ UNCHANGED <<received, ended>> /\ (Disconnect \/ NextRead)
    BY <1>8 DEF SendEvent
  <2>2. complete => seen \notin ActiveStepStates /\ eof
    BY DEF Complete
  <2>3. (at' = "closed" /\ offset' = 0) \/ (at' = "identity" /\ offset' = offset)
    BY <2>1 DEF Disconnect, NextRead
  <2>4. ended' => at' = "closed" /\ (received' = offset /\ complete)
    BY <2>1 DEF Disconnect, StreamInv
  <2>5. received' \in {offset, received}
    BY <2>1
  <2> HIDE DEF complete
  <2> QED BY <1>2, <2>1, <2>2, <2>3, <2>4, <2>5 DEF StreamInv, Frozen, AtRest, Alive, Gone, Bytes,
    NoFile, executionVars, history, control, executor
<1>9. CASE UNCHANGED <<executionVars, streamVars>>
  BY <1>2, <1>9 DEF streamVars, StreamInv, Frozen, AtRest, Alive, Gone, Bytes, NoFile,
    executionVars, history, control, executor
<1> QED BY <1>3, <1>4, <1>5, <1>6, <1>7, <1>8, <1>9 DEF LogNext

\* The inductive invariant of the stream, with that of the execution it follows (log_chunk,
\* LogEventStream.events)
THEOREM StreamInvariant == LogSpec => [](ExecInv /\ StreamTyped /\ StreamInv)
<1>1. LogInit => ExecInv /\ StreamTyped /\ StreamInv
  <2> SUFFICES ASSUME LogInit PROVE ExecInv /\ StreamTyped /\ StreamInv
    OBVIOUS
  <2> USE StreamAssumption DEF LogInit
  <2>1. ExecInv
    BY ExecInvInitially
  <2>2. session.maxOutput \in Nat /\ stdout[Watched] = NoFile /\ state[Watched] = "ABSENT"
    BY <2>1, ExecutionAssumption DEF ExecInv, ExecTyped, ExecutionInit, Idle
  <2>3. StreamTyped
    <3>1. eof \in BOOLEAN /\ ended \in BOOLEAN /\ early \in BOOLEAN
      BY DEF StreamInit
    <3>2. at = "closed" /\ offset = 0 /\ received = 0 /\ seen = "ABSENT" /\ chunk = 0
      BY DEF StreamInit
    <3> QED BY <2>2, <3>1, <3>2 DEF StreamTyped, StreamPoints, StepStates
  <2>4. StreamInv
    BY <2>2 DEF StreamInit, StreamInv, Bytes, ExecutionInit
  <2> QED BY <2>1, <2>3, <2>4
<1>2. ExecInv /\ StreamTyped /\ StreamInv /\ [LogNext]_<<executionVars, streamVars>>
        => (ExecInv /\ StreamTyped /\ StreamInv)'
  <2> SUFFICES ASSUME ExecInv, StreamTyped, StreamInv, [LogNext]_<<executionVars, streamVars>>
               PROVE  (ExecInv /\ StreamTyped /\ StreamInv)'
    OBVIOUS
  <2>1. ExecInv'
    BY ExecInvKept, LogStepIsExecutionStep
  <2>2. StreamTyped'
    BY <2>1, StreamTypedKept DEF ExecInv
  <2> QED BY <2>1, <2>2, StreamInvKept
<1> QED BY <1>1, <1>2, PTL DEF LogSpec

\* The type invariant of the execution and of the stream
THEOREM ExecutionTypeCorrect == LogSpec => []ExecutionTypeOK
<1>1. ASSUME ExecInv, StreamTyped
      PROVE  ExecutionTypeOK
  <2>1. startup \subseteq Executions
    BY <1>1, ExecutionAssumption DEF ExecInv, ExecTyped
  <2>2. {eof, ended, early} \subseteq BOOLEAN
    BY <1>1 DEF StreamTyped
  <2> QED BY <1>1, <2>1, <2>2 DEF ExecInv, ExecTyped, StreamTyped, ExecutionTypeOK
<1> QED BY <1>1, StreamInvariant, PTL

\* A console that is told the log is complete has all of it, through reconnections, a restart and
\* retention, unless TerminateJobFlows ended the step while its runner was still at work, or the
\* runner's cancellation was lost in an unlink error (log_chunk, LogEventStream.events).
THEOREM StreamAlwaysEndsWithWholeLog == LogSpec => []StreamEndsWithWholeLog
<1>1. StreamInv => StreamEndsWithWholeLog
  BY DEF StreamInv, Gone, StreamEndsWithWholeLog
<1> QED BY <1>1, StreamInvariant, PTL
-----------------------------------------------------------------------------
(***************************************************************************)
(* EmrConsole: lists in order                                              *)
(***************************************************************************)
LEMMA UpToNumber ==
  ASSUME NEW n \in Nat
  PROVE  IsFiniteSet(1..n) /\ Cardinality(1..n) = n
<1> DEFINE one == 1
<1>1. one \in Int /\ one = 1
  OBVIOUS
<1> HIDE DEF one
<1>2. IsFiniteSet(one..n) /\ Cardinality(one..n) = IF one > n THEN 0 ELSE n - one + 1
  BY <1>1, FS_Interval
<1>3. (IF one > n THEN 0 ELSE n - one + 1) = n
  BY <1>1
<1> QED BY <1>1, <1>2, <1>3

\* An injection between intervals: the first is no longer than the second.
LEMMA NoRoom ==
  ASSUME NEW m \in Nat, NEW n \in Nat, NEW f \in [1..m -> 1..n],
         \A a, b \in 1..m : f[a] = f[b] => a = b
  PROVE  m <= n
<1> DEFINE from == 1..m
           to == 1..n
<1>1. f \in Injection(from, to)
  BY DEF Injection, IsInjective
<1>2. IsFiniteSet(to) /\ Cardinality(to) = n /\ Cardinality(from) = m
  BY UpToNumber
<1> HIDE DEF from, to
<1>3. Cardinality(from) <= Cardinality(to)
  BY <1>1, <1>2, FS_Injection
<1> QED BY <1>2, <1>3

StrictOn(S, Before) ==
  /\ \A x \in S : <<x, x>> \notin Before
  /\ \A x, y, z \in S : <<x, y>> \in Before /\ <<y, z>> \in Before => <<x, z>> \in Before
  /\ \A x, y \in S : x = y \/ <<x, y>> \in Before \/ <<y, x>> \in Before

\* The list in order has each member once, each behind those before it.
LEMMA InOrderIsSorted ==
  ASSUME NEW S, IsFiniteSet(S), NEW Before, StrictOn(S, Before)
  PROVE  LET s == InOrder(S, Before)
             n == Cardinality(S)
         IN /\ n \in Nat /\ s \in [1..n -> S]
            /\ \A x \in S : \E i \in 1..n : s[i] = x
            /\ \A i, j \in 1..n : i < j <=> <<s[i], s[j]>> \in Before
<1> DEFINE n == Cardinality(S)
           Ahead(x) == {y \in S : <<y, x>> \in Before}
           rank == [x \in S |-> Cardinality(Ahead(x))]
           s == InOrder(S, Before)
<1>1. n \in Nat
  BY FS_CardinalityType
<1>2. ASSUME NEW x \in S
      PROVE  rank[x] \in 0 .. n - 1 /\ IsFiniteSet(Ahead(x)) /\ rank[x] = Cardinality(Ahead(x))
  <2>1. Ahead(x) \in SUBSET S /\ x \notin Ahead(x) /\ rank[x] = Cardinality(Ahead(x))
    BY DEF StrictOn
  <2> DEFINE A == Ahead(x)
  <2> HIDE DEF A
  <2>2. A \in SUBSET S /\ x \notin A
    BY <2>1 DEF A
  <2>3. IsFiniteSet(A) /\ Cardinality(A) <= n /\ Cardinality(A) # n
    BY <2>2, FS_Subset
  <2>4. Cardinality(A) \in Nat
    BY <2>3, FS_CardinalityType
  <2>5. Cardinality(A) \in 0 .. n - 1
    <3> HIDE DEF n
    <3> QED BY <1>1, <2>3, <2>4
  <2> HIDE DEF rank, n
  <2> QED BY <2>1, <2>3, <2>5 DEF A
<1>3. ASSUME NEW x \in S, NEW y \in S, <<x, y>> \in Before
      PROVE  rank[x] < rank[y]
  <2> DEFINE A == Ahead(x)
             B == Ahead(y)
  <2>1. A \in SUBSET B /\ x \in B /\ x \notin A
    BY <1>3 DEF StrictOn
  <2>2. /\ IsFiniteSet(B) /\ rank[x] = Cardinality(A) /\ rank[y] = Cardinality(B)
        /\ rank[x] \in 0 .. n - 1 /\ rank[y] \in 0 .. n - 1
    <3> HIDE DEF rank, n
    <3> QED BY <1>2
  <2> HIDE DEF A, B, rank, n
  <2>3. Cardinality(A) <= Cardinality(B) /\ Cardinality(A) # Cardinality(B)
    BY <2>1, <2>2, FS_Subset
  <2> QED BY <1>1, <2>2, <2>3
<1>4. s = [i \in 1..n |-> CHOOSE x \in S : rank[x] = i - 1]
  <2>1. s = [i \in 1..n |-> CHOOSE x \in S : Cardinality(Ahead(x)) = i - 1]
    BY DEF InOrder
  <2>2. \A i \in 1..n : (CHOOSE x \in S : Cardinality(Ahead(x)) = i - 1) = (CHOOSE x \in S : rank[x] = i - 1)
    <3> TAKE i \in 1..n
    <3> DEFINE b == i - 1
    <3> HIDE DEF b
    <3>1. \A x \in S : rank[x] = b <=> Cardinality(Ahead(x)) = b
      OBVIOUS
    <3>2. (CHOOSE x \in S : Cardinality(Ahead(x)) = b) = (CHOOSE x \in S : rank[x] = b)
      BY <3>1
    <3> QED BY <3>2 DEF b
  <2> HIDE DEF rank
  <2> QED BY <2>1, <2>2
<1>5. \A x \in S : rank[x] \in 0 .. n - 1
  BY <1>2
<1> HIDE DEF rank, s, n
<1>6. ASSUME NEW x \in S, NEW y \in S, rank[x] = rank[y]
      PROVE  x = y
  <2>1. <<x, y>> \notin Before
    BY <1>1, <1>3, <1>5, <1>6
  <2>2. <<y, x>> \notin Before
    BY <1>1, <1>3, <1>5, <1>6
  <2> QED BY <2>1, <2>2 DEF StrictOn
<1>7. ASSUME NEW i \in 1..n
      PROVE  \E x \in S : rank[x] = i - 1
  <2> DEFINE f == [x \in S |-> rank[x] + 1]
  <2>1. f \in [S -> 1..n]
    BY <1>1, <1>5
  <2>2. \A x, y \in S : f[x] = f[y] => x = y
    <3> TAKE x, y \in S
    <3>1. f[x] = rank[x] + 1 /\ f[y] = rank[y] + 1 /\ rank[x] \in Int /\ rank[y] \in Int
      BY <1>1, <1>5
    <3> HIDE DEF f
    <3> QED BY <1>6, <3>1
  <2>3. IsFiniteSet(1..n) /\ Cardinality(1..n) = n
    BY <1>1, UpToNumber
  <2>4. \A x \in S : f[x] = rank[x] + 1
    OBVIOUS
  <2> HIDE DEF f
  <2> DEFINE to == 1..n
  <2>5. f \in Injection(S, to)
    BY <2>1, <2>2 DEF Injection, IsInjective
  <2>6. Cardinality(S) = Cardinality(to) /\ IsFiniteSet(to)
    BY <2>3 DEF n
  <2>7. f \in Surjection(S, to)
    <3> HIDE DEF to
    <3> QED BY <2>5, <2>6, FS_Injection
  <2>8. PICK x \in S : f[x] = i
    BY <2>7 DEF Surjection
  <2>9. rank[x] + 1 = i /\ rank[x] \in Int
    BY <1>1, <1>5, <2>4, <2>8
  <2> QED BY <2>9
<1>8. ASSUME NEW i \in 1..n
      PROVE  s[i] \in S /\ rank[s[i]] = i - 1
  <2>1. s[i] = CHOOSE x \in S : rank[x] = i - 1
    BY <1>4
  <2> QED BY <1>7, <2>1
<1>9. s \in [1..n -> S]
  <2>1. \A i \in 1..n : s[i] \in S
    BY <1>8
  <2> QED BY <1>4, <2>1
<1>10. ASSUME NEW x \in S
       PROVE  \E i \in 1..n : s[i] = x
  <2> DEFINE i == rank[x] + 1
  <2>1. i \in 1..n /\ i - 1 = rank[x]
    BY <1>1, <1>5
  <2> HIDE DEF i
  <2>2. s[i] \in S /\ rank[s[i]] = rank[x]
    BY <1>8, <2>1
  <2> QED BY <1>6, <2>1, <2>2
<1>11. ASSUME NEW i \in 1..n, NEW j \in 1..n
       PROVE  i < j <=> <<s[i], s[j]>> \in Before
  <2>1. s[i] \in S /\ s[j] \in S /\ rank[s[i]] = i - 1 /\ rank[s[j]] = j - 1 /\ i \in Int /\ j \in Int
    BY <1>1, <1>8
  <2>2. <<s[i], s[j]>> \in Before => i < j
    BY <1>3, <2>1
  <2>3. <<s[j], s[i]>> \in Before => j < i
    BY <1>3, <2>1
  <2>4. s[i] = s[j] => i = j
    BY <2>1
  <2> QED BY <2>1, <2>2, <2>3, <2>4 DEF StrictOn
<1> QED BY <1>1, <1>9, <1>10, <1>11 DEF s, n

-----------------------------------------------------------------------------
(***************************************************************************)
(* Pages of a list that changes                                            *)
(***************************************************************************)
Distinct(rows) == \A m, n \in DOMAIN rows : rows[m] = rows[n] => m = n
RowsGood(rows) == rows \in Seq(Nat) /\ Distinct(rows)

\* What is in both lists is in the same order in both.
SameOrder(rows, next) ==
  \A m, n \in DOMAIN rows, i, j \in DOMAIN next :
    rows[m] = next[i] /\ rows[n] = next[j] /\ m < n => i < j

\* All due entries before the marker have been seen.
NoneMissed(rows, due, read, mark) ==
  mark <= Len(rows) /\ \A m \in 1..mark : rows[m] \in due => rows[m] \in ToSet(read)

\* Nothing has been seen twice, and nothing behind the marker.
NoneTwice(rows, read, mark) ==
  Distinct(read) /\ \A m \in DOMAIN rows : rows[m] \in ToSet(read) => m <= mark

LEMMA MembersOfList ==
  ASSUME NEW rows, NEW x
  PROVE  x \in ToSet(rows) <=> \E i \in DOMAIN rows : rows[i] = x
BY DEF ToSet

\* As long as no entry before the marker leaves the list, none is missed.
LEMMA StillNoneMissed ==
  ASSUME NEW rows, RowsGood(rows), NEW next, RowsGood(next), SameOrder(rows, next),
         NEW due, due \subseteq ToSet(rows), NEW read, NEW mark \in Nat, NoneMissed(rows, due, read, mark),
         ToSet(SubSeq(rows, 1, mark)) \subseteq ToSet(next)
  PROVE  NoneMissed(next, due \cap ToSet(next), read, mark)
<1>1. /\ Len(rows) \in Nat /\ DOMAIN rows = 1..Len(rows) /\ Len(next) \in Nat /\ DOMAIN next = 1..Len(next)
      /\ mark <= Len(rows)
  BY DEF RowsGood, NoneMissed
<1>2. ASSUME NEW m \in 1..mark
      PROVE  \E i \in 1..Len(next) : next[i] = rows[m]
  <2> DEFINE front == SubSeq(rows, 1, mark)
  <2>1. m \in DOMAIN front /\ front[m] = rows[m]
    BY <1>1 DEF RowsGood
  <2> HIDE DEF front
  <2>2. rows[m] \in ToSet(front)
    BY <2>1, MembersOfList
  <2>3. rows[m] \in ToSet(next)
    BY <2>2 DEF front
  <2> QED BY <1>1, <2>3, MembersOfList
<1> DEFINE place == [m \in 1..mark |-> CHOOSE i \in 1..Len(next) : next[i] = rows[m]]
<1>3. \A m \in 1..mark : place[m] \in 1..Len(next) /\ next[place[m]] = rows[m]
  BY <1>2
<1>4. DOMAIN place = 1..mark /\ place = [m \in 1..mark |-> place[m]]
  OBVIOUS
<1> HIDE DEF place
<1>5. \A a, b \in 1..mark : place[a] = place[b] => a = b
  <2>1. \A m, n \in DOMAIN rows : rows[m] = rows[n] => m = n
    BY DEF RowsGood, Distinct
  <2> TAKE a, b \in 1..mark
  <2>2. a \in DOMAIN rows /\ b \in DOMAIN rows
    BY <1>1
  <2> QED BY <1>3, <2>1, <2>2
<1>6. mark <= Len(next)
  <2>1. place \in [1..mark -> 1..Len(next)]
    BY <1>3, <1>4
  <2> QED BY <1>1, <1>5, <2>1, NoRoom
<1>7. ASSUME NEW m \in 1..mark, next[m] \in due, next[m] \notin ToSet(read)
      PROVE  FALSE
  <2>1. PICK k \in 1..Len(rows) : rows[k] = next[m]
    BY <1>1, <1>7, MembersOfList
  <2>2. k > mark
    BY <1>1, <1>7, <2>1 DEF NoneMissed
  <2>3. ASSUME NEW a \in 1..mark PROVE place[a] \in 1 .. m - 1
    <3>1. a \in DOMAIN rows /\ k \in DOMAIN rows /\ place[a] \in DOMAIN next /\ m \in DOMAIN next
          /\ rows[a] = next[place[a]] /\ rows[k] = next[m] /\ a < k
      BY <1>1, <1>3, <1>6, <2>1, <2>2
    <3>2. place[a] < m
      BY <3>1 DEF SameOrder
    <3> QED BY <1>1, <1>3, <3>2
  <2>4. place \in [1..mark -> 1 .. m - 1]
    BY <1>4, <2>3
  <2> DEFINE last == m - 1
  <2>5. last \in Nat
    BY <1>1
  <2> HIDE DEF last
  <2>6. place \in [1..mark -> 1..last]
    BY <2>4 DEF last
  <2>7. mark <= last
    BY <1>5, <2>5, <2>6, NoRoom
  <2> QED BY <1>1, <2>7 DEF last
<1> QED BY <1>6, <1>7 DEF NoneMissed

\* As long as no entry comes in, none is seen twice.
LEMMA StillNoneTwice ==
  ASSUME NEW rows, RowsGood(rows), NEW next, RowsGood(next), SameOrder(rows, next),
         NEW read, NEW mark \in Nat, NoneTwice(rows, read, mark), ToSet(next) \subseteq ToSet(rows)
  PROVE  NoneTwice(next, read, mark)
<1>1. Len(rows) \in Nat /\ DOMAIN rows = 1..Len(rows) /\ Len(next) \in Nat /\ DOMAIN next = 1..Len(next)
  BY DEF RowsGood
<1>2. ASSUME NEW j \in 1..Len(next)
      PROVE  \E k \in 1..Len(rows) : rows[k] = next[j]
  <2>1. next[j] \in ToSet(rows)
    BY <1>1, MembersOfList
  <2> QED BY <1>1, <2>1, MembersOfList
<1>3. ASSUME NEW i \in 1..Len(next), next[i] \in ToSet(read)
      PROVE  i <= mark
  <2>1. PICK k \in 1..Len(rows) : rows[k] = next[i]
    BY <1>2
  <2>2. k <= mark
    BY <1>1, <1>3, <2>1 DEF NoneTwice
  <2> DEFINE was == [j \in 1..i |-> CHOOSE h \in 1..Len(rows) : rows[h] = next[j]]
  <2>3. \A j \in 1..i : was[j] \in 1..Len(rows) /\ rows[was[j]] = next[j]
    <3> TAKE j \in 1..i
    <3>1. j \in 1..Len(next)
      BY <1>1
    <3> QED BY <1>2, <3>1
  <2>4. was = [j \in 1..i |-> was[j]]
    OBVIOUS
  <2> HIDE DEF was
  <2>5. \A a, b \in 1..i : was[a] = was[b] => a = b
    <3>1. \A a, b \in DOMAIN next : next[a] = next[b] => a = b
      BY DEF RowsGood, Distinct
    <3> TAKE a, b \in 1..i
    <3>2. a \in DOMAIN next /\ b \in DOMAIN next
      BY <1>1
    <3> QED BY <2>3, <3>1, <3>2
  <2>6. ASSUME NEW j \in 1..i PROVE was[j] \in 1..k
    <3>1. j \in DOMAIN next /\ i \in DOMAIN next /\ was[j] \in DOMAIN rows /\ k \in DOMAIN rows
          /\ rows[was[j]] = next[j] /\ rows[k] = next[i] /\ j <= i
      BY <1>1, <2>1, <2>3
    <3>2. ~(k < was[j])
      BY <1>1, <3>1 DEF SameOrder
    <3> QED BY <1>1, <3>1, <3>2
  <2>7. was \in [1..i -> 1..k]
    BY <2>4, <2>6
  <2>8. i <= k
    <3>1. i \in Nat /\ k \in Nat
      BY <1>1
    <3> QED BY <2>5, <2>7, <3>1, NoRoom
  <2> QED BY <1>1, <2>2, <2>8
<1> QED BY <1>1, <1>3 DEF NoneTwice

LEMMA ListedOnce ==
  ASSUME NEW s, s \in Seq(Nat), Distinct(s)
  PROVE  Cardinality(ToSet(s)) = Len(s)
<1> DEFINE from == DOMAIN s
           to == ToSet(s)
<1>1. Len(s) \in Nat /\ from = 1..Len(s) /\ s = [i \in from |-> s[i]]
  OBVIOUS
<1>2. IsFiniteSet(from) /\ Cardinality(from) = Len(s)
  BY <1>1, UpToNumber
<1>3. s \in Surjection(from, to) /\ s \in Injection(from, to)
  BY <1>1, MembersOfList DEF Surjection, Injection, IsInjective, Distinct
<1> HIDE DEF from, to
<1>4. Cardinality(to) = Cardinality(from)
  BY <1>2, <1>3, FS_Surjection
<1> QED BY <1>2, <1>4 DEF to

\* The items follow the mark in the rows; the marker is behind them, or they reach the end.
IsPage(rows, mark, items, marker) ==
  LET end == mark + Len(items)
  IN /\ items \in Seq(Nat) /\ end \in Nat /\ marker \in Nat
     /\ \A k \in 1..Len(items) : mark + k \in DOMAIN rows /\ items[k] = rows[mark + k]
     /\ marker = 0 => Len(rows) <= end
     /\ marker # 0 => marker = end /\ end <= Len(rows)

LEMMA PageIs ==
  ASSUME NEW rows, RowsGood(rows), NEW mark \in Nat
  PROVE  IsPage(rows, mark, PageFrom(rows, mark).items, PageFrom(rows, mark).marker)
<1> DEFINE n == IF mark + PageSize < Len(rows) THEN mark + PageSize ELSE Len(rows)
           items == SubSeq(rows, mark + 1, n)
           end == mark + Len(items)
           marker == Marker(rows, end)
<1>1. Len(rows) \in Nat /\ DOMAIN rows = 1..Len(rows) /\ rows \in Seq(Nat) /\ PageSize \in Nat /\ PageSize # 0
  BY ConsoleAssumption DEF RowsGood
<1>2. n \in Nat /\ n <= Len(rows) /\ n <= mark + PageSize /\ (n = mark + PageSize \/ n = Len(rows))
  <2> DEFINE k == Len(rows)
             size == PageSize
  <2>1. k \in Nat /\ size \in Nat
    BY <1>1
  <2> HIDE DEF k, size
  <2>2. n = IF mark + size < k THEN mark + size ELSE k
    BY DEF k, size
  <2> HIDE DEF n
  <2>3. n \in Nat /\ n <= k /\ n <= mark + size /\ (n = mark + size \/ n = k)
    BY <2>1, <2>2
  <2> QED BY <2>3 DEF k, size
<1>3. PageFrom(rows, mark).items = items /\ PageFrom(rows, mark).marker = marker
  BY DEF PageFrom
<1> HIDE DEF n
<1> DEFINE start == mark + 1
<1>4. start \in Nat /\ start = mark + 1 /\ \A k \in start .. n : k \in 1..Len(rows) /\ rows[k] \in Nat
  <2>1. \A k \in DOMAIN rows : rows[k] \in Nat
    BY DEF RowsGood
  <2> DEFINE len == Len(rows)
  <2>2. len \in Nat /\ n \in Nat /\ n <= len
    BY <1>1, <1>2
  <2> HIDE DEF len
  <2>3. start \in Nat /\ \A k \in start .. n : k \in 1..len
    BY <2>2
  <2> QED BY <1>1, <2>1, <2>3 DEF len
<1> HIDE DEF start
<1>5. /\ SubSeq(rows, start, n) \in Seq(Nat)
      /\ Len(SubSeq(rows, start, n)) = IF start <= n THEN n - start + 1 ELSE 0
      /\ \A i \in 1 .. n - start + 1 : SubSeq(rows, start, n)[i] = rows[start + i - 1]
  <2>1. start \in Int /\ n \in Int /\ \A i \in start .. n : rows[i] \in Nat
    BY <1>2, <1>4
  <2> QED BY <2>1, SubSeqProperties
<1>6. items = SubSeq(rows, start, n)
  BY DEF start
<1> HIDE DEF items
<1>7. /\ items \in Seq(Nat) /\ Len(items) \in Nat
      /\ Len(items) = (IF mark + 1 <= n THEN n - mark ELSE 0)
      /\ \A k \in 1..Len(items) : mark + k \in 1..Len(rows) /\ items[k] = rows[mark + k]
  <2>1. Len(items) \in Nat /\ Len(items) = (IF mark + 1 <= n THEN n - mark ELSE 0)
    BY <1>2, <1>4, <1>5, <1>6
  <2>2. ASSUME NEW k \in 1..Len(items)
        PROVE  mark + k \in 1..Len(rows) /\ items[k] = rows[mark + k]
    <3> DEFINE len == Len(rows)
               m == Len(items)
    <3>1. len \in Nat /\ n \in Nat /\ n <= len /\ m \in Nat /\ m = (IF mark + 1 <= n THEN n - mark ELSE 0)
          /\ start = mark + 1 /\ k \in 1..m
      BY <1>1, <1>2, <1>4, <2>1
    <3> HIDE DEF len, m
    <3>2. k \in 1 .. n - start + 1 /\ start + k - 1 = mark + k /\ mark + k \in 1..len
      BY <3>1
    <3> QED BY <1>5, <1>6, <3>2 DEF len
  <2> QED BY <1>5, <1>6, <2>1, <2>2
<1>8. /\ end \in Nat /\ (end = 0 => Len(rows) = 0) /\ (end < Len(rows) => end = n)
  <2> DEFINE k == Len(rows)
             m == Len(items)
             size == PageSize
  <2>1. k \in Nat /\ m \in Nat /\ size \in Nat /\ size # 0 /\ m = (IF mark + 1 <= n THEN n - mark ELSE 0)
        /\ n \in Nat /\ n <= k /\ (n = mark + size \/ n = k)
    BY <1>1, <1>2, <1>7
  <2> HIDE DEF k, m, size
  <2>2. /\ mark + m \in Nat /\ (mark + m = 0 => k = 0) /\ (mark + m < k => mark + m = n)
    BY <2>1
  <2> QED BY <2>2 DEF k, m
<1>9. /\ marker \in Nat /\ (marker = 0 => Len(rows) <= end) /\ (marker # 0 => marker = end /\ end <= Len(rows))
  <2> DEFINE len == Len(rows)
  <2>1. len \in Nat /\ n \in Nat /\ n <= len /\ end \in Nat /\ (end = 0 => len = 0)
    BY <1>1, <1>2, <1>8
  <2> HIDE DEF len, end
  <2>2. marker = IF end < len THEN end ELSE 0
    BY DEF Marker, len
  <2> HIDE DEF marker
  <2>3. /\ marker \in Nat /\ (marker = 0 => len <= end) /\ (marker # 0 => marker = end /\ end <= len)
    BY <2>1, <2>2
  <2> QED BY <2>3 DEF len
<1> HIDE DEF end, marker
<1>10. \A k \in 1..Len(items) : mark + k \in DOMAIN rows /\ items[k] = rows[mark + k]
  BY <1>1, <1>7
<1> QED BY <1>3, <1>7, <1>8, <1>9, <1>10 DEF end, IsPage

\* What is listed after a page
LEMMA SeenAfterPage ==
  ASSUME NEW read, read \in Seq(Nat), NEW items, items \in Seq(Nat)
  PROVE  /\ read \o items \in Seq(Nat) /\ Len(read \o items) = Len(read) + Len(items)
         /\ Len(read) \in Nat /\ Len(items) \in Nat
         /\ DOMAIN (read \o items) = 1 .. Len(read) + Len(items)
         /\ \A a \in 1 .. Len(read) + Len(items) :
              (read \o items)[a] = IF a <= Len(read) THEN read[a] ELSE items[a - Len(read)]
         /\ \A x : x \in ToSet(read \o items) <=> x \in ToSet(read) \/ x \in ToSet(items)
<1>1. /\ read \o items \in Seq(Nat) /\ Len(read \o items) = Len(read) + Len(items)
      /\ Len(read) \in Nat /\ Len(items) \in Nat
      /\ DOMAIN (read \o items) = 1 .. Len(read) + Len(items)
      /\ DOMAIN read = 1 .. Len(read) /\ DOMAIN items = 1 .. Len(items)
  OBVIOUS
<1>2. \A a \in 1 .. Len(read) + Len(items) :
        (read \o items)[a] = IF a <= Len(read) THEN read[a] ELSE items[a - Len(read)]
  OBVIOUS
<1> DEFINE all == read \o items
<1> HIDE DEF all
<1>3. ASSUME NEW x
      PROVE  x \in ToSet(all) <=> x \in ToSet(read) \/ x \in ToSet(items)
  <2>1. ASSUME x \in ToSet(all) PROVE x \in ToSet(read) \/ x \in ToSet(items)
    <3>1. PICK a \in DOMAIN all : all[a] = x
      BY <2>1, MembersOfList
    <3>2. a \in 1 .. Len(read) + Len(items)
      BY <1>1, <3>1 DEF all
    <3>3. CASE a <= Len(read)
      <4>1. a \in DOMAIN read /\ read[a] = x
        BY <1>1, <1>2, <3>1, <3>2, <3>3 DEF all
      <4> QED BY <4>1, MembersOfList
    <3>4. CASE ~(a <= Len(read))
      <4>1. a - Len(read) \in DOMAIN items /\ items[a - Len(read)] = x
        BY <1>1, <1>2, <3>1, <3>2, <3>4 DEF all
      <4> QED BY <4>1, MembersOfList
    <3> QED BY <3>3, <3>4
  <2>2. ASSUME x \in ToSet(read) PROVE x \in ToSet(all)
    <3>1. PICK a \in DOMAIN read : read[a] = x
      BY <2>2, MembersOfList
    <3>2. a \in DOMAIN all /\ all[a] = x
      BY <1>1, <1>2, <3>1 DEF all
    <3> QED BY <3>2, MembersOfList
  <2>3. ASSUME x \in ToSet(items) PROVE x \in ToSet(all)
    <3>1. PICK a \in DOMAIN items : items[a] = x
      BY <2>3, MembersOfList
    <3>2. a + Len(read) \in DOMAIN all /\ all[a + Len(read)] = x
      BY <1>1, <1>2, <3>1 DEF all
    <3> QED BY <3>2, MembersOfList
  <2> QED BY <2>1, <2>2, <2>3
<1> QED BY <1>1, <1>2, <1>3 DEF all

\* Turning the page: what was due before the new marker has been seen, at the end all of it.
LEMMA TurnMissesNone ==
  ASSUME NEW rows, RowsGood(rows), NEW mark \in Nat, NEW read, read \in Seq(Nat),
         NEW due, due \subseteq ToSet(rows), NoneMissed(rows, due, read, mark)
  PROVE  LET page == PageFrom(rows, mark)
         IN /\ page.marker # 0 => NoneMissed(rows, due, read \o page.items, page.marker)
            /\ page.marker = 0 => due \subseteq ToSet(read \o page.items)
<1> DEFINE items == PageFrom(rows, mark).items
           marker == PageFrom(rows, mark).marker
           end == mark + Len(items)
           all == read \o items
<1>1. IsPage(rows, mark, items, marker)
  BY PageIs
<1> HIDE DEF items, marker
<1>2. /\ items \in Seq(Nat) /\ end \in Nat /\ Len(items) \in Nat
      /\ \A k \in 1..Len(items) : mark + k \in DOMAIN rows /\ items[k] = rows[mark + k]
      /\ marker \in Nat /\ (marker = 0 => Len(rows) <= end) /\ (marker # 0 => marker = end /\ end <= Len(rows))
  BY <1>1 DEF IsPage
<1>3. Len(rows) \in Nat /\ DOMAIN rows = 1..Len(rows)
  BY DEF RowsGood
<1>4. DOMAIN items = 1..Len(items)
  BY <1>2
<1>5. ASSUME NEW m \in 1..Len(rows), m <= end, rows[m] \in due
      PROVE  rows[m] \in ToSet(all)
  <2>1. CASE m <= mark
    <3>1. rows[m] \in ToSet(read)
      BY <1>3, <1>5, <2>1 DEF NoneMissed
    <3> QED BY <1>2, <3>1, SeenAfterPage
  <2>2. CASE ~(m <= mark)
    <3>1. m - mark \in 1..Len(items) /\ mark + (m - mark) = m
      BY <1>2, <1>3, <1>5, <2>2
    <3>2. items[m - mark] = rows[m]
      BY <1>2, <3>1
    <3>3. rows[m] \in ToSet(items)
      BY <1>4, <3>1, <3>2, MembersOfList
    <3> QED BY <1>2, <3>3, SeenAfterPage
  <2> QED BY <2>1, <2>2
<1> HIDE DEF all, end
<1>6. ASSUME marker # 0 PROVE NoneMissed(rows, due, all, marker)
  <2>1. \A m \in 1..marker : m \in 1..Len(rows) /\ m <= end
    BY <1>2, <1>3, <1>6
  <2> QED BY <1>2, <1>5, <1>6, <2>1 DEF NoneMissed
<1>7. ASSUME marker = 0, NEW x \in due PROVE x \in ToSet(all)
  <2>1. PICK m \in DOMAIN rows : rows[m] = x
    BY MembersOfList
  <2>2. m \in 1..Len(rows) /\ m <= end
    BY <1>2, <1>3, <1>7
  <2> QED BY <1>5, <2>1, <2>2
<1> QED BY <1>6, <1>7 DEF all, items, marker

\* and nothing is seen twice.
LEMMA TurnRepeatsNone ==
  ASSUME NEW rows, RowsGood(rows), NEW mark \in Nat, NEW read, read \in Seq(Nat), NoneTwice(rows, read, mark)
  PROVE  LET page == PageFrom(rows, mark)
         IN /\ page.marker # 0 => NoneTwice(rows, read \o page.items, page.marker)
            /\ Distinct(read \o page.items)
<1> DEFINE items == PageFrom(rows, mark).items
           marker == PageFrom(rows, mark).marker
           end == mark + Len(items)
           all == read \o items
<1>1. IsPage(rows, mark, items, marker)
  BY PageIs
<1> HIDE DEF items, marker
<1>2. /\ items \in Seq(Nat) /\ end \in Nat /\ Len(items) \in Nat
      /\ \A k \in 1..Len(items) : mark + k \in DOMAIN rows /\ items[k] = rows[mark + k]
      /\ marker \in Nat /\ (marker = 0 => Len(rows) <= end) /\ (marker # 0 => marker = end /\ end <= Len(rows))
  BY <1>1 DEF IsPage
<1>3. Len(rows) \in Nat /\ DOMAIN rows = 1..Len(rows) /\ Distinct(rows) /\ Distinct(read)
  BY DEF RowsGood, NoneTwice
<1>4. DOMAIN items = 1..Len(items) /\ DOMAIN read = 1..Len(read) /\ Len(read) \in Nat
  BY <1>2
<1>5. /\ DOMAIN all = 1 .. Len(read) + Len(items)
      /\ \A a \in 1 .. Len(read) + Len(items) : all[a] = IF a <= Len(read) THEN read[a] ELSE items[a - Len(read)]
      /\ \A x : x \in ToSet(all) <=> x \in ToSet(read) \/ x \in ToSet(items)
  BY <1>2, SeenAfterPage
<1> HIDE DEF all
<1>6. \A k \in DOMAIN items : items[k] \notin ToSet(read)
  <2> TAKE k \in DOMAIN items
  <2>1. mark + k \in DOMAIN rows /\ items[k] = rows[mark + k] /\ ~(mark + k <= mark)
    BY <1>2, <1>4
  <2> QED BY <2>1 DEF NoneTwice
<1>7. \A j, k \in DOMAIN items : items[j] = items[k] => j = k
  <2> TAKE j, k \in DOMAIN items
  <2>1. mark + j \in DOMAIN rows /\ items[j] = rows[mark + j] /\ mark + k \in DOMAIN rows
        /\ items[k] = rows[mark + k] /\ j \in Nat /\ k \in Nat
    BY <1>2, <1>4
  <2>2. items[j] = items[k] => mark + j = mark + k
    BY <1>3, <2>1 DEF Distinct
  <2> QED BY <2>1, <2>2
<1>8. ASSUME NEW a \in DOMAIN all, NEW b \in DOMAIN all, all[a] = all[b]
      PROVE  a = b
  <2> DEFINE n == Len(read)
  <2>1. n \in Nat /\ a \in Nat /\ b \in Nat
    BY <1>2, <1>4, <1>5
  <2>2. \A c \in DOMAIN all : c <= n => c \in DOMAIN read /\ all[c] = read[c] /\ all[c] \in ToSet(read)
    <3> TAKE c \in DOMAIN all
    <3> HAVE c <= n
    <3>1. c \in DOMAIN read /\ all[c] = read[c]
      BY <1>2, <1>4, <1>5
    <3> QED BY <3>1, MembersOfList
  <2>3. \A c \in DOMAIN all : ~(c <= n) => c - n \in DOMAIN items /\ all[c] = items[c - n]
    BY <1>2, <1>4, <1>5
  <2> HIDE DEF n
  <2>4. CASE a <= n /\ b <= n
    BY <1>3, <1>8, <2>2, <2>4 DEF Distinct
  <2>5. CASE ~(a <= n) /\ ~(b <= n)
    <3>1. a - n = b - n
      BY <1>7, <1>8, <2>3, <2>5
    <3> QED BY <2>1, <3>1
  <2>6. CASE (a <= n) # (b <= n)
    BY <1>6, <1>8, <2>2, <2>3, <2>6
  <2> QED BY <2>4, <2>5, <2>6
<1>9. Distinct(all)
  BY <1>8 DEF Distinct
<1>10. ASSUME marker # 0, NEW m \in DOMAIN rows, rows[m] \in ToSet(all)
      PROVE  m <= marker
  <2>1. CASE rows[m] \in ToSet(read)
    <3>1. m <= mark
      BY <2>1 DEF NoneTwice
    <3> QED BY <1>2, <1>3, <1>10, <3>1
  <2>2. CASE rows[m] \in ToSet(items)
    <3>1. PICK k \in DOMAIN items : items[k] = rows[m]
      BY <2>2, MembersOfList
    <3>2. mark + k \in DOMAIN rows /\ rows[mark + k] = rows[m]
      BY <1>2, <1>4, <3>1
    <3>3. m = mark + k
      BY <1>3, <3>2 DEF Distinct
    <3> QED BY <1>2, <1>4, <1>10, <3>1, <3>3
  <2> QED BY <1>5, <1>10, <2>1, <2>2
<1> QED BY <1>9, <1>10 DEF NoneTwice, all, items, marker

-----------------------------------------------------------------------------
(***************************************************************************)
(* The lists that are read                                                 *)
(***************************************************************************)
StepNames == {"PENDING", "RUNNING"} \cup StepEndings
Cluster == [id : Nat, created : Nat, state : ClusterStates, steps : Seq(StepNames)]

\* Clusters as the repository holds them: in the order of their ids
Sound(cs) == cs \in Seq(Cluster) /\ \A i, j \in DOMAIN cs : i < j => cs[i].id < cs[j].id

\* What was created stays, in its place.
Grows(cs, next) ==
  DOMAIN cs \subseteq DOMAIN next /\ \A i \in DOMAIN cs : next[i].id = cs[i].id /\ next[i].created = cs[i].created

LEMMA SoundParts ==
  ASSUME NEW cs, Sound(cs)
  PROVE  /\ Len(cs) \in Nat /\ DOMAIN cs = 1..Len(cs) /\ IsFiniteSet(DOMAIN cs)
         /\ \A i \in DOMAIN cs : cs[i] \in Cluster /\ cs[i].id \in Nat /\ cs[i].created \in Nat
         /\ \A i, j \in DOMAIN cs : cs[i].id = cs[j].id => i = j
<1>1. Len(cs) \in Nat /\ DOMAIN cs = 1..Len(cs) /\ \A i \in DOMAIN cs : cs[i] \in Cluster
  BY DEF Sound
<1>2. IsFiniteSet(DOMAIN cs)
  BY <1>1, UpToNumber
<1>3. \A i \in DOMAIN cs : cs[i].id \in Nat /\ cs[i].created \in Nat
  BY <1>1 DEF Cluster
<1>4. ASSUME NEW i \in DOMAIN cs, NEW j \in DOMAIN cs, cs[i].id = cs[j].id
      PROVE  i = j
  <2>1. ~(i < j) /\ ~(j < i) /\ i \in Nat /\ j \in Nat
    BY <1>1, <1>3, <1>4 DEF Sound
  <2> QED BY <2>1
<1> QED BY <1>1, <1>2, <1>3, <1>4

\* The rows of ListClusters: those that match, the latest first
LEMMA ClusterRowsAre ==
  ASSUME NEW cs, Sound(cs), NEW f
  PROVE  LET rows == ClusterRows(cs, f)
         IN /\ RowsGood(rows)
            /\ \A m \in DOMAIN rows : \E i \in DOMAIN cs : rows[m] = cs[i].id
            /\ \A i \in DOMAIN cs : Matches(cs[i], f) => cs[i].id \in ToSet(rows)
            /\ \A m, n \in DOMAIN rows, i, j \in DOMAIN cs :
                 rows[m] = cs[i].id /\ rows[n] = cs[j].id => (m < n <=> Latest(cs, i, j))
<1> DEFINE all == DOMAIN cs
           S == {i \in all : Matches(cs[i], f)}
           Before == {p \in all \X all : Latest(cs, p[1], p[2])}
           n == Cardinality(S)
           order == InOrder(S, Before)
           rows == ClusterRows(cs, f)
<1>1. /\ Len(cs) \in Nat /\ all = 1..Len(cs) /\ IsFiniteSet(all)
      /\ \A i \in all : cs[i].id \in Nat /\ cs[i].created \in Nat
      /\ \A i, j \in all : cs[i].id = cs[j].id => i = j
  BY SoundParts
<1>2. rows = [k \in DOMAIN order |-> cs[order[k]].id]
  BY DEF ClusterRows
<1>3. ASSUME NEW i \in all, NEW j \in all
      PROVE  <<i, j>> \in Before <=> Latest(cs, i, j)
  <2>1. <<i, j>> \in all \X all /\ <<i, j>>[1] = i /\ <<i, j>>[2] = j
    OBVIOUS
  <2> QED BY <2>1
<1> HIDE DEF Before, rows
<1>4. StrictOn(S, Before)
  <2>1. \A x \in S : <<x, x>> \notin Before
    BY <1>1, <1>3 DEF Latest
  <2>2. ASSUME NEW x \in S, NEW y \in S, NEW z \in S, <<x, y>> \in Before, <<y, z>> \in Before
        PROVE  <<x, z>> \in Before
    <3>1. Latest(cs, x, y) /\ Latest(cs, y, z)
      BY <1>3, <2>2
    <3>2. x \in Nat /\ y \in Nat /\ z \in Nat /\ cs[x].created \in Nat /\ cs[y].created \in Nat /\ cs[z].created \in Nat
      BY <1>1
    <3>3. Latest(cs, x, z)
      BY <3>1, <3>2 DEF Latest
    <3> QED BY <1>3, <3>3
  <2>3. ASSUME NEW x \in S, NEW y \in S
        PROVE  x = y \/ <<x, y>> \in Before \/ <<y, x>> \in Before
    <3>1. x \in Nat /\ y \in Nat /\ cs[x].created \in Nat /\ cs[y].created \in Nat
      BY <1>1
    <3>2. x = y \/ Latest(cs, x, y) \/ Latest(cs, y, x)
      BY <3>1 DEF Latest
    <3> QED BY <1>3, <3>2
  <2> HIDE DEF S
  <2> QED BY <2>1, <2>2, <2>3 DEF StrictOn
<1>5. IsFiniteSet(S)
  <2>1. S \in SUBSET all
    OBVIOUS
  <2> HIDE DEF S, all
  <2> QED BY <1>1, <2>1, FS_Subset
<1>6. /\ n \in Nat /\ order \in [1..n -> S]
      /\ \A x \in S : \E i \in 1..n : order[i] = x
      /\ \A i, j \in 1..n : i < j <=> <<order[i], order[j]>> \in Before
  <2> HIDE DEF S
  <2> QED BY <1>4, <1>5, InOrderIsSorted
<1> HIDE DEF order, n
<1>7. DOMAIN order = 1..n /\ DOMAIN rows = 1..n /\ \A k \in 1..n : order[k] \in all /\ rows[k] = cs[order[k]].id
  BY <1>2, <1>6
<1>8. ASSUME NEW a \in DOMAIN rows, NEW b \in DOMAIN rows, NEW i \in all, NEW j \in all,
             rows[a] = cs[i].id, rows[b] = cs[j].id
      PROVE  a < b <=> Latest(cs, i, j)
  <2>1. order[a] = i /\ order[b] = j
    BY <1>1, <1>7, <1>8
  <2> QED BY <1>3, <1>6, <1>7, <2>1
<1>9. rows \in Seq(Nat)
  <2>1. rows = [k \in 1..n |-> cs[order[k]].id] /\ \A k \in 1..n : cs[order[k]].id \in Nat
    BY <1>1, <1>2, <1>7
  <2> QED BY <1>6, <2>1
<1>10. Distinct(rows)
  <2> SUFFICES ASSUME NEW a \in DOMAIN rows, NEW b \in DOMAIN rows, rows[a] = rows[b] PROVE a = b
    BY DEF Distinct
  <2>1. order[a] \in all /\ rows[a] = cs[order[a]].id /\ a \in Nat /\ b \in Nat
    BY <1>6, <1>7
  <2>2. order[a] \in Nat /\ cs[order[a]].created \in Nat
    BY <1>1, <2>1
  <2>3. ~Latest(cs, order[a], order[a])
    BY <2>2 DEF Latest
  <2>4. ~(a < b) /\ ~(b < a)
    BY <1>8, <2>1, <2>3
  <2> QED BY <2>1, <2>4
<1>11. ASSUME NEW i \in all, Matches(cs[i], f)
       PROVE  cs[i].id \in ToSet(rows)
  <2>1. PICK k \in 1..n : order[k] = i
    BY <1>6, <1>11
  <2> QED BY <1>7, <2>1, MembersOfList
<1> QED BY <1>7, <1>8, <1>9, <1>10, <1>11 DEF RowsGood, rows

LEMMA FirstSteps ==
  ASSUME NEW cs, Sound(cs), cs # << >>
  PROVE  cs[1].steps \in Seq(StepNames)
<1>1. Len(cs) \in Nat /\ DOMAIN cs = 1..Len(cs) /\ \A i \in DOMAIN cs : cs[i] \in Cluster
  BY SoundParts
<1>2. Len(cs) # 0
  BY DEF Sound
<1>3. cs[1] \in Cluster
  BY <1>1, <1>2
<1> QED BY <1>3 DEF Cluster

\* The rows of ListSteps: numbers of steps, the greatest first
LEMMA StepRowsAre ==
  ASSUME NEW steps, steps \in Seq(StepNames), NEW states
  PROVE  LET rows == StepRows(steps, states)
         IN RowsGood(rows) /\ \A m, n \in DOMAIN rows : m < n <=> rows[m] > rows[n]
<1> DEFINE all == DOMAIN steps
           S == {i \in all : states = {} \/ steps[i] \in states}
           Before == {p \in all \X all : p[1] > p[2]}
           n == Cardinality(S)
           rows == StepRows(steps, states)
<1>1. Len(steps) \in Nat /\ all = 1..Len(steps) /\ IsFiniteSet(all)
  BY UpToNumber
<1>2. ASSUME NEW i \in all, NEW j \in all
      PROVE  <<i, j>> \in Before <=> i > j
  <2>1. <<i, j>> \in all \X all /\ <<i, j>>[1] = i /\ <<i, j>>[2] = j
    OBVIOUS
  <2> QED BY <2>1
<1>3. rows = InOrder(S, Before)
  BY DEF StepRows
<1>4. S \in SUBSET all
  OBVIOUS
<1> HIDE DEF S, Before, rows, all
<1>5. StrictOn(S, Before)
  <2>1. \A x \in S : x \in all /\ x \in Nat
    BY <1>1, <1>4
  <2>2. \A x \in S : <<x, x>> \notin Before
    BY <1>2, <2>1
  <2>3. ASSUME NEW x \in S, NEW y \in S, NEW z \in S, <<x, y>> \in Before, <<y, z>> \in Before
        PROVE  <<x, z>> \in Before
    <3>1. x > y /\ y > z /\ x \in Nat /\ y \in Nat /\ z \in Nat
      BY <1>2, <2>1, <2>3
    <3>2. x > z
      BY <3>1
    <3> QED BY <1>2, <2>1, <3>2
  <2>4. ASSUME NEW x \in S, NEW y \in S
        PROVE  x = y \/ <<x, y>> \in Before \/ <<y, x>> \in Before
    <3>1. x \in Nat /\ y \in Nat
      BY <2>1
    <3>2. x = y \/ x > y \/ y > x
      BY <3>1
    <3> QED BY <1>2, <2>1, <3>2
  <2> QED BY <2>2, <2>3, <2>4 DEF StrictOn
<1>6. IsFiniteSet(S)
  BY <1>1, <1>4, FS_Subset
<1> DEFINE order == InOrder(S, Before)
<1>7. n \in Nat /\ order \in [1..n -> S] /\ \A i, j \in 1..n : i < j <=> <<order[i], order[j]>> \in Before
  BY <1>5, <1>6, InOrderIsSorted
<1> HIDE DEF n, order
<1>8. n \in Nat /\ rows \in [1..n -> S] /\ \A i, j \in 1..n : i < j <=> <<rows[i], rows[j]>> \in Before
  BY <1>3, <1>7 DEF order
<1>9. ASSUME NEW a \in 1..n PROVE rows[a] \in all /\ rows[a] \in Nat
  <2>1. rows[a] \in S
    BY <1>8
  <2>2. \A i \in all : i \in Nat
    BY <1>1
  <2> QED BY <1>4, <2>1, <2>2
<1>10. \A a, b \in 1..n : a < b <=> rows[a] > rows[b]
  BY <1>2, <1>8, <1>9
<1>11. DOMAIN rows = 1..n
  BY <1>8
<1>12. rows \in Seq(Nat)
  <2>1. rows = [a \in 1..n |-> rows[a]]
    BY <1>8
  <2> QED BY <1>8, <1>9, <2>1
<1>13. Distinct(rows)
  BY <1>8, <1>9, <1>10, <1>11 DEF Distinct
<1> QED BY <1>10, <1>11, <1>12, <1>13 DEF RowsGood, rows

LEMMA RowsAreGood ==
  ASSUME NEW cs, Sound(cs), NEW l
  PROVE  RowsGood(Rows(cs, l))
<1>1. CASE scope.reads = "clusters"
  BY <1>1, ClusterRowsAre DEF Rows
<1>2. CASE scope.reads # "clusters" /\ cs = << >>
  <2>1. Rows(cs, l) = << >>
    BY <1>2 DEF Rows
  <2>2. << >> \in Seq(Nat) /\ \A k \in DOMAIN << >> : FALSE
    OBVIOUS
  <2>3. RowsGood(<< >>)
    BY <2>2 DEF RowsGood, Distinct
  <2> QED BY <2>1, <2>3
<1>3. CASE scope.reads # "clusters" /\ cs # << >>
  <2>1. cs[1].steps \in Seq(StepNames)
    BY <1>3, FirstSteps
  <2>2. Rows(cs, l) = StepRows(cs[1].steps, l.filter.states)
    BY <1>3 DEF Rows
  <2> QED BY <2>1, <2>2, StepRowsAre
<1> QED BY <1>1, <1>2, <1>3

\* A row keeps its place among the others whatever comes and goes.
LEMMA RowsKeepOrder ==
  ASSUME NEW cs, Sound(cs), NEW next, Sound(next), Grows(cs, next), NEW l
  PROVE  SameOrder(Rows(cs, l), Rows(next, l))
<1> SUFFICES ASSUME NEW a \in DOMAIN Rows(cs, l), NEW b \in DOMAIN Rows(cs, l),
                    NEW i \in DOMAIN Rows(next, l), NEW j \in DOMAIN Rows(next, l),
                    Rows(cs, l)[a] = Rows(next, l)[i], Rows(cs, l)[b] = Rows(next, l)[j], a < b
             PROVE  i < j
  BY DEF SameOrder
<1>1. CASE scope.reads = "clusters"
  <2>1. Rows(cs, l) = ClusterRows(cs, l.filter) /\ Rows(next, l) = ClusterRows(next, l.filter)
    BY <1>1 DEF Rows
  <2>2. PICK p \in DOMAIN cs, q \in DOMAIN cs : Rows(cs, l)[a] = cs[p].id /\ Rows(cs, l)[b] = cs[q].id
    BY <2>1, ClusterRowsAre
  <2>3. Latest(cs, p, q)
    BY <2>1, <2>2, ClusterRowsAre
  <2>4. p \in DOMAIN next /\ q \in DOMAIN next /\ next[p].id = cs[p].id /\ next[q].id = cs[q].id
        /\ next[p].created = cs[p].created /\ next[q].created = cs[q].created
    BY <2>2 DEF Grows
  <2>5. Latest(next, p, q)
    BY <2>3, <2>4 DEF Latest
  <2> QED BY <2>1, <2>2, <2>4, <2>5, ClusterRowsAre
<1>2. CASE scope.reads # "clusters"
  <2>1. ASSUME NEW ds, Sound(ds), NEW m \in DOMAIN Rows(ds, l), NEW n \in DOMAIN Rows(ds, l)
        PROVE  m < n <=> Rows(ds, l)[m] > Rows(ds, l)[n]
    <3>1. CASE ds = << >>
      <4>1. Rows(ds, l) = << >>
        BY <1>2, <3>1 DEF Rows
      <4>2. \A k \in DOMAIN << >> : FALSE
        OBVIOUS
      <4> QED BY <2>1, <4>1, <4>2
    <3>2. CASE ds # << >>
      <4>1. ds[1].steps \in Seq(StepNames)
        BY <2>1, <3>2, FirstSteps
      <4>2. Rows(ds, l) = StepRows(ds[1].steps, l.filter.states)
        BY <1>2, <3>2 DEF Rows
      <4> QED BY <2>1, <4>1, <4>2, StepRowsAre
    <3> QED BY <3>1, <3>2
  <2> QED BY <2>1
<1> QED BY <1>1, <1>2

-----------------------------------------------------------------------------
(***************************************************************************)
(* A listing that is open                                                  *)
(***************************************************************************)
Listings == [phase : {"open", "done"}, filter : Filters, offset : Nat, seen : Seq(Nat), due : SUBSET Nat,
             shrunk : BOOLEAN, grown : BOOLEAN]

\* Between two pages, l stands at its offset in the rows: what is due and before it has been seen,
\* and what has been seen is before it.
InPlace(rows, l) ==
  /\ l.due \subseteq ToSet(rows)
  /\ ~l.shrunk => NoneMissed(rows, l.due, l.seen, l.offset)
  /\ ~l.grown => NoneTwice(rows, l.seen, l.offset)

ReadWhole(l) ==
  /\ ~l.shrunk => l.due \subseteq ToSet(l.seen)
  /\ ~l.grown => Distinct(l.seen)

ListingKept(cs, l) ==
  \/ l = NoListing
  \/ /\ l \in Listings
     /\ l.phase = "open" => InPlace(Rows(cs, l), l)
     /\ l.phase = "done" => ReadWhole(l)

LEMMA RowsOfSameFilter ==
  ASSUME NEW cs, NEW l, NEW m, l.filter = m.filter
  PROVE  Rows(cs, l) = Rows(cs, m)
BY DEF Rows

\* The next page: what the client has read grows by it, and the listing is done with the last one.
LEMMA TurnKeeps ==
  ASSUME Sound(clusters), NEW l, l \in Listings, InPlace(Rows(clusters, l), l)
  PROVE  ListingKept(clusters, Turned(l))
<1> DEFINE rows == Rows(clusters, l)
           page == PageFrom(rows, l.offset)
           items == page.items
           marker == page.marker
           m == Turned(l)
<1>1. RowsGood(rows) /\ l.offset \in Nat /\ l.seen \in Seq(Nat) /\ l.due \subseteq ToSet(rows) /\ l.due \in SUBSET Nat
  BY RowsAreGood DEF Listings, InPlace
<1>2. m = [l EXCEPT !.seen = @ \o items, !.offset = marker, !.phase = IF marker = 0 THEN "done" ELSE "open"]
  BY DEF Turned
<1>3. items \in Seq(Nat) /\ marker \in Nat
  <2> HIDE DEF rows
  <2> QED BY <1>1, PageIs DEF IsPage
<1> HIDE DEF items, marker, m
<1>4. /\ m \in Listings /\ m.filter = l.filter /\ m.due = l.due /\ m.shrunk = l.shrunk /\ m.grown = l.grown
      /\ m.seen = l.seen \o items /\ m.offset = marker
      /\ m.phase = IF marker = 0 THEN "done" ELSE "open"
  <2>1. l.seen \o items \in Seq(Nat)
    BY <1>1, <1>3
  <2> QED BY <1>2, <1>3, <2>1 DEF Listings
<1>5. Rows(clusters, m) = rows
  BY <1>4, RowsOfSameFilter
<1>6. ASSUME ~l.shrunk
      PROVE  /\ marker # 0 => NoneMissed(rows, l.due, l.seen \o items, marker)
             /\ marker = 0 => l.due \subseteq ToSet(l.seen \o items)
  <2>1. NoneMissed(rows, l.due, l.seen, l.offset)
    BY <1>6 DEF InPlace
  <2> HIDE DEF rows
  <2> QED BY <1>1, <2>1, TurnMissesNone DEF items, marker
<1>7. ASSUME ~l.grown
      PROVE  (marker # 0 => NoneTwice(rows, l.seen \o items, marker)) /\ Distinct(l.seen \o items)
  <2>1. NoneTwice(rows, l.seen, l.offset)
    BY <1>7 DEF InPlace
  <2> HIDE DEF rows
  <2> QED BY <1>1, <2>1, TurnRepeatsNone DEF items, marker
<1> HIDE DEF rows
<1>8. CASE marker # 0
  <2>1. InPlace(rows, m) /\ m.phase = "open"
    BY <1>1, <1>4, <1>6, <1>7, <1>8 DEF InPlace
  <2> QED BY <1>4, <1>5, <2>1 DEF ListingKept, m
<1>9. CASE marker = 0
  <2>1. ReadWhole(m) /\ m.phase = "done"
    BY <1>4, <1>6, <1>7, <1>9 DEF ReadWhole
  <2> QED BY <1>4, <2>1 DEF ListingKept, m
<1> QED BY <1>8, <1>9

\* A change of the clusters in between
LEMMA NoticedKeeps ==
  ASSUME Sound(clusters), NEW cs, Sound(cs), Grows(clusters, cs), ListingKept(clusters, listing)
  PROVE  ListingKept(cs, Noticed(cs))
<1>1. CASE listing.phase # "open"
  BY <1>1 DEF Noticed, ListingKept
<1>2. CASE listing.phase = "open"
  <2> DEFINE l == listing
             rows == Rows(clusters, l)
             next == Rows(cs, l)
             before == ToSet(rows)
             after == ToSet(next)
             gone == ~(ToSet(SubSeq(rows, 1, l.offset)) \subseteq after)
             came == ~(after \subseteq before)
             m == Noticed(cs)
  <2>1. l \in Listings /\ InPlace(rows, l)
    BY <1>2 DEF ListingKept, NoListing
  <2>2. l.offset \in Nat /\ l.due \subseteq ToSet(rows) /\ l.due \in SUBSET Nat
    BY <2>1 DEF Listings, InPlace
  <2>3. RowsGood(rows) /\ RowsGood(next) /\ SameOrder(rows, next)
    BY RowsAreGood, RowsKeepOrder
  <2>4. m = [l EXCEPT !.due = @ \cap after, !.shrunk = @ \/ gone, !.grown = @ \/ came]
    BY <1>2 DEF Noticed
  <2>5. gone \in BOOLEAN /\ came \in BOOLEAN
    OBVIOUS
  <2> HIDE DEF gone, came, m, rows, next, before, after
  <2>6. /\ m \in Listings /\ m.filter = l.filter /\ m.due = l.due \cap after /\ m.seen = l.seen /\ m.offset = l.offset
        /\ m.phase = "open" /\ m.shrunk = (l.shrunk \/ gone) /\ m.grown = (l.grown \/ came)
    <3>1. l.due \cap after \in SUBSET Nat
      BY <2>2
    <3> QED BY <1>2, <2>1, <2>4, <2>5, <3>1 DEF Listings
  <2>7. Rows(cs, m) = next
    BY <2>6, RowsOfSameFilter DEF next
  <2>8. ASSUME ~m.shrunk
        PROVE  NoneMissed(next, m.due, m.seen, m.offset)
    <3>1. ~l.shrunk /\ ToSet(SubSeq(rows, 1, l.offset)) \subseteq ToSet(next)
      BY <2>6, <2>8 DEF gone, after
    <3>2. NoneMissed(rows, l.due, l.seen, l.offset)
      BY <2>1, <3>1 DEF InPlace
    <3>3. NoneMissed(next, l.due \cap ToSet(next), l.seen, l.offset)
      BY <2>2, <2>3, <3>1, <3>2, StillNoneMissed
    <3> QED BY <2>6, <3>3 DEF after
  <2>9. ASSUME ~m.grown
        PROVE  NoneTwice(next, m.seen, m.offset)
    <3>1. ~l.grown /\ ToSet(next) \subseteq ToSet(rows)
      BY <2>6, <2>9 DEF came, after, before
    <3>2. NoneTwice(rows, l.seen, l.offset)
      BY <2>1, <3>1 DEF InPlace
    <3>3. NoneTwice(next, l.seen, l.offset)
      BY <2>2, <2>3, <3>1, <3>2, StillNoneTwice
    <3> QED BY <2>6, <3>3
  <2>10. InPlace(next, m)
    BY <2>6, <2>8, <2>9 DEF InPlace, after
  <2> QED BY <2>6, <2>7, <2>10 DEF ListingKept, m
<1> QED BY <1>1, <1>2

\* The first page
LEMMA BeginKeeps ==
  ASSUME Sound(clusters), NEW filter, filter \in Filters, BeginListing(filter)
  PROVE  ListingKept(clusters, listing')
<1> DEFINE l == [phase |-> "open", filter |-> filter, offset |-> 0, seen |-> << >>,
                 due |-> {}, shrunk |-> FALSE, grown |-> FALSE]
           rows == Rows(clusters, l)
           m == [l EXCEPT !.due = ToSet(rows)]
<1>1. listing' = Turned(m)
  BY DEF BeginListing
<1>2. RowsGood(rows)
  BY RowsAreGood
<1>3. ToSet(rows) \in SUBSET Nat
  BY <1>2 DEF RowsGood, ToSet
<1>4. << >> \in Seq(Nat) /\ ToSet(<< >>) = {} /\ Len(rows) \in Nat
  BY <1>2 DEF RowsGood, ToSet
<1> HIDE DEF rows
<1>5. l \in Listings /\ l.filter = filter /\ l.seen = << >> /\ l.offset = 0
  <2> DEFINE start == 0
             none == {}
             no == FALSE
  <2>1. start \in Nat /\ none \in SUBSET Nat /\ no \in BOOLEAN /\ start = 0
    OBVIOUS
  <2>2. l = [phase |-> "open", filter |-> filter, offset |-> start, seen |-> << >>,
             due |-> none, shrunk |-> no, grown |-> no]
    OBVIOUS
  <2> HIDE DEF l, start, none, no
  <2>3. l \in Listings
    BY <1>4, <2>1, <2>2 DEF Listings
  <2> QED BY <2>1, <2>2, <2>3
<1> HIDE DEF l
<1> DEFINE due == ToSet(rows)
<1> HIDE DEF due
<1>6. m = [l EXCEPT !.due = due] /\ due \in SUBSET Nat
  BY <1>3 DEF due
<1> HIDE DEF m
<1>7. m \in Listings /\ m.filter = l.filter /\ m.due = due /\ m.seen = l.seen /\ m.offset = l.offset
  BY <1>5, <1>6 DEF Listings
<1>8. m \in Listings /\ m.filter = filter /\ m.due = ToSet(rows) /\ m.seen = << >> /\ m.offset = 0
  BY <1>5, <1>7 DEF due
<1>9. Rows(clusters, m) = rows
  <2>1. l.filter = m.filter
    BY <1>5, <1>8
  <2> QED BY <2>1, RowsOfSameFilter DEF rows
<1>10. NoneMissed(rows, m.due, m.seen, m.offset)
  BY <1>4, <1>8 DEF NoneMissed
<1>11. NoneTwice(rows, m.seen, m.offset)
  BY <1>4, <1>8 DEF NoneTwice, Distinct
<1>12. InPlace(Rows(clusters, m), m)
  BY <1>8, <1>9, <1>10, <1>11 DEF InPlace
<1> QED BY <1>1, <1>8, <1>12, TurnKeeps

-----------------------------------------------------------------------------
(***************************************************************************)
(* What the clusters and the records can be                                *)
(***************************************************************************)
RecordStates == {"running", "completed", "failed", "interrupted"}
DurableRecords == [cluster : Nat, step : Nat, state : RecordStates, started : 0..MaxTime]

\* No cluster has an id that was not given out yet, or is from the future.
Timely(cs, last, time) == \A i \in DOMAIN cs : cs[i].id <= last /\ cs[i].created <= time

RepositoryInv ==
  /\ scope \in Scopes
  /\ Sound(clusters) /\ Timely(clusters, created, now)
  /\ durable \subseteq DurableRecords
  /\ now \in 1..MaxTime /\ created \in Nat

Replaced(cs, i, c) == [cs EXCEPT ![i] = c]

\* A cluster that changes keeps its place, its id and its time.
LEMMA ReplacedIsSound ==
  ASSUME NEW cs, Sound(cs), NEW i \in DOMAIN cs, NEW c \in Cluster, c.id = cs[i].id, c.created = cs[i].created,
         NEW last, NEW time, Timely(cs, last, time)
  PROVE  Sound(Replaced(cs, i, c)) /\ Grows(cs, Replaced(cs, i, c)) /\ Timely(Replaced(cs, i, c), last, time)
<1> DEFINE next == Replaced(cs, i, c)
<1>1. cs \in Seq(Cluster) /\ DOMAIN cs = 1..Len(cs) /\ Len(cs) \in Nat
  BY SoundParts DEF Sound
<1>2. next \in Seq(Cluster) /\ DOMAIN next = DOMAIN cs /\ \A j \in DOMAIN cs : next[j] = IF j = i THEN c ELSE cs[j]
  BY <1>1 DEF Replaced
<1> HIDE DEF next
<1>3. \A j \in DOMAIN cs : next[j].id = cs[j].id /\ next[j].created = cs[j].created
  BY <1>2
<1>4. Grows(cs, next)
  BY <1>2, <1>3 DEF Grows
<1>5. Sound(next)
  BY <1>2, <1>3 DEF Sound
<1>6. Timely(next, last, time)
  BY <1>2, <1>3 DEF Timely
<1> QED BY <1>4, <1>5, <1>6 DEF next

\* The steps of a cluster in memory are replaced.
LEMMA StepsReplaced ==
  ASSUME NEW c \in Cluster, NEW status \in ClusterStates, NEW steps \in Seq(StepNames)
  PROVE  /\ [c EXCEPT !.steps = steps] \in Cluster /\ [c EXCEPT !.state = status, !.steps = steps] \in Cluster
         /\ [c EXCEPT !.steps = steps].id = c.id /\ [c EXCEPT !.steps = steps].created = c.created
         /\ [c EXCEPT !.state = status, !.steps = steps].id = c.id
         /\ [c EXCEPT !.state = status, !.steps = steps].created = c.created
BY DEF Cluster

\* Whatever happens to the clusters in memory, they stay in order, and none gets another place.
Moves(cs) ==
  /\ clusters' = cs /\ listing' = Noticed(cs) /\ UNCHANGED <<scope, now, restarts, console>>
  /\ Sound(cs) /\ Grows(clusters, cs) /\ Timely(cs, created', now)

LEMMA CreateMoves ==
  ASSUME RepositoryInv, NEW n \in 0..1, CreateCluster(n)
  PROVE  \E cs : Moves(cs) /\ durable' \subseteq DurableRecords /\ created' \in Nat
<1> DEFINE c == [id |-> created + 1, created |-> now, state |-> "WAITING", steps |-> [k \in 1..n |-> "PENDING"]]
           cs == Append(clusters, c)
           steps == [k \in 1..n |-> "PENDING"]
           last == created + 1
<1>1. Change(cs) /\ created' = created + 1 /\ durable' = durable
  BY DEF CreateCluster
<1>2. steps \in Seq(StepNames) /\ last \in Nat /\ now \in Nat
  BY DEF RepositoryInv, StepNames
<1>3. c = [id |-> last, created |-> now, state |-> "WAITING", steps |-> steps]
  OBVIOUS
<1> HIDE DEF c, steps
<1>4. c \in Cluster /\ c.id = last /\ c.created = now
  BY <1>2, <1>3 DEF Cluster, ClusterStates
<1>5. /\ clusters \in Seq(Cluster) /\ DOMAIN clusters = 1..Len(clusters) /\ Len(clusters) \in Nat
      /\ \A i \in DOMAIN clusters : clusters[i].id \in Nat /\ clusters[i].created \in Nat
  BY SoundParts DEF RepositoryInv, Sound
<1>6. /\ cs \in Seq(Cluster) /\ DOMAIN cs = 1 .. Len(clusters) + 1
      /\ \A i \in DOMAIN clusters : i \in DOMAIN cs /\ cs[i] = clusters[i]
      /\ \A i \in DOMAIN cs : i \in DOMAIN clusters \/ i = Len(clusters) + 1
      /\ cs[Len(clusters) + 1] = c
  BY <1>4, <1>5
<1>7. created \in Nat /\ Timely(clusters, created, now) /\ Sound(clusters) /\ durable \subseteq DurableRecords
  BY DEF RepositoryInv
<1> HIDE DEF cs
<1>8. Grows(clusters, cs)
  BY <1>6 DEF Grows
<1>9. ASSUME NEW i \in DOMAIN cs, NEW j \in DOMAIN cs, i < j
      PROVE  cs[i].id < cs[j].id
  <2>1. i \in DOMAIN clusters /\ cs[i] = clusters[i]
    BY <1>5, <1>6, <1>9
  <2>2. CASE j \in DOMAIN clusters
    <3>1. cs[j] = clusters[j] /\ clusters[i].id < clusters[j].id
      BY <1>6, <1>7, <1>9, <2>1, <2>2 DEF Sound
    <3> QED BY <2>1, <3>1
  <2>3. CASE j = Len(clusters) + 1
    <3>1. cs[i].id \in Nat /\ cs[i].id <= created /\ cs[j].id = created + 1
      BY <1>4, <1>5, <1>6, <1>7, <2>1, <2>3 DEF Timely
    <3> QED BY <1>7, <3>1
  <2> QED BY <1>6, <2>2, <2>3
<1>10. Sound(cs)
  BY <1>6, <1>9 DEF Sound
<1>11. ASSUME NEW i \in DOMAIN cs
       PROVE  cs[i].id <= created + 1 /\ cs[i].created <= now
  <2>1. CASE i \in DOMAIN clusters
    <3>1. cs[i].id \in Nat /\ cs[i].id <= created /\ cs[i].created <= now
      BY <1>5, <1>6, <1>7, <2>1 DEF Timely
    <3> QED BY <1>7, <3>1
  <2>2. CASE i = Len(clusters) + 1
    BY <1>2, <1>4, <1>6, <2>2
  <2> QED BY <1>6, <2>1, <2>2
<1>12. Timely(cs, created', now)
  BY <1>1, <1>11 DEF Timely
<1> QED BY <1>1, <1>7, <1>8, <1>10, <1>12 DEF Moves, Change

\* One cluster changes, and the records are written that go with it.
LEMMA OneMoves ==
  ASSUME RepositoryInv, NEW i \in DOMAIN clusters, NEW c \in Cluster,
         c.id = clusters[i].id, c.created = clusters[i].created,
         Change(Replaced(clusters, i, c)), created' = created, durable' \subseteq DurableRecords
  PROVE  \E cs : Moves(cs) /\ durable' \subseteq DurableRecords /\ created' \in Nat
<1> DEFINE cs == Replaced(clusters, i, c)
<1>1. Sound(clusters) /\ Timely(clusters, created, now) /\ created \in Nat
  BY DEF RepositoryInv
<1>2. Sound(cs) /\ Grows(clusters, cs) /\ Timely(cs, created, now)
  BY <1>1, ReplacedIsSound
<1>3. Change(cs)
  OBVIOUS
<1> HIDE DEF cs
<1> QED BY <1>1, <1>2, <1>3 DEF Moves, Change

LEMMA StepsOf ==
  ASSUME RepositoryInv, NEW i \in DOMAIN clusters
  PROVE  /\ clusters[i] \in Cluster /\ clusters[i].steps \in Seq(StepNames) /\ clusters[i].id \in Nat
         /\ clusters[i].state \in ClusterStates
         /\ DOMAIN clusters[i].steps = 1..Len(clusters[i].steps) /\ Len(clusters[i].steps) \in Nat
<1>1. clusters[i] \in Cluster
  BY SoundParts DEF RepositoryInv
<1> QED BY <1>1 DEF Cluster

\* A step of a cluster in memory changes its state.
LEMMA StepChanges ==
  ASSUME RepositoryInv, NEW i \in DOMAIN clusters, NEW k \in DOMAIN clusters[i].steps, NEW status \in StepNames,
         Change([clusters EXCEPT ![i].steps[k] = status]), created' = created, durable' \subseteq DurableRecords
  PROVE  \E cs : Moves(cs) /\ durable' \subseteq DurableRecords /\ created' \in Nat
<1> DEFINE steps == [clusters[i].steps EXCEPT ![k] = status]
           c == [clusters[i] EXCEPT !.steps = steps]
<1>1. clusters[i] \in Cluster /\ clusters[i].steps \in Seq(StepNames) /\ clusters[i].state \in ClusterStates
  BY StepsOf
<1>2. steps \in Seq(StepNames)
  BY <1>1
<1>3. [clusters EXCEPT ![i].steps[k] = status] = Replaced(clusters, i, c)
  BY DEF Replaced
<1> HIDE DEF steps
<1>4. c \in Cluster /\ c.id = clusters[i].id /\ c.created = clusters[i].created
  BY <1>1, <1>2, StepsReplaced
<1> HIDE DEF c
<1> QED BY <1>3, <1>4, OneMoves

LEMMA AddStepsMoves ==
  ASSUME RepositoryInv, NEW i \in DOMAIN clusters, AddSteps(i)
  PROVE  \E cs : Moves(cs) /\ durable' \subseteq DurableRecords /\ created' \in Nat
<1> DEFINE steps == Append(clusters[i].steps, "PENDING")
           c == [clusters[i] EXCEPT !.steps = steps]
<1>1. clusters[i] \in Cluster /\ clusters[i].steps \in Seq(StepNames) /\ clusters[i].state \in ClusterStates
  BY StepsOf
<1>2. steps \in Seq(StepNames)
  BY <1>1 DEF StepNames
<1>3. [clusters EXCEPT ![i].steps = Append(@, "PENDING")] = Replaced(clusters, i, c)
  BY DEF Replaced
<1>4. /\ Change([clusters EXCEPT ![i].steps = Append(@, "PENDING")])
      /\ created' = created /\ durable' \subseteq DurableRecords
  BY DEF AddSteps, RepositoryInv
<1> HIDE DEF steps
<1>5. c \in Cluster /\ c.id = clusters[i].id /\ c.created = clusters[i].created
  BY <1>1, <1>2, StepsReplaced
<1> HIDE DEF c
<1> QED BY <1>3, <1>4, <1>5, OneMoves

\* The record of a step that starts is of its cluster and of this time.
LEMMA StartMoves ==
  ASSUME RepositoryInv, NEW i \in DOMAIN clusters, NEW k \in DOMAIN clusters[i].steps, StartStep(i, k)
  PROVE  \E cs : Moves(cs) /\ durable' \subseteq DurableRecords /\ created' \in Nat
<1> DEFINE r == [cluster |-> clusters[i].id, step |-> k, state |-> "running", started |-> now]
<1>1. Change([clusters EXCEPT ![i].steps[k] = "RUNNING"]) /\ created' = created /\ durable' = durable \cup {r}
  BY DEF StartStep
<1>2. clusters[i].id \in Nat /\ k \in Nat /\ now \in 0..MaxTime /\ durable \subseteq DurableRecords
  BY StepsOf, ConsoleAssumption DEF RepositoryInv
<1>3. r \in DurableRecords
  BY <1>2 DEF DurableRecords, RecordStates
<1> HIDE DEF r
<1>4. durable' \subseteq DurableRecords
  BY <1>1, <1>2, <1>3
<1> QED BY <1>1, <1>4, StepChanges DEF StepNames

LEMMA EndMoves ==
  ASSUME RepositoryInv, NEW i \in DOMAIN clusters, NEW k \in DOMAIN clusters[i].steps, NEW ending \in StepEndings,
         EndStep(i, k, ending)
  PROVE  \E cs : Moves(cs) /\ durable' \subseteq DurableRecords /\ created' \in Nat
<1> DEFINE status == IF ending = "COMPLETED" THEN "completed" ELSE "failed"
           new(r) == IF r.cluster = clusters[i].id /\ r.step = k THEN [r EXCEPT !.state = status] ELSE r
<1>1. /\ Change([clusters EXCEPT ![i].steps[k] = ending]) /\ created' = created
      /\ durable' = {new(r) : r \in durable}
  BY DEF EndStep
<1>2. ASSUME NEW r \in durable PROVE new(r) \in DurableRecords
  <2>1. r \in DurableRecords /\ status \in RecordStates
    BY DEF RepositoryInv, RecordStates
  <2>2. [r EXCEPT !.state = status] \in DurableRecords
    <3> HIDE DEF status
    <3> QED BY <2>1 DEF DurableRecords
  <2> QED BY <2>1, <2>2
<1> HIDE DEF new
<1>3. durable' \subseteq DurableRecords
  BY <1>1, <1>2
<1> QED BY <1>1, <1>3, StepChanges DEF StepNames

LEMMA EndClusterMoves ==
  ASSUME RepositoryInv, NEW i \in DOMAIN clusters, EndCluster(i)
  PROVE  \E cs : Moves(cs) /\ durable' \subseteq DurableRecords /\ created' \in Nat
<1> DEFINE old == clusters[i].steps
           steps == [k \in DOMAIN old |-> IF old[k] = "PENDING" THEN "CANCELLED" ELSE old[k]]
           status == "TERMINATED"
           c == [clusters[i] EXCEPT !.state = status, !.steps = steps]
           next == [clusters EXCEPT ![i].state = status, ![i].steps = steps]
<1>1. clusters[i] \in Cluster /\ old \in Seq(StepNames) /\ status \in ClusterStates
  BY StepsOf DEF ClusterStates
<1>2. steps \in Seq(StepNames)
  <2>1. DOMAIN old = 1..Len(old) /\ Len(old) \in Nat /\ \A k \in DOMAIN old : old[k] \in StepNames
    BY <1>1
  <2>2. \A k \in DOMAIN old : (IF old[k] = "PENDING" THEN "CANCELLED" ELSE old[k]) \in StepNames
    BY <2>1 DEF StepNames, StepEndings
  <2> QED BY <2>1, <2>2
<1>3. Change(next) /\ created' = created /\ durable' = durable
  <2> DEFINE half == [clusters EXCEPT ![i].state = status]
  <2>1. half[i].steps = old
    BY <1>1 DEF Cluster
  <2> QED BY <2>1 DEF EndCluster
<1> HIDE DEF steps, status
<1>4. next = Replaced(clusters, i, c)
  BY DEF Replaced
<1>5. c \in Cluster /\ c.id = clusters[i].id /\ c.created = clusters[i].created
  BY <1>1, <1>2, StepsReplaced
<1> HIDE DEF c, next
<1>6. durable \subseteq DurableRecords
  BY DEF RepositoryInv
<1> QED BY <1>3, <1>4, <1>5, <1>6, OneMoves

-----------------------------------------------------------------------------
(***************************************************************************)
(* The console                                                             *)
(***************************************************************************)
Views == [id : Nat, recovered : BOOLEAN, state : ClusterStates \cup {"TERMINATED_WITH_ERRORS"},
          steps : SUBSET (StepNames \cup {"INTERRUPTED"})]
Consoles == [phase : {"reading", "answered"}, live : SUBSET Nat, recorded : SUBSET Nat, shown : SUBSET Views]

ShownIds(c) == {v.id : v \in c.shown}

\* What was read is what was in memory, before the records are looked at,
ReadAll(c) == ShownIds(c) = c.live /\ \A v \in c.shown : ~v.recovered

\* and with them nothing is missing, and nothing in memory is shown as recovered.
ShowsAll(c) ==
  /\ \A v \in c.shown : v.recovered => v.id \notin c.live
  /\ c.live \subseteq ShownIds(c) /\ c.recorded \subseteq ShownIds(c)

ConsoleKept(c) ==
  \/ c = [phase |-> "idle"]
  \/ /\ c \in Consoles
     /\ c.phase = "reading" /\ Cardinality(c.live) <= PageSize => ReadAll(c)
     /\ c.phase = "answered" /\ Cardinality(c.live) <= PageSize => ShowsAll(c)

LEMMA LeastOf ==
  ASSUME NEW S, S \subseteq Nat, S # {}
  PROVE  \E m \in S : \A n \in S : m <= n
<1> DEFINE Smaller == {pair \in Nat \X Nat : pair[1] < pair[2]}
<1>1. IsWellFoundedOn(Smaller, Nat)
  BY NatLessThanWellFounded DEF OpToRel
<1>2. PICK m \in S : \A n \in S : <<n, m>> \notin Smaller
  <2> HIDE DEF Smaller
  <2> QED BY <1>1, WFMin
<1>3. ASSUME NEW n \in S PROVE m <= n
  <2>1. <<n, m>> \in Nat \X Nat /\ <<n, m>>[1] = n /\ <<n, m>>[2] = m
    OBVIOUS
  <2>2. ~(n < m)
    BY <1>2, <2>1
  <2> QED BY <2>1, <2>2
<1> QED BY <1>3

\* Of the records of a cluster one is the latest.
LEMMA LatestRecord ==
  ASSUME NEW records, records \subseteq DurableRecords, records # {}
  PROVE  \E r \in records : \A s \in records : s.started <= r.started
<1> DEFINE ages == {MaxTime - r.started : r \in records}
<1>1. MaxTime \in Nat /\ \A r \in records : r.started \in Nat /\ r.started <= MaxTime
  BY ConsoleAssumption DEF DurableRecords
<1>2. ages \subseteq Nat /\ ages # {}
  BY <1>1
<1>3. PICK m \in ages : \A n \in ages : m <= n
  <2> HIDE DEF ages
  <2> QED BY <1>2, LeastOf
<1>4. PICK r \in records : m = MaxTime - r.started
  OBVIOUS
<1>5. ASSUME NEW s \in records PROVE s.started <= r.started
  <2> DEFINE age == MaxTime - s.started
  <2>1. age \in ages
    OBVIOUS
  <2> HIDE DEF age, ages
  <2>2. m <= age
    BY <1>3, <2>1
  <2> QED BY <1>1, <1>4, <2>2 DEF age
<1> QED BY <1>5

LEMMA RecoveredViewIs ==
  ASSUME NEW records, records \subseteq DurableRecords, records # {}, NEW id, \A r \in records : r.cluster = id
  PROVE  RecoveredView(records) \in Views /\ RecoveredView(records).id = id /\ RecoveredView(records).recovered
<1> DEFINE latest == CHOOSE r \in records : \A s \in records : s.started <= r.started
           steps == {RecoveredStatus(r.state) : r \in records}
<1>1. latest \in records
  BY LatestRecord
<1> HIDE DEF latest
<1>2. latest.cluster = id /\ id \in Nat
  BY <1>1 DEF DurableRecords
<1>3. \A r \in records : RecoveredStatus(r.state) \in StepNames \cup {"INTERRUPTED"}
  BY DEF RecoveredStatus, StepNames, StepEndings
<1>4. steps \in SUBSET (StepNames \cup {"INTERRUPTED"})
  BY <1>3
<1>5. RecoveredView(records) =
        [id |-> latest.cluster, recovered |-> TRUE, state |-> "TERMINATED_WITH_ERRORS", steps |-> steps]
  BY DEF RecoveredView, latest
<1> HIDE DEF steps
<1> DEFINE yes == TRUE
<1>6. /\ RecoveredView(records) = [id |-> id, recovered |-> yes, state |-> "TERMINATED_WITH_ERRORS", steps |-> steps]
      /\ yes
  BY <1>2, <1>5
<1>7. yes \in BOOLEAN
  OBVIOUS
<1> HIDE DEF yes
<1> QED BY <1>2, <1>4, <1>6, <1>7 DEF Views

\* The views of the clusters that only have records: of each one, and of no other.
LEMMA RecoveredViewsAre ==
  ASSUME durable \subseteq DurableRecords, NEW known
  PROVE  /\ RecoveredViews(known) \subseteq Views
         /\ \A v \in RecoveredViews(known) : v.recovered /\ v.id \notin known
         /\ \A r \in durable : r.cluster \notin known => \E v \in RecoveredViews(known) : v.id = r.cluster
<1> DEFINE rest == Unclaimed(durable, known)
           ids == {r.cluster : r \in rest}
           of(id) == {r \in rest : r.cluster = id}
<1>1. rest \subseteq DurableRecords /\ \A r \in rest : r.cluster \notin known
  BY DEF Unclaimed
<1>2. \A r \in durable : r.cluster \notin known => r.cluster \in ids
  BY DEF Unclaimed
<1>3. ASSUME NEW id \in ids
      PROVE  /\ RecoveredView(of(id)) \in Views /\ RecoveredView(of(id)).id = id /\ RecoveredView(of(id)).recovered
             /\ id \notin known
  <2> DEFINE records == of(id)
  <2>1. records \subseteq DurableRecords /\ records # {} /\ (\A r \in records : r.cluster = id) /\ id \notin known
    BY <1>1
  <2> HIDE DEF records
  <2>2. RecoveredView(records) \in Views /\ RecoveredView(records).id = id /\ RecoveredView(records).recovered
    BY <2>1, RecoveredViewIs
  <2> QED BY <2>1, <2>2 DEF records
<1>4. RecoveredViews(known) = {RecoveredView(of(id)) : id \in ids}
  BY DEF RecoveredViews
<1> HIDE DEF ids, rest
<1>5. ASSUME NEW r \in durable, r.cluster \notin known
      PROVE  \E v \in RecoveredViews(known) : v.id = r.cluster
  <2> DEFINE id == r.cluster
  <2>1. id \in ids
    BY <1>2, <1>5
  <2> HIDE DEF id
  <2>2. RecoveredView(of(id)) \in RecoveredViews(known) /\ RecoveredView(of(id)).id = id
    BY <1>3, <1>4, <2>1
  <2> QED BY <2>2 DEF id
<1>6. \A v \in RecoveredViews(known) : v \in Views /\ v.recovered /\ v.id \notin known
  BY <1>3, <1>4
<1> QED BY <1>5, <1>6

\* A list no longer than a page is on the first one.
LEMMA FirstPage ==
  ASSUME NEW rows, RowsGood(rows), Cardinality(ToSet(rows)) <= PageSize
  PROVE  ToSet(PageFrom(rows, 0).items) = ToSet(rows)
<1> DEFINE len == Len(rows)
           n == IF 0 + PageSize < len THEN 0 + PageSize ELSE len
           items == SubSeq(rows, 0 + 1, n)
<1>1. rows \in Seq(Nat) /\ len \in Nat /\ PageSize \in Nat
  BY ConsoleAssumption DEF RowsGood
<1>2. len <= PageSize
  BY ListedOnce DEF RowsGood
<1>3. PageFrom(rows, 0).items = items
  BY DEF PageFrom
<1> DEFINE size == PageSize
<1>4. n = len
  <2>1. n = IF 0 + size < len THEN 0 + size ELSE len
    OBVIOUS
  <2>2. len \in Nat /\ size \in Nat /\ len <= size
    BY <1>1, <1>2
  <2> HIDE DEF len, size, n
  <2> QED BY <2>1, <2>2
<1>5. items = SubSeq(rows, 1, Len(rows))
  BY <1>4
<1>6. SubSeq(rows, 1, Len(rows)) = rows
  BY <1>1
<1> QED BY <1>3, <1>5, <1>6

LEMMA ReadsKeep ==
  ASSUME RepositoryInv, ConsoleReadsClusters
  PROVE  ConsoleKept(console')
<1> DEFINE rows == ClusterRows(clusters, NoFilter)
           page == ToSet(PageFrom(rows, 0).items)
           live == Ids(clusters)
           shown == {LiveView(clusters[i]) : i \in {i \in DOMAIN clusters : clusters[i].id \in page}}
           none == {}
           c == [phase |-> "reading", live |-> live, recorded |-> none, shown |-> shown]
<1>1. console' = c
  BY DEF ConsoleReadsClusters
<1>2. Sound(clusters) /\ Timely(clusters, created, now) /\ now \in 1..MaxTime /\ MaxTime \in Nat
  BY ConsoleAssumption DEF RepositoryInv
<1>3. \A i \in DOMAIN clusters : clusters[i] \in Cluster /\ clusters[i].id \in Nat /\ clusters[i].created \in Nat
  BY <1>2, SoundParts
<1>4. \A i \in DOMAIN clusters :
        /\ LiveView(clusters[i]) \in Views /\ LiveView(clusters[i]).id = clusters[i].id
        /\ ~LiveView(clusters[i]).recovered
  <2> TAKE i \in DOMAIN clusters
  <2> DEFINE no == FALSE
             x == clusters[i]
             names == ToSet(x.steps)
  <2>1. x \in Cluster
    BY <1>3
  <2> HIDE DEF x
  <2>2. x.id \in Nat /\ x.state \in ClusterStates /\ x.steps \in Seq(StepNames)
    BY <2>1 DEF Cluster
  <2>3. names \in SUBSET (StepNames \cup {"INTERRUPTED"})
    BY <2>2 DEF ToSet
  <2>4. LiveView(x) = [id |-> x.id, recovered |-> no, state |-> x.state, steps |-> names] /\ no \in BOOLEAN /\ ~no
    BY DEF LiveView
  <2> HIDE DEF names, no
  <2>5. LiveView(x) \in Views /\ LiveView(x).id = x.id /\ ~LiveView(x).recovered
    BY <2>2, <2>3, <2>4 DEF Views
  <2> QED BY <2>5 DEF x
<1>5. live \subseteq Nat /\ shown \subseteq Views /\ \A v \in shown : ~v.recovered
  BY <1>3, <1>4 DEF Ids
<1>6. ASSUME NEW x PROVE x \in {v.id : v \in shown} <=> x \in live /\ x \in page
  BY <1>4 DEF Ids
<1>7. RowsGood(rows) /\ ToSet(rows) = live
  <2>1. RowsGood(rows) /\ (\A m \in DOMAIN rows : \E i \in DOMAIN clusters : rows[m] = clusters[i].id)
        /\ \A i \in DOMAIN clusters : Matches(clusters[i], NoFilter) => clusters[i].id \in ToSet(rows)
    BY <1>2, ClusterRowsAre
  <2>2. \A i \in DOMAIN clusters : Matches(clusters[i], NoFilter)
    <3> TAKE i \in DOMAIN clusters
    <3>1. clusters[i].created \in Nat /\ clusters[i].created <= now
      BY <1>2, <1>3 DEF Timely
    <3>2. NoFilter.states = {} /\ NoFilter.after = 0 /\ NoFilter.before = MaxTime
      BY DEF NoFilter
    <3> QED BY <1>2, <3>1, <3>2 DEF Matches
  <2>3. \A x \in live : \E i \in DOMAIN clusters : x = clusters[i].id
    BY DEF Ids
  <2>4. \A i \in DOMAIN clusters : clusters[i].id \in live
    BY DEF Ids
  <2> HIDE DEF rows, live
  <2>5. \A x \in live : x \in ToSet(rows)
    BY <2>1, <2>2, <2>3
  <2>6. \A x \in ToSet(rows) : x \in live
    BY <2>1, <2>4, MembersOfList
  <2> QED BY <2>1, <2>5, <2>6
<1>8. ASSUME Cardinality(live) <= PageSize
      PROVE  {v.id : v \in shown} = live
  <2>1. page = live
    <3> HIDE DEF rows, live
    <3> QED BY <1>7, <1>8, FirstPage
  <2> QED BY <1>6, <2>1
<1>9. none \in SUBSET Nat
  OBVIOUS
<1> HIDE DEF live, shown, none
<1>10. c \in Consoles /\ c.phase = "reading" /\ c.live = live /\ c.shown = shown
  BY <1>5, <1>9 DEF Consoles
<1>11. Cardinality(live) <= PageSize => ReadAll(c)
  BY <1>5, <1>8, <1>10 DEF ReadAll, ShownIds
<1> HIDE DEF c
<1> QED BY <1>1, <1>10, <1>11 DEF ConsoleKept

LEMMA AnswersKeep ==
  ASSUME RepositoryInv, ConsoleKept(console), ConsoleAnswers
  PROVE  ConsoleKept(console')
<1> DEFINE c == console
           known == ShownIds(c)
           views == RecoveredViews(known)
           recorded == {r.cluster : r \in durable}
           d == console'
<1>1. c \in Consoles /\ c.phase = "reading" /\ (Cardinality(c.live) <= PageSize => ReadAll(c))
  BY DEF ConsoleAnswers, ConsoleKept
<1>2. d = [c EXCEPT !.phase = "answered", !.recorded = recorded, !.shown = @ \cup views]
  BY DEF ConsoleAnswers, ShownIds
<1>3. durable \subseteq DurableRecords
  BY DEF RepositoryInv
<1>4. /\ views \subseteq Views
      /\ \A v \in views : v.recovered /\ v.id \notin known
      /\ \A r \in durable : r.cluster \notin known => \E v \in views : v.id = r.cluster
  <2> HIDE DEF known
  <2> QED BY <1>3, RecoveredViewsAre
<1>5. recorded \in SUBSET Nat
  BY <1>3 DEF DurableRecords
<1> HIDE DEF views, recorded, d
<1>6. /\ d \in Consoles /\ d.phase = "answered" /\ d.live = c.live /\ d.recorded = recorded
      /\ d.shown = c.shown \cup views
  <2>1. c.shown \cup views \in SUBSET Views
    BY <1>1, <1>4 DEF Consoles
  <2> QED BY <1>1, <1>2, <1>5, <2>1 DEF Consoles
<1>7. ASSUME Cardinality(c.live) <= PageSize
      PROVE  ShowsAll(d)
  <2>1. known = c.live /\ \A v \in c.shown : ~v.recovered
    BY <1>1, <1>7 DEF ReadAll
  <2>2. \A v \in d.shown : v.recovered => v.id \notin d.live
    BY <1>4, <1>6, <2>1
  <2>3. \A x : x \in ShownIds(d) <=> x \in known \/ \E v \in views : v.id = x
    BY <1>6 DEF ShownIds
  <2> HIDE DEF known
  <2>4. d.live \subseteq ShownIds(d)
    BY <1>6, <2>1, <2>3
  <2>5. \A r \in durable : r.cluster \in ShownIds(d)
    BY <1>4, <2>3
  <2>6. d.recorded \subseteq ShownIds(d)
    BY <1>6, <2>5 DEF recorded
  <2> QED BY <2>2, <2>4, <2>6 DEF ShowsAll
<1> QED BY <1>6, <1>7 DEF ConsoleKept, d

-----------------------------------------------------------------------------
ConsoleInv ==
  /\ RepositoryInv
  /\ ListingKept(clusters, listing)
  /\ ConsoleKept(console)

LEMMA ConsoleInitially == ConsoleInit => ConsoleInv
<1> SUFFICES ASSUME ConsoleInit PROVE ConsoleInv
  OBVIOUS
<1>1. << >> \in Seq(Cluster) /\ DOMAIN << >> = {} /\ 1 \in 1..MaxTime
  BY ConsoleAssumption
<1>2. Sound(clusters) /\ Timely(clusters, created, now)
  BY <1>1 DEF ConsoleInit, Sound, Timely
<1> QED BY <1>1, <1>2 DEF ConsoleInit, ConsoleInv, RepositoryInv, ListingKept, ConsoleKept

\* A change of the clusters keeps the listing.
LEMMA MoveKeeps ==
  ASSUME ConsoleInv, NEW cs, Moves(cs), durable' \subseteq DurableRecords, created' \in Nat
  PROVE  ConsoleInv'
<1>1. /\ Sound(clusters) /\ ListingKept(clusters, listing) /\ ConsoleKept(console)
      /\ scope \in Scopes /\ now \in 1..MaxTime
  BY DEF ConsoleInv, RepositoryInv
<1>2. ListingKept(cs, Noticed(cs))
  BY <1>1, NoticedKeeps DEF Moves
<1>3. ListingKept(clusters, listing)'
  BY <1>2 DEF Moves, ListingKept, Rows
<1>4. ConsoleKept(console)'
  BY <1>1 DEF Moves, ConsoleKept
<1>5. RepositoryInv'
  BY <1>1 DEF Moves, RepositoryInv
<1> QED BY <1>3, <1>4, <1>5 DEF ConsoleInv

\* A step that leaves the clusters and the records alone
LEMMA ClientKeeps ==
  ASSUME ConsoleInv, UNCHANGED <<scope, clusters, durable, created, now>>,
         ListingKept(clusters, listing'), ConsoleKept(console')
  PROVE  ConsoleInv'
<1>1. RepositoryInv'
  BY DEF ConsoleInv, RepositoryInv
<1>2. ListingKept(clusters, listing)'
  BY DEF ListingKept, Rows
<1>3. ConsoleKept(console)'
  BY DEF ConsoleKept
<1> QED BY <1>1, <1>2, <1>3 DEF ConsoleInv

LEMMA TickKeeps ==
  ASSUME ConsoleInv, Tick
  PROVE  ConsoleInv'
<1>1. /\ now' = now + 1 /\ now < MaxTime /\ UNCHANGED <<scope, clusters, durable, created, listing, console>>
  BY DEF Tick
<1>2. RepositoryInv /\ ListingKept(clusters, listing) /\ ConsoleKept(console) /\ MaxTime \in Nat
  BY ConsoleAssumption DEF ConsoleInv
<1>3. now' \in 1..MaxTime
  BY <1>1, <1>2 DEF RepositoryInv
<1>4. Timely(clusters, created, now')
  <2>1. \A i \in DOMAIN clusters :
          clusters[i].created \in Nat /\ clusters[i].id <= created /\ clusters[i].created <= now
    BY <1>2, SoundParts DEF RepositoryInv, Timely
  <2>2. now \in Nat
    BY <1>2 DEF RepositoryInv
  <2> QED BY <1>1, <2>1, <2>2 DEF Timely
<1>5. RepositoryInv'
  BY <1>1, <1>2, <1>3, <1>4 DEF RepositoryInv
<1>6. ListingKept(clusters, listing)' /\ ConsoleKept(console)'
  BY <1>1, <1>2 DEF ListingKept, Rows, ConsoleKept
<1> QED BY <1>5, <1>6 DEF ConsoleInv

LEMMA RestartKeeps ==
  ASSUME ConsoleInv, RestartService
  PROVE  ConsoleInv'
<1> DEFINE new(r) == [r EXCEPT !.state = IF @ = "running" THEN "interrupted" ELSE @]
<1>1. /\ clusters' = << >> /\ listing' = NoListing /\ console' = [phase |-> "idle"]
      /\ durable' = {new(r) : r \in durable} /\ UNCHANGED <<scope, now, created>>
  BY DEF RestartService
<1>2. RepositoryInv
  BY DEF ConsoleInv
<1>3. ASSUME NEW r \in durable PROVE new(r) \in DurableRecords
  <2> DEFINE status == IF r.state = "running" THEN "interrupted" ELSE r.state
  <2>1. r \in DurableRecords /\ new(r) = [r EXCEPT !.state = status]
    BY <1>2 DEF RepositoryInv
  <2>2. status \in RecordStates
    BY <2>1 DEF DurableRecords, RecordStates
  <2> HIDE DEF status, new
  <2> QED BY <2>1, <2>2 DEF DurableRecords
<1> HIDE DEF new
<1>4. durable' \subseteq DurableRecords
  BY <1>1, <1>3
<1>5. << >> \in Seq(Cluster) /\ DOMAIN << >> = {}
  OBVIOUS
<1>6. Sound(<< >>) /\ Timely(<< >>, created, now)
  BY <1>5 DEF Sound, Timely
<1>7. RepositoryInv'
  BY <1>1, <1>2, <1>4, <1>6 DEF RepositoryInv
<1> QED BY <1>1, <1>7 DEF ConsoleInv, ListingKept, ConsoleKept

LEMMA ConsoleStepKeeps ==
  ASSUME ConsoleInv, [ConsoleNext]_consoleVars
  PROVE  ConsoleInv'
<1>1. RepositoryInv /\ Sound(clusters) /\ ListingKept(clusters, listing) /\ ConsoleKept(console) /\ scope \in Scopes
  BY DEF ConsoleInv, RepositoryInv
<1>2. ASSUME NEW n \in 0..1, CreateCluster(n) PROVE ConsoleInv'
  BY <1>1, <1>2, CreateMoves, MoveKeeps
<1>3. ASSUME NEW i \in DOMAIN clusters, AddSteps(i) PROVE ConsoleInv'
  BY <1>1, <1>3, AddStepsMoves, MoveKeeps
<1>4. ASSUME NEW i \in DOMAIN clusters, EndCluster(i) PROVE ConsoleInv'
  BY <1>1, <1>4, EndClusterMoves, MoveKeeps
<1>5. ASSUME NEW i \in DOMAIN clusters, NEW k \in DOMAIN clusters[i].steps, StartStep(i, k) PROVE ConsoleInv'
  BY <1>1, <1>5, StartMoves, MoveKeeps
<1>6. ASSUME NEW i \in DOMAIN clusters, NEW k \in DOMAIN clusters[i].steps, NEW ending \in StepEndings,
             EndStep(i, k, ending)
      PROVE  ConsoleInv'
  BY <1>1, <1>6, EndMoves, MoveKeeps
<1>7. CASE Tick
  BY <1>7, TickKeeps
<1>8. CASE RestartService
  BY <1>8, RestartKeeps
<1>9. ASSUME NEW filter \in scope.filters, BeginListing(filter) PROVE ConsoleInv'
  <2>1. filter \in Filters
    BY <1>1, ConsoleAssumption
  <2>2. ListingKept(clusters, listing')
    BY <1>1, <1>9, <2>1, BeginKeeps
  <2>3. UNCHANGED <<scope, clusters, durable, created, now>> /\ ConsoleKept(console')
    BY <1>1, <1>9 DEF BeginListing
  <2> QED BY <2>2, <2>3, ClientKeeps
<1>10. CASE NextPage
  <2>1. listing \in Listings /\ InPlace(Rows(clusters, listing), listing)
    BY <1>1, <1>10 DEF NextPage, ListingKept, NoListing
  <2>2. ListingKept(clusters, listing')
    BY <1>1, <1>10, <2>1, TurnKeeps DEF NextPage
  <2>3. UNCHANGED <<scope, clusters, durable, created, now>> /\ ConsoleKept(console')
    BY <1>1, <1>10 DEF NextPage
  <2> QED BY <2>2, <2>3, ClientKeeps
<1>11. CASE ConsoleReadsClusters
  <2>1. ConsoleKept(console')
    BY <1>1, <1>11, ReadsKeep
  <2>2. UNCHANGED <<scope, clusters, durable, created, now>> /\ ListingKept(clusters, listing')
    BY <1>1, <1>11 DEF ConsoleReadsClusters
  <2> QED BY <2>1, <2>2, ClientKeeps
<1>12. CASE ConsoleAnswers
  <2>1. ConsoleKept(console')
    BY <1>1, <1>12, AnswersKeep
  <2>2. UNCHANGED <<scope, clusters, durable, created, now>> /\ ListingKept(clusters, listing')
    BY <1>1, <1>12 DEF ConsoleAnswers
  <2> QED BY <2>1, <2>2, ClientKeeps
<1>13. CASE UNCHANGED consoleVars
  <2>1. UNCHANGED <<scope, clusters, durable, created, now>> /\ listing' = listing /\ console' = console
    BY <1>13 DEF consoleVars
  <2> QED BY <1>1, <2>1, ClientKeeps
<1> QED BY <1>2, <1>3, <1>4, <1>5, <1>6, <1>7, <1>8, <1>9, <1>10, <1>11, <1>12, <1>13 DEF ConsoleNext

\* Between two pages a listing stands where everything due before its marker has been seen, and
\* nothing twice, whatever was created, started, ended or lost since; and the console, between its
\* two reads, has read what was in memory (EmrQueryHandler, Paginator, EmrManagementAdapter).
THEOREM ConsoleInvariant == ConsoleSpec => []ConsoleInv
<1>1. ConsoleInv /\ [ConsoleNext]_consoleVars => ConsoleInv'
  BY ConsoleStepKeeps
<1> QED BY ConsoleInitially, <1>1, PTL DEF ConsoleSpec

\* Whatever is created and ended between its pages, a listing returns every entry that matched from
\* its first page to its last unless one before its marker left the list, and none twice unless one
\* came in: for any page size and any filters (EmrQueryHandler, Paginator).
THEOREM ListingIsAlwaysComplete == ConsoleSpec => []ListingIsComplete
<1>1. ASSUME ConsoleInv PROVE ListingIsComplete
  <2> SUFFICES ASSUME listing.phase = "done" PROVE ListingIsComplete
    BY DEF ListingIsComplete
  <2>1. listing \in Listings /\ ReadWhole(listing)
    BY <1>1 DEF ConsoleInv, ListingKept, NoListing
  <2>2. listing.seen \in Seq(Nat)
    BY <2>1 DEF Listings
  <2>3. ~listing.grown => Cardinality(ToSet(listing.seen)) = Len(listing.seen)
    BY <2>1, <2>2, ListedOnce DEF ReadWhole
  <2> QED BY <2>1, <2>3 DEF ListingIsComplete, ReadWhole
<1> QED BY <1>1, ConsoleInvariant, PTL

\* As long as the clusters in memory fit on a page, the console shows each of them and each that
\* only has records, and none in memory as a recovered one (EmrManagementAdapter.resources).
THEOREM ConsoleAlwaysShowsEveryCluster == ConsoleSpec => []ConsoleShowsEveryCluster
<1>1. ASSUME ConsoleInv PROVE ConsoleShowsEveryCluster
  <2> SUFFICES ASSUME console.phase = "answered", Cardinality(console.live) <= PageSize
               PROVE  RecoveredIsGone /\ console.recorded \subseteq {v.id : v \in console.shown}
    BY DEF ConsoleShowsEveryCluster
  <2>1. ShowsAll(console)
    BY <1>1 DEF ConsoleInv, ConsoleKept
  <2> QED BY <2>1 DEF ShowsAll, ShownIds, RecoveredIsGone
<1> QED BY <1>1, ConsoleInvariant, PTL
=============================================================================
