------------------------- MODULE GlueOpenTableFormat -------------------------
(***************************************************************************)
(* CreateTable and UpdateTable with an open table format.  The service     *)
(* writes a new metadata file to the object store first and then publishes *)
(* it by a catalog transaction; when anything fails on the way it deletes  *)
(* the file again.  Between the read of the table, the read of its         *)
(* metadata, the write and the transaction every other request may run.    *)
(*                                                                         *)
(* A call to the object store runs on a thread that a cancellation of the  *)
(* request does not stop, so its effect may come late.                     *)
(***************************************************************************)
EXTENDS GlueCatalog, GlueIcebergMetadata

\* The parts of an input, as the mapper of the request gives them
IsSpec(spec) ==
  /\ Len(spec.fields) \in Nat /\ DOMAIN spec.fields = 1 .. Len(spec.fields)
  /\ \A i \in DOMAIN spec.fields : spec.fields[i].id \in Nat

\* A session starts with tables that point to files of their own, each as CREATE wrote it, and no
\* command but a publication names a file.
ASSUME FormatAssumption ==
  /\ NoFile \notin Nat
  /\ \A name \in DOMAIN CatalogSessions :
       LET session == CatalogSessions[name]
           tables == StoresAfter(session.setup)[Len(session.setup)].tables
           pointed == {tables[t].location : t \in DOMAIN tables} \ {NoFile}
       IN /\ pointed = 1 .. Cardinality(pointed)
          /\ \A t \in DOMAIN tables : tables[t].location # NoFile =>
               LET input == session.files[tables[t].location]
                   doc == CreateDocument(input)
               IN /\ IsSpec(input.spec) /\ Accepted(doc)
                  /\ tables[t].columns = GlueColumns(CurrentSchema(doc)) /\ tables[t].previous = NoFile
          /\ \A request \in session.requests :
               /\ request.kind \in {"single", "batch"} => \A i \in 1 .. Len(request.ops) :
                    request.ops[i].kind \in {"CreateTable", "UpdateTable"} => request.ops[i].location = NoFile
               /\ request.kind \in {"create", "update"} => request.name \in RawValues
               /\ request.kind = "create" => IsSpec(request.input.spec)
               /\ request.kind = "update" =>
                    Len(request.updates) \in Nat /\ \A i \in 1 .. Len(request.updates) : IsSpec(request.updates[i].spec)

VARIABLES
  files,         \* the object store: the metadata document at each location
  plan,          \* what each client's open table format request has planned
  late,          \* writes whose request was cancelled before they landed
  lastLocation,  \* identifiers make every candidate location new
  disowned,      \* history: locations whose request was cancelled and whose transaction committed
  mistaken       \* history: locations published over another table or version than was read,
                 \* with the version the client named

formatVars == <<files, plan, late, lastLocation, disowned, mistaken>>

\* `read` is which table was read, and at which version
NoPlan == [location |-> NoFile, doc |-> Refused, base |-> NoFile,
           read |-> [created |-> -1, version |-> AnyVersion], request |-> << >>]
Publishing(c) == work[c].kind = "publish"
Step(w, pc) == [w EXCEPT !.pc = pc]
-----------------------------------------------------------------------------
Candidate(c, request, doc, base, read) ==
  /\ lastLocation' = lastLocation + 1
  /\ plan' = [plan EXCEPT ![c] = [location |-> lastLocation + 1, doc |-> doc, base |-> base,
                                   read |-> read, request |-> request]]

\* The table input that goes with a new document: its columns and the file it points to
Definition(request, location, doc) ==
  [kind |-> "CreateTable", database |-> request.database, name |-> request.name, keys |-> << >>,
   columns |-> GlueColumns(CurrentSchema(doc)), location |-> location, previous |-> NoFile]

\* OpenTableFormatCommands.create, up to the write of the candidate
SubmitCreate(c, request) ==
  LET doc == CreateDocument(request.input)
  IN /\ Accepts(c) /\ request.kind = "create"
     /\ budget' = budget - 1
     /\ Accepted(doc)
     /\ FindDatabase(store, request.database) # {}
     /\ FindTable(store, request.database, request.name) = {}
     /\ Candidate(c, request, doc, NoFile, NoPlan.read)
     /\ work' = [work EXCEPT ![c] = [Idle EXCEPT !.pc = "write", !.kind = "publish",
          !.ops = <<Definition(request, lastLocation + 1, doc)>>]]
     /\ UNCHANGED <<catalogSession, store, draft, writer, files, late, disowned, mistaken>>

\* OpenTableFormatCommands.update reads the table; the version it saw is the one it will expect,
\* unless the client names one.
SubmitUpdate(c, request) ==
  /\ Accepts(c) /\ request.kind = "update"
  /\ budget' = budget - 1
  /\ \E t \in FindTable(store, request.database, request.name) :
       LET table == store.tables[t]
       IN /\ table.location # NoFile
          /\ plan' = [plan EXCEPT ![c] = [NoPlan EXCEPT !.base = table.location, !.request = request,
                                 !.read = [created |-> table.created, version |-> table.version]]]
          /\ work' = [work EXCEPT ![c] = [Idle EXCEPT !.pc = "read", !.kind = "publish",
               !.ops = <<[kind |-> "UpdateTable", database |-> request.database, old |-> request.name,
                          name |-> request.name, keys |-> << >>, columns |-> table.columns, location |-> NoFile,
                          previous |-> table.location, skipArchive |-> request.skipArchive,
                          version |-> IF request.version = AnyVersion THEN table.version
                                      ELSE request.version]>>]]
  /\ UNCHANGED <<catalogSession, store, draft, writer, files, late, lastLocation, disowned, mistaken>>

\* the metadata cannot be read, or the planner refuses the updates: nothing was written
ReadFails(c) ==
  /\ At(c, "read")
  /\ \/ plan[c].base \notin DOMAIN files
     \/ "storeFails" \in Scenario.faults
     \/ "cancel" \in Scenario.faults
     \/ /\ plan[c].base \in DOMAIN files
        /\ ~Accepted(UpdateDocument(files[plan[c].base], plan[c].base, plan[c].request.updates))
  /\ work' = [work EXCEPT ![c] = Idle] /\ plan' = [plan EXCEPT ![c] = NoPlan]
  /\ UNCHANGED <<catalogSession, store, draft, writer, budget, files, late, lastLocation, disowned, mistaken>>

ReadMetadata(c) ==
  /\ At(c, "read") /\ plan[c].base \in DOMAIN files
  /\ LET doc == UpdateDocument(files[plan[c].base], plan[c].base, plan[c].request.updates)
     IN /\ Accepted(doc)
        /\ Candidate(c, plan[c].request, doc, plan[c].base, plan[c].read)
        /\ work' = [work EXCEPT ![c] = [@ EXCEPT !.pc = "write", !.ops[1].location = lastLocation + 1,
                                                  !.ops[1].columns = GlueColumns(CurrentSchema(doc))]]
  /\ UNCHANGED <<catalogSession, store, draft, writer, budget, files, late, disowned, mistaken>>

Put(location, doc) == files' = With(files, location, doc)
DeleteFile(location) == files' = Without(files, {location})

\* _write_candidate, and the transaction that follows it
WriteCandidate(c) ==
  /\ At(c, "write")
  /\ Put(plan[c].location, plan[c].doc)
  /\ work' = [work EXCEPT ![c] = Waiting(@)]
  /\ UNCHANGED <<catalogSession, store, draft, writer, budget, plan, late, lastLocation, disowned, mistaken>>

\* The write fails, with or without its effect, or the request is cancelled while the thread
\* still writes.
WriteFails(c) ==
  /\ At(c, "write")
  /\ \/ /\ "storeFails" \in Scenario.faults /\ UNCHANGED late
        /\ Put(plan[c].location, plan[c].doc) \/ UNCHANGED files
     \/ /\ "cancel" \in Scenario.faults /\ UNCHANGED files
        /\ late' = late \cup {[location |-> plan[c].location, doc |-> plan[c].doc]}
  /\ work' = [work EXCEPT ![c] = Step(@, "compensate")]
  /\ UNCHANGED <<catalogSession, store, draft, writer, budget, plan, lastLocation, disowned, mistaken>>

LateWrite ==
  /\ \E write \in late : Put(write.location, write.doc) /\ late' = late \ {write}
  /\ UNCHANGED <<catalogVars, plan, lastLocation, disowned, mistaken>>

\* The version is all that is compared: that of another table of the name, or one the client named
\* before it existed, may be the expected one.
Mistakes(c) ==
  /\ Op(c).kind = "UpdateTable"
  /\ \/ \E t \in FindTable(store, Op(c).database, Op(c).old) : store.tables[t].created # plan[c].read.created
     \/ plan[c].request.version \notin {AnyVersion, plan[c].read.version}

\* the commit of a publication, with what the history keeps of it
Publish(c) ==
  /\ Publishing(c) /\ Commit(c)
  /\ disowned' = IF work[c].cancelled THEN disowned \cup {plan[c].location} ELSE disowned
  /\ mistaken' = IF Mistakes(c) THEN mistaken \cup {plan[c].location} ELSE mistaken
  /\ UNCHANGED <<files, plan, late, lastLocation>>

\* the transaction has ended; any error, a cancellation too, is compensated
PublicationEnds(c) ==
  /\ At(c, "ended") /\ Publishing(c)
  /\ work' = [work EXCEPT ![c] = IF @.outcome = "ok" THEN Idle ELSE Step(@, "compensate")]
  /\ plan' = IF work[c].outcome = "ok" THEN [plan EXCEPT ![c] = NoPlan] ELSE plan
  /\ UNCHANGED <<catalogSession, store, draft, writer, budget, files, late, lastLocation, disowned, mistaken>>

\* _compensate deletes the candidate; a failure is logged, with or without its effect.
Compensate(c) ==
  /\ At(c, "compensate")
  /\ \/ DeleteFile(plan[c].location)
     \/ {"storeFails", "cancel"} \cap Scenario.faults # {} /\ UNCHANGED files
  /\ work' = [work EXCEPT ![c] = Idle] /\ plan' = [plan EXCEPT ![c] = NoPlan]
  /\ UNCHANGED <<catalogSession, store, draft, writer, budget, late, lastLocation, disowned, mistaken>>

FormatInit ==
  /\ CatalogInit
  /\ files = [l \in {store.tables[t].location : t \in DOMAIN store.tables} \ {NoFile} |->
                CreateDocument(Scenario.files[l])]
  /\ lastLocation = Cardinality(DOMAIN files)
  /\ plan = [c \in Clients |-> NoPlan] /\ late = {} /\ disowned = {} /\ mistaken = {}

PublicationStep(c) ==
  \/ ReadFails(c) \/ ReadMetadata(c) \/ WriteCandidate(c) \/ WriteFails(c)
  \/ Publish(c) \/ PublicationEnds(c) \/ Compensate(c)

CatalogStep ==
  /\ \/ \E c \in Clients :
          Begin(c) \/ Busy(c) \/ (~Publishing(c) /\ Commit(c)) \/ CommitFails(c) \/ CancelRequest(c) \/ ItemEnds(c)
     \/ \E c \in Clients : \E request \in Scenario.requests : Submit(c, request)
     \/ OptimizerRuns
  /\ UNCHANGED formatVars

FormatNext ==
  \/ CatalogStep
  \/ \E c \in Clients : PublicationStep(c)
  \/ \E c \in Clients : \E request \in Scenario.requests : SubmitCreate(c, request) \/ SubmitUpdate(c, request)
  \/ LateWrite

FormatSpec == FormatInit /\ [][FormatNext]_<<catalogVars, formatVars>>
-----------------------------------------------------------------------------
\* Every table that points to a metadata file points to one that was written and not deleted,
\* whose current schema, spec and order resolve, whose current schema has the columns of the
\* table, and which names the file it replaced; and a version published over an archived one
\* follows exactly the metadata of that version, so no update is lost between two publications
\* (open_table_format.py).  Left out, and described in the README: a request cancelled while its
\* transaction commits, which deletes the file it has published, and an update whose table was
\* dropped and created again under its hands, or whose client named a version ahead of its time.
PointedMetadataIsWritten ==
  \A t \in DOMAIN store.tables :
    LET table == store.tables[t]
        archived == table.archive # << >> /\ table.archive[Len(table.archive)].version = table.version - 1
    IN table.location \notin {NoFile} \cup disowned =>
         /\ table.location \in DOMAIN files
         /\ Resolves(files[table.location])
         /\ table.columns = GlueColumns(CurrentSchema(files[table.location]))
         /\ table.previous # NoFile =>
              LET log == files[table.location].log IN log[Len(log)] = table.previous
         /\ archived /\ table.previous # NoFile /\ table.location \notin mistaken =>
              table.archive[Len(table.archive)].location = table.previous
=============================================================================
