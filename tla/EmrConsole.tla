----------------------------- MODULE EmrConsole -----------------------------
(***************************************************************************)
(* What a client of the EMR service is shown of it: the pages of           *)
(* ListClusters and ListSteps, whose marker is a position in a list that   *)
(* goes on changing, and the console's view of all clusters, put together  *)
(* from the clusters in memory and the execution records on the disk.      *)
(*                                                                         *)
(* EmrCluster says when a step starts and ends and EmrExecution how its    *)
(* record is written; here both happen at any time.  A query reads the     *)
(* repository under its lock, in one step, and returns copies.             *)
(***************************************************************************)
EXTENDS Integers, SequencesExt

CONSTANTS
  PageSize,      \* emr.api_page_size
  MaxTime,       \* bound: what the clock shows
  Scopes         \* the clients explored, see scope below

\* states and creation time; a listing of steps has no bounds on the time.
Filters == [states : SUBSET STRING, after : Nat, before : Nat]
NoFilter == [states |-> {}, after |-> 0, before |-> MaxTime]

ASSUME ConsoleAssumption ==
  /\ PageSize \in Nat \ {0} /\ MaxTime \in Nat \ {0}
  /\ Scopes \subseteq [reads : {"clusters", "steps", "resources"}, filters : SUBSET Filters,
                      clusters : Nat, steps : Nat, restarts : Nat]


VARIABLES
  \* What a client reads and with which filters, and three bounds: clusters ever created, steps in
  \* memory, and restarts of the service
  scope,
  clusters,      \* InMemoryClusterRepository._clusters, in the order of their creation
  durable,       \* the execution records under work_root
  now,           \* the clock
  restarts,      \* bound
  created,       \* how many cluster IDs have been given out
  listing,       \* a client that reads all pages of one listing
  console        \* the console that reads all resources

consoleVars == <<scope, clusters, durable, now, restarts, created, listing, console>>

ClusterStates == {"WAITING", "TERMINATED"}
StepEndings == {"COMPLETED", "FAILED", "CANCELLED"}
Ids(cs) == {cs[i].id : i \in DOMAIN cs}
Steps == UNION {{i} \X DOMAIN clusters[i].steps : i \in DOMAIN clusters}
-----------------------------------------------------------------------------
(* EmrQueryHandler *)

\* The members of S in an order, given as the pairs of it: the n-th has n - 1 before it.
InOrder(S, Before) ==
  [n \in 1..Cardinality(S) |-> CHOOSE x \in S : Cardinality({y \in S : <<y, x>> \in Before}) = n - 1]

\* The latest first; of those created at the same time, the first one first.
Latest(cs, i, j) == cs[i].created > cs[j].created \/ (cs[i].created = cs[j].created /\ i < j)

Matches(c, f) ==
  /\ f.states = {} \/ c.state \in f.states
  /\ f.after <= c.created /\ c.created <= f.before

\* list_clusters before it is cut into pages
ClusterRows(cs, f) ==
  LET all == DOMAIN cs
      order == InOrder({i \in all : Matches(cs[i], f)}, {p \in all \X all : Latest(cs, p[1], p[2])})
  IN [n \in DOMAIN order |-> cs[order[n]].id]

\* list_steps of a cluster before it is cut into pages: the latest first
StepRows(steps, states) ==
  LET all == DOMAIN steps
  IN InOrder({i \in all : states = {} \/ steps[i] \in states}, {p \in all \X all : p[1] > p[2]})

Mut_MarkerBeforeLast(rows, offset) == IF offset + 1 < Len(rows) THEN offset ELSE 0

\* The marker after a page that ended at this offset; 0 when it was the last
Marker(rows, offset) == IF offset < Len(rows) THEN offset ELSE 0

\* Paginator.page
PageFrom(rows, offset) ==
  LET page == SubSeq(rows, offset + 1, IF offset + PageSize < Len(rows) THEN offset + PageSize ELSE Len(rows))
  IN [items |-> page, marker |-> Marker(rows, offset + Len(page))]

\* What a listing is about; steps are those of the oldest cluster.  A listing of steps fails when
\* the cluster is gone.
Rows(cs, l) ==
  IF scope.reads = "clusters" THEN ClusterRows(cs, l.filter)
  ELSE IF cs = << >> THEN << >> ELSE StepRows(cs[1].steps, l.filter.states)

NoListing == [phase |-> "none"]

\* History of a listing: an entry is due as long as it matched all the time; whether an entry
\* before the marker left the list, and whether one came into it.
Noticed(cs) ==
  IF listing.phase # "open" THEN listing
  ELSE LET before == ToSet(Rows(clusters, listing))
           after == ToSet(Rows(cs, listing))
       IN [listing EXCEPT !.due = @ \cap after,
             !.shrunk = @ \/ ~(ToSet(SubSeq(Rows(clusters, listing), 1, listing.offset)) \subseteq after),
             !.grown = @ \/ ~(after \subseteq before)]

\* list_clusters and list_steps; a marker comes back with the filter it was given for.
Turned(l) ==
  LET page == PageFrom(Rows(clusters, l), l.offset)
  IN [l EXCEPT !.seen = @ \o page.items, !.offset = page.marker,
               !.phase = IF page.marker = 0 THEN "done" ELSE "open"]

BeginListing(filter) ==
  /\ scope.reads # "resources" /\ listing.phase = "none" /\ clusters # << >>
  /\ LET l == [phase |-> "open", filter |-> filter, offset |-> 0, seen |-> << >>,
               due |-> {}, shrunk |-> FALSE, grown |-> FALSE]
     IN listing' = Turned([l EXCEPT !.due = ToSet(Rows(clusters, l))])
  /\ UNCHANGED <<scope, clusters, durable, now, restarts, created, console>>

NextPage ==
  /\ listing.phase = "open"
  /\ listing' = Turned(listing)
  /\ UNCHANGED <<scope, clusters, durable, now, restarts, created, console>>
-----------------------------------------------------------------------------
(* What happens meanwhile *)

\* The clusters change; the console's reads do not.
Change(cs) ==
  /\ clusters' = cs
  /\ listing' = Noticed(cs)
  /\ UNCHANGED <<scope, now, restarts, console>>

CreateCluster(n) ==
  /\ created < scope.clusters /\ Cardinality(Steps) + n <= scope.steps
  /\ created' = created + 1
  /\ Change(Append(clusters, [id |-> created + 1, created |-> now, state |-> "WAITING",
                              steps |-> [k \in 1..n |-> "PENDING"]]))
  /\ UNCHANGED durable

AddSteps(i) ==
  /\ clusters[i].state = "WAITING" /\ Cardinality(Steps) < scope.steps
  /\ Change([clusters EXCEPT ![i].steps = Append(@, "PENDING")])
  /\ UNCHANGED <<durable, created>>

\* The runner writes the record before it starts the child.
StartStep(i, k) ==
  /\ clusters[i].state = "WAITING" /\ clusters[i].steps[k] = "PENDING"
  /\ Change([clusters EXCEPT ![i].steps[k] = "RUNNING"])
  /\ durable' = durable \cup {[cluster |-> clusters[i].id, step |-> k, state |-> "running", started |-> now]}
  /\ UNCHANGED created

\* complete: a step that was to be cancelled is recorded as such, else as its child ended.
EndStep(i, k, ending) ==
  /\ clusters[i].steps[k] = "RUNNING"
  /\ Change([clusters EXCEPT ![i].steps[k] = ending])
  /\ durable' = {IF r.cluster = clusters[i].id /\ r.step = k
                   THEN [r EXCEPT !.state = IF ending = "COMPLETED" THEN "completed" ELSE "failed"]
                   ELSE r : r \in durable}
  /\ UNCHANGED created

\* The end of a cluster: no step of it runs, those that wait are cancelled.  It is still listed.
EndCluster(i) ==
  /\ clusters[i].state = "WAITING" /\ \A k \in DOMAIN clusters[i].steps : clusters[i].steps[k] # "RUNNING"
  /\ Change([clusters EXCEPT ![i].state = "TERMINATED",
       ![i].steps = [k \in DOMAIN @ |-> IF @[k] = "PENDING" THEN "CANCELLED" ELSE @[k]]])
  /\ UNCHANGED <<durable, created>>

Tick ==
  /\ now < MaxTime
  /\ now' = now + 1
  /\ UNCHANGED <<scope, clusters, durable, restarts, created, listing, console>>

\* The clusters were process-local; recover makes every unfinished record an interrupted one.
RestartService ==
  /\ restarts < scope.restarts
  /\ restarts' = restarts + 1
  /\ clusters' = << >>
  /\ durable' = {[r EXCEPT !.state = IF @ = "running" THEN "interrupted" ELSE @] : r \in durable}
  /\ listing' = NoListing
  /\ console' = [phase |-> "idle"]
  /\ UNCHANGED <<scope, now, created>>
-----------------------------------------------------------------------------
(* EmrManagementAdapter.resources *)

\* _cluster
LiveView(c) == [id |-> c.id, recovered |-> FALSE, state |-> c.state, steps |-> ToSet(c.steps)]

\* _recovered_step_state
RecoveredStatus(state) ==
  CASE state = "completed" -> "COMPLETED"
    [] state = "failed" -> "FAILED"
    [] OTHER -> "INTERRUPTED"

\* _recovered_cluster: whatever its records say, the cluster has ended with errors.
RecoveredView(records) ==
  LET latest == CHOOSE r \in records : \A s \in records : s.started <= r.started
  IN [id |-> latest.cluster, recovered |-> TRUE, state |-> "TERMINATED_WITH_ERRORS",
      steps |-> {RecoveredStatus(r.state) : r \in records}]

Mut_RecoversLatest(records, known) == {r \in records : \A s \in records : s.started <= r.started}

\* The records that are not of a cluster already shown
Unclaimed(records, known) == {r \in records : r.cluster \notin known}

\* _recovered_clusters
RecoveredViews(known) ==
  LET rest == Unclaimed(durable, known)
  IN {RecoveredView({r \in rest : r.cluster = id}) : id \in {r.cluster : r \in rest}}

\* The clusters in memory: the first page, the marker of the next one is thrown away.
ConsoleReadsClusters ==
  /\ scope.reads = "resources" /\ console.phase # "reading"
  /\ LET page == ToSet(PageFrom(ClusterRows(clusters, NoFilter), 0).items)
     IN console' = [phase |-> "reading", live |-> Ids(clusters), recorded |-> {},
          shown |-> {LiveView(clusters[i]) : i \in {i \in DOMAIN clusters : clusters[i].id \in page}}]
  /\ UNCHANGED <<scope, clusters, durable, now, restarts, created, listing>>

\* Their ids against the records that are on the disk by now
ConsoleAnswers ==
  /\ console.phase = "reading"
  /\ console' = [console EXCEPT !.phase = "answered",
       !.recorded = {r.cluster : r \in durable},
       !.shown = @ \cup RecoveredViews({v.id : v \in console.shown})]
  /\ UNCHANGED <<scope, clusters, durable, now, restarts, created, listing>>
-----------------------------------------------------------------------------
ConsoleInit ==
  /\ scope \in Scopes
  /\ clusters = << >> /\ durable = {}
  /\ now = 1 /\ restarts = 0 /\ created = 0
  /\ listing = NoListing
  /\ console = [phase |-> "idle"]

ConsoleNext ==
  \/ \E n \in 0..1 : CreateCluster(n)
  \/ \E i \in DOMAIN clusters : AddSteps(i) \/ EndCluster(i)
  \/ \E i \in DOMAIN clusters : \E k \in DOMAIN clusters[i].steps :
       StartStep(i, k) \/ \E ending \in StepEndings : EndStep(i, k, ending)
  \/ Tick \/ RestartService
  \/ \E filter \in scope.filters : BeginListing(filter)
  \/ NextPage
  \/ ConsoleReadsClusters \/ ConsoleAnswers

ConsoleSpec == ConsoleInit /\ [][ConsoleNext]_consoleVars
-----------------------------------------------------------------------------
\* A listing read page by page returns every entry that matched its filter from the first page to
\* the last, unless an entry before its marker left the list, which moves the others to where it has
\* been; and none twice, unless one came into the list (EmrQueryHandler, Paginator).
ListingIsComplete ==
  listing.phase = "done" =>
    /\ ~listing.shrunk => listing.due \subseteq ToSet(listing.seen)
    /\ ~listing.grown => Cardinality(ToSet(listing.seen)) = Len(listing.seen)

\* What the console shows of a cluster as recovered is gone: it was not in memory when the console
\* read the clusters; and what was in memory is shown.
RecoveredIsGone ==
  console.phase = "answered" =>
    /\ \A v \in console.shown : v.recovered => v.id \notin console.live
    /\ console.live \subseteq {v.id : v \in console.shown}

\* So it is as long as the clusters in memory fit on one page, and then what has a record is shown
\* (EmrManagementAdapter.resources, _recovered_clusters, _recovered_cluster).
ConsoleShowsEveryCluster ==
  console.phase = "answered" /\ Cardinality(console.live) <= PageSize =>
    /\ RecoveredIsGone
    /\ console.recorded \subseteq {v.id : v \in console.shown}
=============================================================================
