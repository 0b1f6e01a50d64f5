------------------------------ MODULE GluePages ------------------------------
(***************************************************************************)
(* GetDatabases, GetTables, GetPartitions and GetTableVersions read page   *)
(* by page while other requests change the catalog.                        *)
(*                                                                         *)
(* A page is one step: everything a listing request does between its       *)
(* arrival and its answer happens without a suspension.  The client keeps  *)
(* only the token: for a keyset listing the row the last page ended with   *)
(* and a fingerprint of the request, for the versions an offset.           *)
(***************************************************************************)
EXTENDS GlueOpenTableFormat, GluePartitionExpressions

CONSTANTS
  PageSizes,         \* MaxResults, at most the configured page size
  NoExpression, Malformed  \* no filter, and one the parser refuses

\* A listing is one a client may ask for: its expression is one the parser builds, its segments are
\* among those every row has a number for.
ASSUME PagesAssumption ==
  /\ PageSizes \subseteq Nat \ {0}
  /\ \A name \in DOMAIN CatalogSessions : \A request \in CatalogSessions[name].listings :
       /\ request.kind \in {"databases", "tables", "partitions", "versions"}
       /\ request.segment.total \in {0} \cup Segments
       /\ request.expression \in {NoExpression, Malformed} \/ IsExpression(request.expression)

VARIABLE listing     \* the client that lists, with what its history keeps

pagesVars == <<catalogVars, formatVars, listing>>

NoToken == [offset |-> 0, row |-> NoRow]
NotListing == [state |-> "idle", request |-> << >>, token |-> NoToken, returned |-> << >>,
               stable |-> {}, boundary |-> {}, disturbed |-> FALSE]
-----------------------------------------------------------------------------
(* What a listing is of.  An entry carries all that selects and orders it. *)

Databases(s) == {[row |-> d, parent |-> NoRow, key |-> <<s.databases[d]>>, keys |-> << >>] : d \in DOMAIN s.databases}

Tables(s, r) ==
  {[row |-> t, parent |-> s.tables[t].database, key |-> <<s.tables[t].name>>, keys |-> << >>] :
     t \in TablesOf(s, FindDatabase(s, r.database))}

Partitions(s, r) ==
  {[row |-> p, parent |-> s.partitions[p].table, key |-> s.partitions[p].values,
    keys |-> s.tables[s.partitions[p].table].keys] :
     p \in PartitionsOf(s, FindTable(s, r.database, r.table))}

\* CatalogTable.versions: the archived ones, then the current one
VersionList(s, r) ==
  LET t == Only(FindTable(s, r.database, r.table))
      table == s.tables[t]
      version(i) == IF i <= Len(table.archive) THEN table.archive[i].version ELSE table.version
  IN IF FindTable(s, r.database, r.table) = {} THEN << >>
     ELSE [i \in 1 .. Len(table.archive) + 1 |->
             [row |-> version(i), parent |-> <<t, table.created>>, key |-> << >>, keys |-> << >>]]

Entries(s, r) ==
  CASE r.kind = "databases" -> Databases(s)
    [] r.kind = "tables" -> Tables(s, r)
    [] r.kind = "partitions" -> Partitions(s, r)
    [] r.kind = "versions" -> LET list == VersionList(s, r) IN {list[i] : i \in DOMAIN list}

InSegment(r, values) == r.segment.total # 0 => SegmentOf(values) % r.segment.total = r.segment.number

\* the syntax is looked at before any catalog state is read
Parses(r) == r.expression # Malformed
Filters(r) == Parses(r) /\ r.expression # NoExpression

\* The request, read literally: what the client has asked for.
Wanted(r, entry) ==
  CASE r.kind = "tables" -> entry.key[1] \in r.pattern
    [] r.kind = "partitions" ->
         /\ Parses(r) /\ InSegment(r, entry.key)
         /\ Filters(r) =>
              /\ ~Raises(r.expression, entry.keys, entry.key)
              /\ Evaluate(r.expression, entry.keys, entry.key) = "T"
    [] OTHER -> TRUE
-----------------------------------------------------------------------------
(* Pages *)

InvalidInput == [outcome |-> "InvalidInput", entries |-> << >>, token |-> NoToken]
NotFound == [outcome |-> "EntityNotFound", entries |-> << >>, token |-> NoToken]
LastPage(entries) == [outcome |-> "ok", entries |-> entries, token |-> NoToken]

EntryLess(a, b) == KeyLess(a.key, b.key) \/ (a.key = b.key /\ a.row < b.row)

Mut_FromCursor(a, boundary) == ~EntryLess(a, boundary)

\* the seek clause: rows after the one the last page ended with, where that row is now
Beyond(a, boundary) == EntryLess(boundary, a)

\* ORDER BY: the n-th entry has n - 1 before it.
InOrder(entries) ==
  [n \in 1 .. Cardinality(entries) |->
     CHOOSE e \in entries : Cardinality({x \in entries : EntryLess(x, e)}) = n - 1]

\* One row more than the page is fetched to know whether a page follows.
KeysetPage(selected, scope, size, token) ==
  LET cursor == {e \in scope : e.row = token.row}
      rows == InOrder({e \in selected : token.row # NoRow => \A b \in cursor : Beyond(e, b)})
      page == SubSeq(rows, 1, IF Len(rows) < size THEN Len(rows) ELSE size)
  IN IF token.row # NoRow /\ cursor = {} THEN InvalidInput
     ELSE IF Len(rows) <= size THEN LastPage(page)
     ELSE [outcome |-> "ok", entries |-> page, token |-> [offset |-> 0, row |-> page[Len(page)].row]]

\* PageRequest.apply
OffsetPage(values, size, token) ==
  LET end == IF Len(values) < token.offset + size THEN Len(values) ELSE token.offset + size
      page == SubSeq(values, token.offset + 1, end)
  IN IF end < Len(values) THEN [outcome |-> "ok", entries |-> page, token |-> [offset |-> end, row |-> NoRow]]
     ELSE LastPage(page)

\* _partition_projection_issue: what is known to be wrong with any partition of the table
Unhealthy(s, t, e) ==
  \/ s.health[t].arity.row # NoRow
  \/ \E f \in Fields(e) : s.health[t].conversion[Ordinal(s.tables[t].keys, f)].row # NoRow

\* the statement of PartitionPagePlan, on the facts beside the rows
Selected(s, t, r) ==
  {e \in Partitions(s, r) :
     /\ r.segment.total # 0 => s.facts[e.row].segments[r.segment.total] = r.segment.number
     /\ Filters(r) =>
          SqlSelects(r.expression, s.tables[t].keys, s.facts[e.row].projections)}

\* PartitionQueries.list: the first row is given to the evaluator before SQLite sees the expression.
PartitionsPage(s, r, size, token) ==
  LET t == Only(FindTable(s, r.database, r.table))
      keys == s.tables[t].keys
      rows == PartitionsOf(s, {t})
      raises == /\ Filters(r)
                /\ Raises(r.expression, keys, s.partitions[FirstOf(s, rows)].values)
  IN IF ~Parses(r) THEN InvalidInput
     ELSE IF FindTable(s, r.database, r.table) = {} THEN NotFound
     ELSE IF Filters(r) /\ ~Binds(r.expression, keys) THEN InvalidInput
     ELSE IF rows = {} THEN (IF token.row = NoRow THEN LastPage(<< >>) ELSE InvalidInput)
     ELSE IF raises THEN InvalidInput
     ELSE IF token.row # NoRow /\ {e \in Partitions(s, r) : e.row = token.row} = {} THEN InvalidInput
     ELSE IF Filters(r) /\ Unhealthy(s, t, r.expression) THEN InvalidInput
     ELSE KeysetPage(Selected(s, t, r), Partitions(s, r), size, token)

TablesPage(s, r, size, token) ==
  IF FindDatabase(s, r.database) = {} THEN NotFound
  ELSE KeysetPage({e \in Tables(s, r) : e.key[1] \in r.pattern}, Tables(s, r), size, token)

VersionsPage(s, r, size, token) ==
  IF FindTable(s, r.database, r.table) = {} THEN NotFound ELSE OffsetPage(VersionList(s, r), size, token)

DatabasesPage(s, size, token) == KeysetPage(Databases(s), Databases(s), size, token)

\* one read connection, opened and closed in one step
Page(s, r, size, token) ==
  CASE r.kind = "databases" -> DatabasesPage(s, size, token)
    [] r.kind = "tables" -> TablesPage(s, r, size, token)
    [] r.kind = "partitions" -> PartitionsPage(s, r, size, token)
    [] r.kind = "versions" -> VersionsPage(s, r, size, token)
-----------------------------------------------------------------------------
\* The client asks for the next page.  A keyset token is bound to its request; used for another
\* one it is refused.
NextPage(request, size) ==
  /\ listing.state \in {"idle", "open"}
  /\ request.kind = "versions" /\ listing.state = "open" => request = listing.request
  /\ LET page == IF listing.state = "open" /\ request # listing.request THEN InvalidInput
                 ELSE Page(store, request, size, listing.token)
         begun == IF listing.state = "open" THEN listing
                  ELSE [NotListing EXCEPT !.request = request,
                          !.stable = {e \in Entries(store, request) : Wanted(request, e)}]
         boundary == {e \in Entries(store, request) : e.row = page.token.row}
     IN listing' = [begun EXCEPT
          !.state = IF page.outcome # "ok" THEN "failed" ELSE IF page.token = NoToken THEN "complete" ELSE "open",
          !.token = page.token,
          !.boundary = IF request.kind = "versions" THEN {} ELSE boundary,
          !.returned = @ \o page.entries]
  /\ UNCHANGED <<catalogVars, formatVars>>

\* history: what has stayed as it was since the listing began, and the row the next page starts from
Watch ==
  listing' =
    IF listing.state # "open" THEN listing
    ELSE LET now == Entries(store', listing.request)
         IN [listing EXCEPT !.stable = @ \cap now, !.disturbed = @ \/ ~(listing.boundary \subseteq now)]

PagesInit == FormatInit /\ listing = NotListing

PagesNext ==
  \/ FormatNext /\ Watch
  \/ \E request \in Scenario.listings : \E size \in PageSizes : NextPage(request, size)
PagesSpec == PagesInit /\ [][PagesNext]_pagesVars
-----------------------------------------------------------------------------
\* a range with one bound NULL: SQLite may decide it by the other bound, the evaluator never does
HalfNullRange(e) == \E p \in Predicates(e) : p.node = "between" /\ Cardinality({p.lower, p.upper} \cap {Null}) = 1
                                             /\ p.lower # p.upper
SqlDiffers(r) == r.kind = "partitions" /\ Filters(r) /\ HalfNullRange(r.expression)

\* A listing that runs to its last page without an error has returned, exactly once each, every
\* row that was there all the time, unchanged, and that the request asks for, whatever other
\* requests have inserted, renamed, re-keyed or deleted between the pages; and it has returned no
\* row that the evaluator would have left out (pagination.py, partition.py, repository.py,
\* query_compiler.py).  Left out, and described in the README: the row a page ended with was moved
\* or deleted, and a range with a NULL bound.
PagesAreComplete ==
  listing.state = "complete" /\ ~listing.disturbed /\ ~SqlDiffers(listing.request) =>
    /\ \A e \in listing.stable : Cardinality({i \in DOMAIN listing.returned : listing.returned[i] = e}) = 1
    /\ \A i \in DOMAIN listing.returned : Wanted(listing.request, listing.returned[i])
=============================================================================
