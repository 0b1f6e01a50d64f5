-------------------------- MODULE GlueCatalogStore --------------------------
(***************************************************************************)
(* The Glue Data Catalog as the SQLite adapter stores it, and what each    *)
(* command of the application does to it inside one transaction.           *)
(*                                                                         *)
(* A row is named by its integer primary key: SQLite gives a new row the   *)
(* greatest key in use plus one, so the key of a deleted row may come      *)
(* back.  A table keeps what the catalog decides with: its name, partition *)
(* keys, columns, version, archived versions and metadata file.            *)
(* `running` are the tables with an active optimizer run, with the name    *)
(* the run was started for.                                                *)
(*                                                                         *)
(* A command is judged by ...Refusal, "ok" when it may take effect, and    *)
(* the effect of an accepted one is the operator of its name.              *)
(***************************************************************************)
EXTENDS GluePartitionValues

CONSTANTS
  NoFile,          \* the metadata location of a table that is not Iceberg
  Segments,        \* TotalSegments the listings use
  SegmentOf(_)     \* stable_partition_segment

NoRow == 0
AnyVersion == -1

\* what initialize_schema makes of a new file
Empty == [databases |-> << >>, tables |-> << >>, partitions |-> << >>, facts |-> << >>,
          health |-> << >>, running |-> << >>, revision |-> 0]

With(rows, row, value) == [r \in DOMAIN rows \cup {row} |-> IF r = row THEN value ELSE rows[r]]
Without(rows, removed) == [r \in DOMAIN rows \ removed |-> rows[r]]
NewRow(rows) == 1 + IF DOMAIN rows = {} THEN 0 ELSE CHOOSE m \in DOMAIN rows : \A r \in DOMAIN rows : r <= m

(* Rows by name; at most one each *)
FindDatabase(s, name) == {d \in DOMAIN s.databases : s.databases[d] = name}
FindTable(s, database, name) ==
  {t \in DOMAIN s.tables : s.tables[t].name = name /\ s.tables[t].database \in FindDatabase(s, database)}
FindPartition(s, t, values) ==
  {p \in DOMAIN s.partitions : s.partitions[p].table = t /\ s.partitions[p].values = values}

TablesOf(s, databases) == {t \in DOMAIN s.tables : s.tables[t].database \in databases}
PartitionsOf(s, tables) == {p \in DOMAIN s.partitions : s.partitions[p].table \in tables}

Only(found) == CHOOSE row \in found : TRUE
-----------------------------------------------------------------------------
(* The order of partitions, and the facts written beside them *)

\* What a value of a partition or a name may be, and that its order tells any two apart.
RawValues == DOMAIN Decoded["string"]

ASSUME TextAssumption ==
  \A v, w \in RawValues :
    Decoded["string"][v] \in Int /\ (Decoded["string"][v] = Decoded["string"][w] => v = w)

\* partition_order_key: tuples of strings, compared as strings, the shorter prefix first
TextLess(a, b) == Decoded["string"][a] < Decoded["string"][b]
KeyLess(v, w) ==
  \/ Len(v) < Len(w) /\ \A i \in DOMAIN v : v[i] = w[i]
  \/ \E i \in DOMAIN v \cap DOMAIN w : TextLess(v[i], w[i]) /\ \A j \in 1 .. i - 1 : v[j] = w[j]

Before(s, p, q) ==
  LET v == s.partitions[p].values
      w == s.partitions[q].values
  IN KeyLess(v, w) \/ (v = w /\ p < q)

FirstOf(s, rows) == CHOOSE p \in rows : \A q \in rows \ {p} : Before(s, p, q)

\* partition_segment_rows: the segment of the row for every TotalSegments a client may name
SegmentRows(values) == [n \in Segments |-> SegmentOf(values) % n]

QueryFacts(keys, values) ==
  [projections |-> [i \in DOMAIN values |->
      Project(values[i], IF i \in DOMAIN keys THEN keys[i].type ELSE "__missing_partition_key__")],
   segments |-> SegmentRows(values)]

NoIssue == [row |-> NoRow, key |-> << >>]
Issue(s, rows) ==
  IF rows = {} THEN NoIssue
  ELSE LET p == FirstOf(s, rows) IN [row |-> p, key |-> s.partitions[p].values]

\* _refresh_table_partition_projection_health
HealthOf(s, t) ==
  LET rows == PartitionsOf(s, {t})
      keys == s.tables[t].keys
      projections(p) == s.facts[p].projections
  IN [arity |-> Issue(s, {p \in rows : DOMAIN projections(p) # DOMAIN keys}),
      conversion |-> [i \in DOMAIN keys |->
         Issue(s, {p \in rows : i \in DOMAIN projections(p) /\ ~projections(p)[i].valid})]]

RefreshHealth(s, t) == [s EXCEPT !.health = With(@, t, HealthOf(s, t))]

\* The rows of a deleted partition go with it, the health facts that name it included.
ForgetIssues(health, gone) ==
  LET kept(issue) == IF issue.row \in gone THEN NoIssue ELSE issue
  IN [t \in DOMAIN health |->
       [arity |-> kept(health[t].arity),
        conversion |-> [i \in DOMAIN health[t].conversion |-> kept(health[t].conversion[i])]]]

(* ON DELETE CASCADE *)
DropPartitions(s, gone) ==
  [s EXCEPT !.partitions = Without(@, gone), !.facts = Without(@, gone), !.health = ForgetIssues(@, gone)]

DropTables(s, gone) ==
  LET rest == DropPartitions(s, PartitionsOf(s, gone))
  IN [rest EXCEPT !.tables = Without(@, gone), !.health = Without(@, gone), !.running = Without(@, gone)]
-----------------------------------------------------------------------------
(* Databases *)

Mut_RenameKeepsRuns(s, tables) == s

\* the active optimizer runs of renamed tables are cancelled in the same transaction
CancelRuns(s, tables) == [s EXCEPT !.running = Without(@, tables)]

CreateDatabaseRefusal(s, op) ==
  IF FindDatabase(s, op.name) # {} THEN "AlreadyExists" ELSE "ok"
CreateDatabase(s, op) == [s EXCEPT !.databases = With(@, NewRow(@), op.name)]

UpdateDatabaseRefusal(s, op) ==
  IF FindDatabase(s, op.old) = {} THEN "EntityNotFound"
  ELSE IF op.name # op.old /\ FindDatabase(s, op.name) # {} THEN "AlreadyExists" ELSE "ok"
UpdateDatabase(s, op) ==
  LET d == Only(FindDatabase(s, op.old))
      ready == IF op.name = op.old THEN s ELSE CancelRuns(s, TablesOf(s, {d}))
  IN [ready EXCEPT !.databases[d] = op.name]

DeleteDatabaseRefusal(s, op) ==
  IF FindDatabase(s, op.name) = {} THEN "EntityNotFound" ELSE "ok"
DeleteDatabase(s, op) ==
  LET found == FindDatabase(s, op.name)
  IN [DropTables(s, TablesOf(s, found)) EXCEPT !.databases = Without(@, found)]
-----------------------------------------------------------------------------
(* Tables *)

CreateTableRefusal(s, op) ==
  IF FindDatabase(s, op.database) = {} THEN "EntityNotFound"
  ELSE IF FindTable(s, op.database, op.name) # {} THEN "AlreadyExists" ELSE "ok"

\* CatalogTable.create
NewTable(database, op, now) ==
  [database |-> database, name |-> op.name, keys |-> op.keys, columns |-> op.columns, location |-> op.location,
   previous |-> op.previous, version |-> 0, archive |-> << >>, created |-> now]

\* the row, and the rows of its partition keys and versions, written anew
WriteTable(s, t, table) == [s EXCEPT !.tables = With(@, t, table)]

CreateTable(s, op) ==
  LET t == NewRow(s.tables)
      written == WriteTable(s, t, NewTable(Only(FindDatabase(s, op.database)), op, s.revision))
  IN [written EXCEPT !.health =
        With(@, t, [arity |-> NoIssue, conversion |-> [i \in DOMAIN op.keys |-> NoIssue]])]

\* CatalogTable.revise
Revise(table, op) ==
  [table EXCEPT !.name = op.name, !.keys = op.keys, !.columns = op.columns,
     !.location = op.location, !.previous = op.previous, !.version = @ + 1,
     !.archive = IF op.skipArchive THEN @
                 ELSE Append(@, [version |-> table.version, location |-> table.location])]

\* _refresh_table_partition_query_facts
RefreshFacts(s, t) ==
  LET rows == PartitionsOf(s, {t})
      facts == [p \in DOMAIN s.facts |->
                  IF p \in rows THEN QueryFacts(s.tables[t].keys, s.partitions[p].values) ELSE s.facts[p]]
  IN RefreshHealth([s EXCEPT !.facts = facts], t)

Mut_IgnoresVersion(s, op) ==
  LET found == FindTable(s, op.database, op.old)
  IN IF found = {} THEN "EntityNotFound"
     ELSE IF op.name # op.old /\ FindTable(s, op.database, op.name) # {} THEN "AlreadyExists" ELSE "ok"

UpdateTableRefusal(s, op) ==
  LET found == FindTable(s, op.database, op.old)
  IN IF found = {} THEN "EntityNotFound"
     ELSE IF op.name # op.old /\ FindTable(s, op.database, op.name) # {} THEN "AlreadyExists"
     ELSE IF op.version \notin {AnyVersion, s.tables[Only(found)].version} THEN "VersionMismatch" ELSE "ok"

UpdateTable(s, op) ==
  LET t == Only(FindTable(s, op.database, op.old))
      ready == IF op.name = op.old THEN s ELSE CancelRuns(s, {t})
      revised == WriteTable(ready, t, Revise(ready.tables[t], op))
  IN IF s.tables[t].keys = op.keys THEN revised ELSE RefreshFacts(revised, t)

DeleteTableRefusal(s, op) ==
  IF FindTable(s, op.database, op.name) = {} THEN "EntityNotFound" ELSE "ok"
DeleteTable(s, op) == DropTables(s, FindTable(s, op.database, op.name))
-----------------------------------------------------------------------------
(* Partitions *)

\* the row, its values by position and its query facts
WritePartition(s, p, row) ==
  RefreshHealth([s EXCEPT !.partitions = With(@, p, row),
                          !.facts = With(@, p, QueryFacts(s.tables[row.table].keys, row.values))],
                row.table)

NewPartition(t, op) == [table |-> t, values |-> op.values]

\* CatalogPartition.revise; an input without Values, here one with the old values, keeps them
RevisePartition(row, op) == [row EXCEPT !.values = op.values]

\* the table and the number of values are looked at before the partition is
PartitionRefusal(s, op, values) ==
  LET found == FindTable(s, op.database, op.table)
  IN IF found = {} THEN "EntityNotFound"
     ELSE IF Len(values) # Len(s.tables[Only(found)].keys) THEN "InvalidInput" ELSE "ok"

Exists(s, op, values) == FindPartition(s, Only(FindTable(s, op.database, op.table)), values) # {}

CreatePartitionRefusal(s, op) ==
  IF PartitionRefusal(s, op, op.values) # "ok" THEN PartitionRefusal(s, op, op.values)
  ELSE IF Exists(s, op, op.values) THEN "AlreadyExists" ELSE "ok"
CreatePartition(s, op) ==
  WritePartition(s, NewRow(s.partitions), NewPartition(Only(FindTable(s, op.database, op.table)), op))

UpdatePartitionRefusal(s, op) ==
  IF PartitionRefusal(s, op, op.old) # "ok" THEN PartitionRefusal(s, op, op.old)
  ELSE IF ~Exists(s, op, op.old) THEN "EntityNotFound"
  ELSE IF PartitionRefusal(s, op, op.values) # "ok" THEN "InvalidInput"
  ELSE IF op.values # op.old /\ Exists(s, op, op.values) THEN "InvalidInput" ELSE "ok"
UpdatePartition(s, op) ==
  LET p == Only(FindPartition(s, Only(FindTable(s, op.database, op.table)), op.old))
  IN WritePartition(s, p, RevisePartition(s.partitions[p], op))

DeletePartitionRefusal(s, op) ==
  IF PartitionRefusal(s, op, op.values) # "ok" THEN PartitionRefusal(s, op, op.values)
  ELSE IF ~Exists(s, op, op.values) THEN "EntityNotFound" ELSE "ok"
DeletePartition(s, op) ==
  LET t == Only(FindTable(s, op.database, op.table))
  IN RefreshHealth(DropPartitions(s, FindPartition(s, t, op.values)), t)
-----------------------------------------------------------------------------
Refusal(s, op) ==
  CASE op.kind = "CreateDatabase"  -> CreateDatabaseRefusal(s, op)
    [] op.kind = "UpdateDatabase"  -> UpdateDatabaseRefusal(s, op)
    [] op.kind = "DeleteDatabase"  -> DeleteDatabaseRefusal(s, op)
    [] op.kind = "CreateTable"     -> CreateTableRefusal(s, op)
    [] op.kind = "UpdateTable"     -> UpdateTableRefusal(s, op)
    [] op.kind = "DeleteTable"     -> DeleteTableRefusal(s, op)
    [] op.kind = "CreatePartition" -> CreatePartitionRefusal(s, op)
    [] op.kind = "UpdatePartition" -> UpdatePartitionRefusal(s, op)
    [] op.kind = "DeletePartition" -> DeletePartitionRefusal(s, op)

Effect(s, op) ==
  CASE op.kind = "CreateDatabase"  -> CreateDatabase(s, op)
    [] op.kind = "UpdateDatabase"  -> UpdateDatabase(s, op)
    [] op.kind = "DeleteDatabase"  -> DeleteDatabase(s, op)
    [] op.kind = "CreateTable"     -> CreateTable(s, op)
    [] op.kind = "UpdateTable"     -> UpdateTable(s, op)
    [] op.kind = "DeleteTable"     -> DeleteTable(s, op)
    [] op.kind = "CreatePartition" -> CreatePartition(s, op)
    [] op.kind = "UpdatePartition" -> UpdatePartition(s, op)
    [] op.kind = "DeletePartition" -> DeletePartition(s, op)

\* What a command has to say for itself: names and values are text.
IsCommand(op) ==
  /\ op.kind \in {"CreateDatabase", "UpdateDatabase", "DeleteDatabase", "CreateTable", "UpdateTable",
                  "DeleteTable", "CreatePartition", "UpdatePartition", "DeletePartition"}
  /\ op.kind \in {"CreatePartition", "UpdatePartition"} => op.values \in Seq(RawValues)
  /\ op.kind \in {"CreateDatabase", "UpdateDatabase", "CreateTable", "UpdateTable"} => op.name \in RawValues
=============================================================================
