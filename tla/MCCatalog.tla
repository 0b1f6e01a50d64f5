------------------------------ MODULE MCCatalog ------------------------------
(***************************************************************************)
(* An instance of the Glue Data Catalog and of the release pipeline of the *)
(* repository.  They share nothing, so each behaviour is of one of them    *)
(* while the other rests in one of its initial states.                     *)
(***************************************************************************)
EXTENDS GluePages, GlueCatalogRefinement, ReleasePipeline, TLC

CONSTANTS c1, c2

VARIABLE part    \* which of the two this behaviour is of

-----------------------------------------------------------------------------
(* Values: as text "10" comes before "2", as numbers after it, and "x" is no number. *)

Texts == {"10", "2", "x", "d", "e", "t", "u"}
TextOrder == <<"10", "2", "d", "e", "t", "u", "x">>
Rank == [r \in Texts |-> CHOOSE i \in DOMAIN TextOrder : TextOrder[i] = r]

\* Behind a name of their own, TLC evaluates the values of constants once.
Values == [string |-> Rank, int |-> [r \in {"10", "2"} |-> IF r = "2" THEN 2 ELSE 10]]
MCDecoded == Values
MCLikes == [p \in {"1%"} |-> {"10"}]
MCSegmentOf(values) == IF values = << >> THEN 0 ELSE Rank[values[1]]

Keys(type) == <<[name |-> "k", type |-> type]>>
-----------------------------------------------------------------------------
(* Commands *)

Single(op) == [kind |-> "single", ops |-> <<op>>]
Insert(values) == [kind |-> "CreatePartition", database |-> "d", table |-> "t", values |-> values]
Remove(v) == [kind |-> "DeletePartition", database |-> "d", table |-> "t", values |-> <<v>>]
Rekey(v, w) == [kind |-> "UpdatePartition", database |-> "d", table |-> "t", old |-> <<v>>, values |-> <<w>>]
Table(name, keys) == [kind |-> "CreateTable", database |-> "d", name |-> name, keys |-> keys,
                      columns |-> {}, location |-> NoFile, previous |-> NoFile]
Revised(old, name, keys, version, skip) ==
  [kind |-> "UpdateTable", database |-> "d", old |-> old, name |-> name, keys |-> keys, columns |-> {}, location |-> NoFile,
   previous |-> NoFile, version |-> version, skipArchive |-> skip]
DropTable(name) == [kind |-> "DeleteTable", database |-> "d", name |-> name]
Database(name) == [kind |-> "CreateDatabase", name |-> name]
RenameDatabase(old, name) == [kind |-> "UpdateDatabase", old |-> old, name |-> name]
DropDatabase(name) == [kind |-> "DeleteDatabase", name |-> name]
-----------------------------------------------------------------------------
(* Listings *)

Listing(kind, expression, total, number, pattern) ==
  [kind |-> kind, database |-> "d", table |-> "t", expression |-> expression,
   segment |-> [total |-> total, number |-> number], pattern |-> pattern]
ListOf(kind) == Listing(kind, NoExpression, 0, 0, Texts)
Filter(e) == Listing("partitions", e, 0, 0, Texts)

Compare(op, v) == <<[node |-> "compare", field |-> "k", op |-> op, value |-> v]>>
Between(lo, hi, negated) == <<[node |-> "between", field |-> "k", lower |-> lo, upper |-> hi, negated |-> negated]>>
In(values, negated) == <<[node |-> "in", field |-> "k", values |-> values, negated |-> negated]>>
Like(p, negated) == <<[node |-> "like", field |-> "k", value |-> p, negated |-> negated]>>
IsNull(negated) == <<[node |-> "isNull", field |-> "k", negated |-> negated]>>

\* an expression behind n other nodes
Behind(n, e) ==
  [i \in DOMAIN e |->
     IF Logical(e[i]) THEN [e[i] EXCEPT !.left = @ + n, !.right = @ + n]
     ELSE IF e[i].node = "not" THEN [e[i] EXCEPT !.operand = @ + n] ELSE e[i]]
Joined(node, a, b) == a \o Behind(Len(a), b) \o <<[node |-> node, left |-> Len(a), right |-> Len(a) + Len(b)]>>
Either(a, b) == Joined("or", a, b)
Both(a, b) == Joined("and", a, b)
Inverse(e) == e \o <<[node |-> "not", operand |-> Len(e)]>>
-----------------------------------------------------------------------------
(* Iceberg *)

Field(id, type) == [id |-> id, name |-> id, parent |-> 0, required |-> TRUE, type |-> type]
Schema(id, fields) == [id |-> id, fields |-> fields, identifiers |-> {1}]
Narrow == Schema(0, {Field(1, "long")})
Wide == Schema(1, {Field(1, "long"), Field(2, "date")})
ByDay == [id |-> 1, fields |-> <<[source |-> 2, transform |-> "day", name |-> "day", id |-> NoId]>>]

Update(action, schema, spec) ==
  [action |-> action, schema |-> schema, spec |-> spec, order |-> Absent, properties |-> {}]

IcebergInput == [schema |-> Narrow, spec |-> Absent, order |-> Absent, properties |-> {}]
CreateIceberg(name) == [kind |-> "create", database |-> "d", name |-> name, input |-> IcebergInput]
UpdateIceberg(updates, version, skip) ==
  [kind |-> "update", database |-> "d", name |-> "t", updates |-> updates, version |-> version,
   skipArchive |-> skip]

IcebergTable == [Table("t", << >>) EXCEPT !.location = 1, !.columns = GlueColumns(Narrow)]
-----------------------------------------------------------------------------
Session(setup, requests, listings, optimized, faults, maximum) ==
  [setup |-> setup, requests |-> requests, listings |-> listings, optimized |-> optimized,
   faults |-> faults, maxRequests |-> maximum, files |-> <<IcebergInput>>]

Partitioned(type, values) ==
  <<Database("d"), Table("t", Keys(type))>> \o [i \in DOMAIN values |-> Insert(<<values[i]>>)]

AllSessions ==
  [idle |-> Session(<< >>, {}, {}, {}, {}, 0),
   numbers |-> Session(Partitioned("int", <<"2", "10">>),
     {Single(Remove("10")), Single(Insert(<<"x">>)), Single(Rekey("2", "x")), Single(Remove("x")),
      Single(Revised("t", "t", Keys("string"), AnyVersion, TRUE))},
     {Filter(Compare(">=", "2")), Filter(Either(Compare("<", "10"), Like("1%", FALSE))),
      Filter(Between("2", Null, TRUE)), Filter(In({"10", Null}, TRUE)), Filter(Malformed)},
     {}, {}, 2),
   texts |-> Session(Partitioned("string", <<"x", "2", "10">>),
     {[kind |-> "batch", ops |-> <<Rekey("2", "x"), Remove("10"), Insert(<<"d">>)>>], Single(Insert(<<"e">>)),
      Single(Revised("t", "t", Keys("string") \o <<[name |-> "l", type |-> "int"]>>, 0, FALSE)),
      Single(Insert(<<"2", "10">>))},
     {Listing("partitions", NoExpression, 2, 1, {}), Filter(Both(IsNull(TRUE), Inverse(Like("1%", TRUE)))),
      Filter(Between("10", "d", TRUE))},
     {}, {"commitFails", "cancel"}, 2),
   names |-> Session(<<Database("d"), Database("e"), Table("t", << >>), Table("u", << >>)>>,
     {Single(RenameDatabase("d", "x")), Single(DropDatabase("d")), Single(Database("2")),
      Single(Revised("t", "x", << >>, 0, FALSE)), Single(Revised("u", "t", << >>, AnyVersion, TRUE)),
      Single(DropTable("t")), Single(Table("t", << >>))},
     {ListOf("databases"), Listing("tables", NoExpression, 0, 0, {"t", "u"}), ListOf("versions")},
     {1}, {}, 3),
   iceberg |-> Session(<<Database("d"), IcebergTable>>,
     {UpdateIceberg(<<Update(NoAction, Wide, ByDay)>>, AnyVersion, FALSE),
      UpdateIceberg(<<Update("set-properties", Narrow, Absent)>>, AnyVersion, TRUE),
      UpdateIceberg(<<Update("add-schema", Wide, Absent), Update("set-current-schema", Wide, Absent)>>, 1, FALSE),
      Single(DropTable("t")), CreateIceberg("t")},
     {}, {}, {"cancel", "storeFails", "commitFails"}, 3)]

MCCatalogSessions == AllSessions
-----------------------------------------------------------------------------
MCTargets == {<<0, 1, 1>>, <<0, 2, 0>>}
Finding(coordinate, severity) == [coordinate |-> coordinate, severity |-> severity]
MCExceptions == {[coordinate |-> "known", components |-> {"emr"}]}
MCReports == {{}, {Finding("known", "HIGH")}, {Finding("new", "HIGH")}, {Finding("known", "HIGH"), Finding("new", "LOW")}}
MCFirstVersion == <<0, 1, 0>>

Symmetry == Permutations(Clients)
-----------------------------------------------------------------------------
\* Bound: a release behaviour meets one re-run or one foreign tag.
OneDisturbance == reruns + foreign <= 1

Init ==
  /\ PagesInit /\ PipelineInit
  /\ part = IF catalogSession = "idle" THEN "release" ELSE "catalog"

Next ==
  \/ part = "catalog" /\ PagesNext /\ UNCHANGED <<part, pipelineVars>>
  \/ part = "release" /\ PipelineNext /\ OneDisturbance' /\ UNCHANGED <<part, pagesVars>>

Spec == Init /\ [][Next]_<<part, pagesVars, pipelineVars>>
=============================================================================
