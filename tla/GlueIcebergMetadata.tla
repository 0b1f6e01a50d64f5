------------------------- MODULE GlueIcebergMetadata -------------------------
(***************************************************************************)
(* The Iceberg metadata documents that the open table format of Glue       *)
(* plans: what a CREATE input or a list of updates may say, and the        *)
(* document that results.                                                  *)
(*                                                                         *)
(* The fields of a schema are given flat, each with the id of the field    *)
(* that encloses it, 0 at the top; the parser descends from the top, so a  *)
(* field is looked at with the path above it.  The parts of a document     *)
(* that no update touches (uuid, snapshots, timestamps) are left out.      *)
(***************************************************************************)
EXTENDS Integers, Sequences, FiniteSets

Absent == [id |-> -1, fields |-> << >>]    \* a spec or an order the input leaves out
NoId == 0
NoAction == "none"

Greatest(S, least) == CHOOSE m \in S \cup {least} : \A n \in S \cup {least} : n <= m
-----------------------------------------------------------------------------
(* IcebergSchemaDefinition.parse *)

MaxFieldId == 2147483447
Primitives == {"boolean", "int", "long", "float", "double", "date", "time", "timestamp",
               "timestamptz", "string", "uuid", "binary", "decimal", "fixed"}
Nested == {"struct", "list", "map"}

Ids(schema) == {f.id : f \in schema.fields}
FieldOf(schema, id) == CHOOSE f \in schema.fields : f.id = id

\* an identifier is a required primitive, and so is, up to the top, all that encloses it a
\* required struct
OnRequiredPath(schema) ==
  LET onPath[f \in schema.fields] ==
        /\ f.required
        /\ f.parent # 0 => LET up == FieldOf(schema, f.parent) IN up.type = "struct" /\ onPath[up]
  IN onPath

Identifying(schema, f) == f.type \in Primitives \ {"float", "double"} /\ OnRequiredPath(schema)[f]

ValidSchema(schema) ==
  /\ schema.id >= 0
  /\ \A f \in schema.fields :
       /\ f.id \in 1 .. MaxFieldId /\ f.type \in Primitives \cup Nested
       /\ \A g \in schema.fields \ {f} :
            /\ g.id # f.id
            /\ g.parent = f.parent => g.name # f.name
  /\ \A id \in schema.identifiers : id \in Ids(schema) /\ Identifying(schema, FieldOf(schema, id))

LastColumnId(schema) == Greatest(Ids(schema), 0)

\* What Glue calls the type of a field; of a nested one only that it is nested is kept.
GlueType(type) ==
  CASE type = "long" -> "bigint"
    [] type \in {"time", "uuid"} -> "string"
    [] type = "timestamptz" -> "timestamp"
    [] type = "fixed" -> "binary"
    [] type = "list" -> "array"
    [] OTHER -> type

\* The top-level fields, as columns
GlueColumns(schema) == {[name |-> f.name, type |-> GlueType(f.type)] : f \in {g \in schema.fields : g.parent = 0}}
-----------------------------------------------------------------------------
(* Partition specs and sort orders *)

Transformable(transform) ==
  CASE transform \in {"identity", "void"} -> Primitives
    [] transform \in {"year", "month", "day"} -> {"date", "timestamp", "timestamptz"}
    [] transform = "hour" -> {"timestamp", "timestamptz"}
    [] transform = "bucket" -> Primitives \ {"boolean", "float", "double"}
    [] transform = "truncate" -> {"int", "long", "decimal", "string", "binary"}
    [] OTHER -> {}

Transforms(schema, part) ==
  /\ part.source \in Ids(schema)
  /\ FieldOf(schema, part.source).type \in Transformable(part.transform)

\* A field without an id gets the next one after those before it, from 1000.
PartitionIds(spec) ==
  LET ids[i \in DOMAIN spec.fields] ==
        IF spec.fields[i].id # NoId THEN spec.fields[i].id
        ELSE 1 + Greatest({ids[j] : j \in 1 .. i - 1}, 999)
  IN ids

ValidSpec(spec, schema) ==
  LET ids == PartitionIds(spec)
  IN /\ spec.id >= 0
     /\ \A i \in DOMAIN spec.fields :
          /\ Transforms(schema, spec.fields[i]) /\ ids[i] >= 1000
          /\ \A j \in 1 .. i - 1 : spec.fields[j].name # spec.fields[i].name /\ ids[j] # ids[i]

LastPartitionId(spec) == Greatest({PartitionIds(spec)[i] : i \in DOMAIN spec.fields}, 999)

ValidOrder(order, schema) ==
  /\ order.id >= 0 /\ (order.fields # << >> => order.id # 0)
  /\ \A i \in DOMAIN order.fields : Transforms(schema, order.fields[i])

Unpartitioned == [id |-> 0, fields |-> << >>]
Unsorted == [id |-> 0, fields |-> << >>]
Given(part, default) == IF part = Absent THEN default ELSE part
-----------------------------------------------------------------------------
(* Documents.  The schemas, specs and orders of a document are functions from their ids. *)

Refused == [refused |-> TRUE]
Accepted(doc) == doc # Refused

CreateDocument(input) ==
  LET spec == Given(input.spec, Unpartitioned)
      order == Given(input.order, Unsorted)
  IN IF ~(ValidSchema(input.schema) /\ ValidSpec(spec, input.schema) /\ ValidOrder(order, input.schema))
       THEN Refused
     ELSE [refused |-> FALSE,
           schemas |-> {input.schema}, schema |-> input.schema.id,
           specs |-> {spec}, spec |-> spec.id, orders |-> {order}, order |-> order.id,
           lastColumn |-> LastColumnId(input.schema), lastPartition |-> LastPartitionId(spec),
           properties |-> input.properties, log |-> << >>]

ById(items, id) == {item \in items : item.id = id}

Upsert(items, item) == (items \ ById(items, item.id)) \cup {item}
MayAdd(items, item) == ById(items, item.id) = {}
MayChoose(items, item) == ById(items, item.id) = {item}

CurrentSchema(doc) == CHOOSE schema \in ById(doc.schemas, doc.schema) : TRUE

WithColumns(doc, schema) == [doc EXCEPT !.lastColumn = Greatest({@}, LastColumnId(schema))]
WithPartitions(doc, spec) == [doc EXCEPT !.lastPartition = Greatest({@}, LastPartitionId(spec))]

\* An update without an action replaces whatever it brings and makes it current.
ReplaceParts(doc, u) ==
  LET columns == [WithColumns(doc, u.schema) EXCEPT !.schemas = Upsert(@, u.schema), !.schema = u.schema.id,
                                                    !.properties = @ \cup u.properties]
      partitions == IF u.spec = Absent THEN columns
                    ELSE [WithPartitions(columns, u.spec) EXCEPT !.specs = Upsert(@, u.spec), !.spec = u.spec.id]
  IN IF u.order = Absent THEN partitions
     ELSE [partitions EXCEPT !.orders = Upsert(@, u.order), !.order = u.order.id]

\* IcebergOpenTableFormatPlanner._apply_update; every update carries a schema.
ApplyUpdate(doc, u) ==
  IF doc = Refused \/ ~ValidSchema(u.schema) THEN Refused
  ELSE IF u.spec # Absent /\ u.action \in {NoAction, "add-spec", "set-default-spec"} /\ ~ValidSpec(u.spec, u.schema)
    THEN Refused
  ELSE IF u.order # Absent /\ u.action \in {NoAction, "add-sort-order", "set-default-sort-order"}
          /\ ~ValidOrder(u.order, u.schema) THEN Refused
  ELSE CASE u.action = NoAction -> ReplaceParts(doc, u)
         [] u.action = "add-schema" /\ MayAdd(doc.schemas, u.schema) ->
              [WithColumns(doc, u.schema) EXCEPT !.schemas = @ \cup {u.schema}]
         [] u.action = "set-current-schema" /\ MayChoose(doc.schemas, u.schema) ->
              [doc EXCEPT !.schema = u.schema.id]
         [] u.action = "add-spec" /\ u.spec # Absent /\ MayAdd(doc.specs, u.spec) ->
              [WithPartitions(doc, u.spec) EXCEPT !.specs = @ \cup {u.spec}]
         [] u.action = "set-default-spec" /\ u.spec # Absent /\ MayChoose(doc.specs, u.spec) ->
              [WithPartitions(doc, u.spec) EXCEPT !.spec = u.spec.id]
         [] u.action = "add-sort-order" /\ u.order # Absent /\ MayAdd(doc.orders, u.order) ->
              [doc EXCEPT !.orders = @ \cup {u.order}]
         [] u.action = "set-default-sort-order" /\ u.order # Absent /\ MayChoose(doc.orders, u.order) ->
              [doc EXCEPT !.order = u.order.id]
         [] u.action = "set-location" -> doc
         [] u.action = "set-properties" -> [doc EXCEPT !.properties = @ \cup u.properties]
         [] u.action = "remove-properties" -> [doc EXCEPT !.properties = @ \ u.properties]
         [] OTHER -> Refused

\* IcebergOpenTableFormatPlanner.update: all the updates in order, then the log of the base
UpdateDocument(base, location, updates) ==
  LET applied[i \in 0 .. Len(updates)] == IF i = 0 THEN base ELSE ApplyUpdate(applied[i - 1], updates[i])
      doc == applied[Len(updates)]
  IN IF updates = << >> \/ ~Accepted(doc) \/ ById(doc.schemas, doc.schema) = {} THEN Refused
     ELSE [doc EXCEPT !.log = Append(@, location)]

\* what a reader of the document relies on
Resolves(doc) ==
  /\ Cardinality(ById(doc.schemas, doc.schema)) = 1
  /\ Cardinality(ById(doc.specs, doc.spec)) = 1
  /\ Cardinality(ById(doc.orders, doc.order)) = 1
  /\ \A schema \in doc.schemas : LastColumnId(schema) <= doc.lastColumn
  /\ \A spec \in doc.specs : LastPartitionId(spec) <= doc.lastPartition
=============================================================================
