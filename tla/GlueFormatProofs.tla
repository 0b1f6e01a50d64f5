-------------------------- MODULE GlueFormatProofs --------------------------
(***************************************************************************)
(* Proofs about the documents of GlueIcebergMetadata and their publication *)
(* by GlueOpenTableFormat, for any inputs, updates, clients and failures;  *)
(* and that the whole catalog implements the serial one.                   *)
(***************************************************************************)
EXTENDS GlueCatalogProofs, GlueCatalogRefinement

-----------------------------------------------------------------------------
(***************************************************************************)
(* Identifiers of a document                                               *)
(***************************************************************************)
\* The greatest of finitely many integers is one of them.
LEMMA GreatestIsThere ==
  ASSUME NEW S, IsFiniteSet(S), S \subseteq Int, NEW least \in Int
  PROVE  /\ Greatest(S, least) \in S \cup {least} /\ Greatest(S, least) \in Int
         /\ \A n \in S \cup {least} : n <= Greatest(S, least)
<1> DEFINE T == S \cup {least}
           Greater == {pair \in Int \X Int : pair[1] > pair[2]}
<1>1. IsFiniteSet(T) /\ T # {} /\ T \subseteq Int
  BY FS_AddElement
<1> HIDE DEF T
<1>2. ASSUME NEW p \in T, NEW q \in T
      PROVE  p \in Int /\ q \in Int /\ (<<p, q>> \in Greater <=> p > q)
  <2>1. p \in Int /\ q \in Int
    BY <1>1
  <2>2. <<p, q>> \in Int \X Int /\ <<p, q>>[1] = p /\ <<p, q>>[2] = q
    BY <2>1
  <2>3. <<p, q>> \in Greater <=> p > q
    BY <2>2
  <2> QED BY <2>1, <2>3
<1> HIDE DEF Greater
<1>3. \A p \in T : <<p, p>> \notin Greater
  BY <1>2
<1>4. \A p, q, r \in T : <<p, q>> \in Greater /\ <<q, r>> \in Greater => <<p, r>> \in Greater
  BY <1>2
<1>5. PICK m \in T : \A q \in T : <<q, m>> \notin Greater
  BY <1>1, <1>3, <1>4, MinimalElement
<1>6. ASSUME NEW q \in T
      PROVE  q <= m
  <2>1. q \in Int /\ m \in Int /\ ~(q > m)
    BY <1>2, <1>5
  <2> QED BY <2>1
<1> DEFINE last == CHOOSE k \in T : \A n \in T : n <= k
<1>7. last \in T /\ \A n \in T : n <= last
  BY <1>6
<1>8. Greatest(S, least) = last
  BY DEF Greatest, T
<1> HIDE DEF last
<1>9. last \in Int
  BY <1>1, <1>7
<1> QED BY <1>7, <1>8, <1>9 DEF T

\* The greater of two
LEMMA GreaterOfTwo ==
  ASSUME NEW a \in Int, NEW b \in Int
  PROVE  Greatest({a}, b) \in Int /\ a <= Greatest({a}, b) /\ b <= Greatest({a}, b)
<1>1. IsFiniteSet({a}) /\ {a} \subseteq Int
  BY FS_Singleton
<1> QED BY <1>1, GreatestIsThere

LEMMA LastColumnIsNumber ==
  ASSUME NEW schema, ValidSchema(schema)
  PROVE  LastColumnId(schema) \in Int
<1>1. Ids(schema) \subseteq 1 .. MaxFieldId
  BY DEF ValidSchema, Ids
<1>2. IsFiniteSet(1 .. MaxFieldId) /\ 1 .. MaxFieldId \subseteq Int
  <2>1. MaxFieldId \in Int
    BY SMT DEF MaxFieldId
  <2> QED BY <2>1, FS_Interval
<1>3. IsFiniteSet(Ids(schema)) /\ Ids(schema) \subseteq Int
  BY <1>1, <1>2, FS_Subset
<1> QED BY <1>3, GreatestIsThere DEF LastColumnId

\* The id of a partition field, from those of the fields before it
IdAfter(spec, ids, i) ==
  IF spec.fields[i].id # NoId THEN spec.fields[i].id ELSE 1 + Greatest({ids[j] : j \in 1 .. i - 1}, 999)

\* The partition field ids of a spec exist: each depends on those before it only.
LEMMA PartitionIdsAreMade ==
  ASSUME NEW spec, IsSpec(spec)
  PROVE  LET ids == PartitionIds(spec)
         IN \A i \in 1 .. Len(spec.fields) : ids[i] = IdAfter(spec, ids, i)
<1> DEFINE n == Len(spec.fields)
           Id(f, i) == IdAfter(spec, f, i)
           Made(f, k) == f = [i \in 1 .. k |-> Id(f, i)]
           Missing == {k \in 0 .. n : ~\E f : Made(f, k)}
<1>1. n \in Nat /\ DOMAIN spec.fields = 1 .. n
  BY DEF IsSpec
<1>2. Missing = {}
  <2> SUFFICES ASSUME Missing # {} PROVE FALSE
    OBVIOUS
  <2>1. Missing \subseteq Nat
    BY <1>1
  <2> HIDE DEF Missing
  <2>2. PICK k \in Missing : \A m \in Missing : k <= m
    BY <2>1, LeastNumber
  <2>3. k \in 0 .. n /\ k \in Nat /\ ~\E f : Made(f, k)
    <3> HIDE DEF Made
    <3> QED BY <1>1 DEF Missing
  <2>4. CASE k = 0
    <3> DEFINE g == [i \in 1 .. 0 |-> NoId]
    <3>1. Made(g, k)
      BY <2>4
    <3> HIDE DEF Made, g
    <3> QED BY <2>3, <3>1
  <2>5. CASE k # 0
    <3>1. k - 1 \in 0 .. n /\ k - 1 \notin Missing
      BY <1>1, <2>2, <2>3, <2>5
    <3> HIDE DEF Made
    <3>2. PICK f : Made(f, k - 1)
      BY <3>1 DEF Missing
    <3>3. f = [i \in 1 .. k - 1 |-> Id(f, i)]
      BY <3>2 DEF Made
    <3> HIDE DEF Id
    <3> DEFINE g == [i \in 1 .. k |-> Id(f, i)]
    <3>4. \A i \in 1 .. k : g[i] = Id(g, i)
      <4> TAKE i \in 1 .. k
      <4>1. \A j \in 1 .. i - 1 : g[j] = f[j]
        BY <2>3, <3>3
      <4>2. {g[j] : j \in 1 .. i - 1} = {f[j] : j \in 1 .. i - 1}
        BY <4>1
      <4>3. g[i] = Id(f, i)
        OBVIOUS
      <4> HIDE DEF g
      <4> QED BY <4>2, <4>3 DEF Id, IdAfter
    <3>5. g = [i \in 1 .. k |-> g[i]]
      OBVIOUS
    <3> HIDE DEF g
    <3>6. Made(g, k)
      BY <3>4, <3>5 DEF Made
    <3> QED BY <2>3, <3>6
  <2> QED BY <2>4, <2>5
<1>3. \E f : Made(f, n)
  <2> HIDE DEF Made
  <2> QED BY <1>1, <1>2
<1> DEFINE h == CHOOSE f : f = [i \in 1 .. n |-> Id(f, i)]
<1>4. h = [i \in 1 .. n |-> Id(h, i)]
  <2> HIDE DEF Id
  <2> QED BY <1>3
<1>5. PartitionIds(spec) = h
  BY <1>1 DEF PartitionIds, IdAfter
<1> DEFINE ids == PartitionIds(spec)
<1>6. ids = h
  BY <1>5
<1> HIDE DEF h, ids, Id
<1>7. \A i \in 1 .. n : ids[i] = Id(ids, i)
  BY <1>4, <1>6
<1> QED BY <1>7 DEF ids, Id

\* They are numbers, and so is the last of them.
LEMMA PartitionIdsAreNumbers ==
  ASSUME NEW spec, IsSpec(spec)
  PROVE  LastPartitionId(spec) \in Int
<1> DEFINE n == Len(spec.fields)
           ids == PartitionIds(spec)
           Bad == {k \in 1 .. n : ids[k] \notin Int}
<1>1. n \in Nat /\ DOMAIN spec.fields = 1 .. n /\ \A i \in 1 .. n : spec.fields[i].id \in Nat
  BY DEF IsSpec
<1>2. \A i \in 1 .. n : ids[i] = IdAfter(spec, ids, i)
  BY PartitionIdsAreMade
<1> HIDE DEF ids, n
<1>3. ASSUME NEW i \in Nat, \A j \in 1 .. i : ids[j] \in Int
      PROVE  IsFiniteSet({ids[j] : j \in 1 .. i}) /\ {ids[j] : j \in 1 .. i} \subseteq Int
  <2>1. IsFiniteSet(1 .. i)
    BY FS_Interval
  <2> DEFINE T == {ids[j] : j \in 1 .. i}
             f == [j \in 1 .. i |-> ids[j]]
  <2>2. f \in Surjection(1 .. i, T)
    BY DEF Surjection
  <2> HIDE DEF f
  <2>3. IsFiniteSet(T)
    BY <2>1, <2>2, FS_Surjection
  <2>4. T \subseteq Int
    BY <1>3
  <2> QED BY <2>3, <2>4
<1>4. Bad = {}
  <2> SUFFICES ASSUME Bad # {} PROVE FALSE
    OBVIOUS
  <2>1. Bad \subseteq Nat
    BY <1>1
  <2>2. PICK k \in Bad : \A m \in Bad : k <= m
    <3> HIDE DEF Bad
    <3> QED BY <2>1, LeastNumber
  <2>3. k \in 1 .. n /\ ids[k] \notin Int /\ k - 1 \in Nat /\ k \in Nat
    BY <1>1
  <2>4. \A j \in 1 .. k - 1 : ids[j] \in Int
    BY <1>1, <2>2, <2>3
  <2> DEFINE T == {ids[j] : j \in 1 .. k - 1}
  <2>5. IsFiniteSet(T) /\ T \subseteq Int
    BY <1>3, <2>3, <2>4
  <2> DEFINE start == 999
  <2>6. start \in Int
    OBVIOUS
  <2>7. ids[k] = IF spec.fields[k].id # NoId THEN spec.fields[k].id ELSE 1 + Greatest(T, start)
    <3>1. ids[k] = IdAfter(spec, ids, k)
      BY <1>2, <2>3
    <3> QED BY <3>1 DEF IdAfter
  <2> HIDE DEF T, start
  <2>8. Greatest(T, start) \in Int
    BY <2>5, <2>6, GreatestIsThere
  <2>9. spec.fields[k].id \in Nat
    BY <1>1, <2>3
  <2> QED BY <2>3, <2>7, <2>8, <2>9
<1>5. \A j \in 1 .. n : ids[j] \in Int
  BY <1>4
<1> DEFINE T == {ids[j] : j \in 1 .. n}
<1>6. IsFiniteSet(T) /\ T \subseteq Int
  BY <1>1, <1>3, <1>5
<1> DEFINE start == 999
<1>7. LastPartitionId(spec) = Greatest(T, start)
  BY <1>1 DEF LastPartitionId, ids
<1>8. start \in Int
  OBVIOUS
<1> HIDE DEF T, start
<1>9. Greatest(T, start) \in Int
  BY <1>6, <1>8, GreatestIsThere
<1> QED BY <1>7, <1>9

-----------------------------------------------------------------------------
(***************************************************************************)
(* Documents that resolve                                                  *)
(***************************************************************************)
\* Schemas, specs and orders by id, one of them chosen, and the greatest ids in use
UniqueIds(items) == \A a, b \in items : a.id = b.id => a = b
Chosen(items, id) == \E item \in items : item.id = id

SchemasGood(schemas, schema, last) ==
  /\ UniqueIds(schemas) /\ Chosen(schemas, schema) /\ last \in Int
  /\ \A s \in schemas : LastColumnId(s) \in Int /\ LastColumnId(s) <= last
SpecsGood(specs, spec, last) ==
  /\ UniqueIds(specs) /\ Chosen(specs, spec) /\ last \in Int
  /\ \A s \in specs : LastPartitionId(s) \in Int /\ LastPartitionId(s) <= last
OrdersGood(orders, default) == UniqueIds(orders) /\ Chosen(orders, default)

Document(refused, schemas, schema, specs, spec, orders, default, lastColumn, lastPartition, properties, log) ==
  [refused |-> refused, schemas |-> schemas, schema |-> schema, specs |-> specs, spec |-> spec,
   orders |-> orders, order |-> default, lastColumn |-> lastColumn, lastPartition |-> lastPartition,
   properties |-> properties, log |-> log]

DocumentGood(doc) ==
  /\ doc = Document(FALSE, doc.schemas, doc.schema, doc.specs, doc.spec, doc.orders, doc.order,
                    doc.lastColumn, doc.lastPartition, doc.properties, doc.log)
  /\ SchemasGood(doc.schemas, doc.schema, doc.lastColumn)
  /\ SpecsGood(doc.specs, doc.spec, doc.lastPartition)
  /\ OrdersGood(doc.orders, doc.order)
  /\ doc.log \in Seq(Nat)

LEMMA DocumentParts ==
  ASSUME NEW k, NEW a, NEW b, NEW c, NEW d, NEW e, NEW f, NEW g, NEW h, NEW i, NEW j
  PROVE  LET doc == Document(k, a, b, c, d, e, f, g, h, i, j)
         IN /\ doc.schemas = a /\ doc.schema = b /\ doc.specs = c /\ doc.spec = d /\ doc.orders = e
            /\ doc.order = f /\ doc.lastColumn = g /\ doc.lastPartition = h /\ doc.properties = i /\ doc.log = j
            /\ doc.refused = k
BY DEF Document

LEMMA GoodParts ==
  ASSUME NEW a, NEW b, NEW c, NEW d, NEW e, NEW f, NEW g, NEW h, NEW i, NEW j,
         SchemasGood(a, b, g), SpecsGood(c, d, h), OrdersGood(e, f), j \in Seq(Nat)
  PROVE  LET doc == Document(FALSE, a, b, c, d, e, f, g, h, i, j) IN DocumentGood(doc) /\ doc # Refused /\ doc.log = j
<1> DEFINE no == FALSE
           doc == Document(no, a, b, c, d, e, f, g, h, i, j)
<1> HIDE DEF no
<1>1. /\ doc.schemas = a /\ doc.schema = b /\ doc.specs = c /\ doc.spec = d /\ doc.orders = e
      /\ doc.order = f /\ doc.lastColumn = g /\ doc.lastPartition = h /\ doc.properties = i /\ doc.log = j
      /\ doc.refused = no
  BY DocumentParts
<1>2. doc = Document(no, doc.schemas, doc.schema, doc.specs, doc.spec, doc.orders, doc.order,
                     doc.lastColumn, doc.lastPartition, doc.properties, doc.log)
  BY <1>1
<1>3. Refused.refused = TRUE
  BY DEF Refused
<1> HIDE DEF doc
<1>4. DocumentGood(doc)
  BY <1>1, <1>2 DEF DocumentGood, no
<1> QED BY <1>1, <1>3, <1>4 DEF doc, no

\* Changes of one part of a document, by name
PutSchemas(doc, x) == [doc EXCEPT !.schemas = x]
PutSchema(doc, x) == [doc EXCEPT !.schema = x]
PutSpecs(doc, x) == [doc EXCEPT !.specs = x]
PutSpec(doc, x) == [doc EXCEPT !.spec = x]
PutOrders(doc, x) == [doc EXCEPT !.orders = x]
PutOrder(doc, x) == [doc EXCEPT !.order = x]
PutLastColumn(doc, x) == [doc EXCEPT !.lastColumn = x]
PutLastPartition(doc, x) == [doc EXCEPT !.lastPartition = x]
PutProperties(doc, x) == [doc EXCEPT !.properties = x]
PutLog(doc, x) == [doc EXCEPT !.log = x]

LEMMA PutSchemasWrites ==
  ASSUME NEW k, NEW a, NEW b, NEW c, NEW d, NEW e, NEW f, NEW g, NEW h, NEW i, NEW j, NEW x
  PROVE  PutSchemas(Document(k, a, b, c, d, e, f, g, h, i, j), x) = Document(k, x, b, c, d, e, f, g, h, i, j)
BY DEF Document, PutSchemas

LEMMA PutSchemaWrites ==
  ASSUME NEW k, NEW a, NEW b, NEW c, NEW d, NEW e, NEW f, NEW g, NEW h, NEW i, NEW j, NEW x
  PROVE  PutSchema(Document(k, a, b, c, d, e, f, g, h, i, j), x) = Document(k, a, x, c, d, e, f, g, h, i, j)
BY DEF Document, PutSchema

LEMMA PutSpecsWrites ==
  ASSUME NEW k, NEW a, NEW b, NEW c, NEW d, NEW e, NEW f, NEW g, NEW h, NEW i, NEW j, NEW x
  PROVE  PutSpecs(Document(k, a, b, c, d, e, f, g, h, i, j), x) = Document(k, a, b, x, d, e, f, g, h, i, j)
BY DEF Document, PutSpecs

LEMMA PutSpecWrites ==
  ASSUME NEW k, NEW a, NEW b, NEW c, NEW d, NEW e, NEW f, NEW g, NEW h, NEW i, NEW j, NEW x
  PROVE  PutSpec(Document(k, a, b, c, d, e, f, g, h, i, j), x) = Document(k, a, b, c, x, e, f, g, h, i, j)
BY DEF Document, PutSpec

LEMMA PutOrdersWrites ==
  ASSUME NEW k, NEW a, NEW b, NEW c, NEW d, NEW e, NEW f, NEW g, NEW h, NEW i, NEW j, NEW x
  PROVE  PutOrders(Document(k, a, b, c, d, e, f, g, h, i, j), x) = Document(k, a, b, c, d, x, f, g, h, i, j)
BY DEF Document, PutOrders

LEMMA PutOrderWrites ==
  ASSUME NEW k, NEW a, NEW b, NEW c, NEW d, NEW e, NEW f, NEW g, NEW h, NEW i, NEW j, NEW x
  PROVE  PutOrder(Document(k, a, b, c, d, e, f, g, h, i, j), x) = Document(k, a, b, c, d, e, x, g, h, i, j)
BY DEF Document, PutOrder

LEMMA PutLastColumnWrites ==
  ASSUME NEW k, NEW a, NEW b, NEW c, NEW d, NEW e, NEW f, NEW g, NEW h, NEW i, NEW j, NEW x
  PROVE  PutLastColumn(Document(k, a, b, c, d, e, f, g, h, i, j), x) = Document(k, a, b, c, d, e, f, x, h, i, j)
BY DEF Document, PutLastColumn

LEMMA PutLastPartitionWrites ==
  ASSUME NEW k, NEW a, NEW b, NEW c, NEW d, NEW e, NEW f, NEW g, NEW h, NEW i, NEW j, NEW x
  PROVE  PutLastPartition(Document(k, a, b, c, d, e, f, g, h, i, j), x) = Document(k, a, b, c, d, e, f, g, x, i, j)
BY DEF Document, PutLastPartition

LEMMA PutPropertiesWrites ==
  ASSUME NEW k, NEW a, NEW b, NEW c, NEW d, NEW e, NEW f, NEW g, NEW h, NEW i, NEW j, NEW x
  PROVE  PutProperties(Document(k, a, b, c, d, e, f, g, h, i, j), x) = Document(k, a, b, c, d, e, f, g, h, x, j)
BY DEF Document, PutProperties

LEMMA PutLogWrites ==
  ASSUME NEW k, NEW a, NEW b, NEW c, NEW d, NEW e, NEW f, NEW g, NEW h, NEW i, NEW j, NEW x
  PROVE  PutLog(Document(k, a, b, c, d, e, f, g, h, i, j), x) = Document(k, a, b, c, d, e, f, g, h, i, x)
BY DEF Document, PutLog

\* Adding an item with a new id, replacing the one with its id, and choosing one keep ids unique.
LEMMA AddedIsUnique ==
  ASSUME NEW items, UniqueIds(items), NEW item, MayAdd(items, item), NEW id, Chosen(items, id)
  PROVE  UniqueIds(items \cup {item}) /\ Chosen(items \cup {item}, id)
BY DEF UniqueIds, Chosen, MayAdd, ById

LEMMA ReplacedIsUnique ==
  ASSUME NEW items, UniqueIds(items), NEW item
  PROVE  /\ UniqueIds(Upsert(items, item)) /\ Chosen(Upsert(items, item), item.id)
         /\ Upsert(items, item) \subseteq items \cup {item}
BY DEF UniqueIds, Chosen, Upsert, ById

LEMMA ChosenIsThere ==
  ASSUME NEW items, NEW item, MayChoose(items, item)
  PROVE  Chosen(items, item.id)
<1>1. item \in ById(items, item.id)
  BY DEF MayChoose
<1> QED BY <1>1 DEF Chosen, ById

LEMMA SchemaAdded ==
  ASSUME NEW schemas, NEW chosen, NEW last, SchemasGood(schemas, chosen, last), NEW item, ValidSchema(item), MayAdd(schemas, item)
  PROVE  SchemasGood(schemas \cup {item}, chosen, Greatest({last}, LastColumnId(item)))
<1>1. LastColumnId(item) \in Int
  BY LastColumnIsNumber
<1> DEFINE L == LastColumnId(item)
           G == Greatest({last}, L)
<1>2. G \in Int /\ last <= G /\ L <= G /\ last \in Int
  BY <1>1, GreaterOfTwo DEF SchemasGood
<1> HIDE DEF G
<1>3. UniqueIds(schemas \cup {item}) /\ Chosen(schemas \cup {item}, chosen)
  BY AddedIsUnique DEF SchemasGood
<1> DEFINE new == schemas \cup {item}
<1>4. \A s \in schemas : LastColumnId(s) \in Int /\ LastColumnId(s) <= last
  BY DEF SchemasGood
<1>5. ASSUME NEW s \in new
      PROVE  LastColumnId(s) \in Int /\ LastColumnId(s) <= G
  <2>1. CASE s = item
    BY <1>1, <1>2, <2>1
  <2>2. CASE s \in schemas
    BY <1>2, <1>4, <2>2
  <2> QED BY <1>3, <2>1, <2>2
<1> HIDE DEF new
<1>6. SchemasGood(new, chosen, G)
  BY <1>2, <1>3, <1>5 DEF SchemasGood, new
<1> QED BY <1>6 DEF new, G

LEMMA SchemaReplaced ==
  ASSUME NEW schemas, NEW chosen, NEW last, SchemasGood(schemas, chosen, last), NEW item, ValidSchema(item)
  PROVE  SchemasGood(Upsert(schemas, item), item.id, Greatest({last}, LastColumnId(item)))
<1>1. LastColumnId(item) \in Int
  BY LastColumnIsNumber
<1> DEFINE L == LastColumnId(item)
           G == Greatest({last}, L)
<1>2. G \in Int /\ last <= G /\ L <= G /\ last \in Int
  BY <1>1, GreaterOfTwo DEF SchemasGood
<1> HIDE DEF G
<1>3. UniqueIds(Upsert(schemas, item)) /\ Chosen(Upsert(schemas, item), item.id) /\ Upsert(schemas, item) \subseteq schemas \cup {item}
  BY ReplacedIsUnique DEF SchemasGood
<1> DEFINE new == Upsert(schemas, item)
<1>4. \A s \in schemas : LastColumnId(s) \in Int /\ LastColumnId(s) <= last
  BY DEF SchemasGood
<1>5. ASSUME NEW s \in new
      PROVE  LastColumnId(s) \in Int /\ LastColumnId(s) <= G
  <2>1. CASE s = item
    BY <1>1, <1>2, <2>1
  <2>2. CASE s \in schemas
    BY <1>2, <1>4, <2>2
  <2> QED BY <1>3, <2>1, <2>2
<1> HIDE DEF new
<1>6. SchemasGood(new, item.id, G)
  BY <1>2, <1>3, <1>5 DEF SchemasGood, new
<1> QED BY <1>6 DEF new, G

LEMMA SchemaChosen ==
  ASSUME NEW schemas, NEW chosen, NEW last, SchemasGood(schemas, chosen, last), NEW item, MayChoose(schemas, item)
  PROVE  SchemasGood(schemas, item.id, last)
<1>1. Chosen(schemas, item.id)
  BY ChosenIsThere DEF SchemasGood
<1> QED BY <1>1 DEF SchemasGood

LEMMA SpecAdded ==
  ASSUME NEW specs, NEW chosen, NEW last, SpecsGood(specs, chosen, last), NEW item, IsSpec(item), MayAdd(specs, item)
  PROVE  SpecsGood(specs \cup {item}, chosen, Greatest({last}, LastPartitionId(item)))
<1>1. LastPartitionId(item) \in Int
  BY PartitionIdsAreNumbers
<1> DEFINE L == LastPartitionId(item)
           G == Greatest({last}, L)
<1>2. G \in Int /\ last <= G /\ L <= G /\ last \in Int
  BY <1>1, GreaterOfTwo DEF SpecsGood
<1> HIDE DEF G
<1>3. UniqueIds(specs \cup {item}) /\ Chosen(specs \cup {item}, chosen)
  BY AddedIsUnique DEF SpecsGood
<1> DEFINE new == specs \cup {item}
<1>4. \A s \in specs : LastPartitionId(s) \in Int /\ LastPartitionId(s) <= last
  BY DEF SpecsGood
<1>5. ASSUME NEW s \in new
      PROVE  LastPartitionId(s) \in Int /\ LastPartitionId(s) <= G
  <2>1. CASE s = item
    BY <1>1, <1>2, <2>1
  <2>2. CASE s \in specs
    BY <1>2, <1>4, <2>2
  <2> QED BY <1>3, <2>1, <2>2
<1> HIDE DEF new
<1>6. SpecsGood(new, chosen, G)
  BY <1>2, <1>3, <1>5 DEF SpecsGood, new
<1> QED BY <1>6 DEF new, G

LEMMA SpecReplaced ==
  ASSUME NEW specs, NEW chosen, NEW last, SpecsGood(specs, chosen, last), NEW item, IsSpec(item)
  PROVE  SpecsGood(Upsert(specs, item), item.id, Greatest({last}, LastPartitionId(item)))
<1>1. LastPartitionId(item) \in Int
  BY PartitionIdsAreNumbers
<1> DEFINE L == LastPartitionId(item)
           G == Greatest({last}, L)
<1>2. G \in Int /\ last <= G /\ L <= G /\ last \in Int
  BY <1>1, GreaterOfTwo DEF SpecsGood
<1> HIDE DEF G
<1>3. UniqueIds(Upsert(specs, item)) /\ Chosen(Upsert(specs, item), item.id) /\ Upsert(specs, item) \subseteq specs \cup {item}
  BY ReplacedIsUnique DEF SpecsGood
<1> DEFINE new == Upsert(specs, item)
<1>4. \A s \in specs : LastPartitionId(s) \in Int /\ LastPartitionId(s) <= last
  BY DEF SpecsGood
<1>5. ASSUME NEW s \in new
      PROVE  LastPartitionId(s) \in Int /\ LastPartitionId(s) <= G
  <2>1. CASE s = item
    BY <1>1, <1>2, <2>1
  <2>2. CASE s \in specs
    BY <1>2, <1>4, <2>2
  <2> QED BY <1>3, <2>1, <2>2
<1> HIDE DEF new
<1>6. SpecsGood(new, item.id, G)
  BY <1>2, <1>3, <1>5 DEF SpecsGood, new
<1> QED BY <1>6 DEF new, G

LEMMA SpecChosen ==
  ASSUME NEW specs, NEW chosen, NEW last, SpecsGood(specs, chosen, last), NEW item, IsSpec(item), MayChoose(specs, item)
  PROVE  SpecsGood(specs, item.id, Greatest({last}, LastPartitionId(item)))
<1>1. LastPartitionId(item) \in Int
  BY PartitionIdsAreNumbers
<1> DEFINE L == LastPartitionId(item)
           G == Greatest({last}, L)
<1>2. G \in Int /\ last <= G /\ L <= G /\ last \in Int
  BY <1>1, GreaterOfTwo DEF SpecsGood
<1> HIDE DEF G
<1>3. Chosen(specs, item.id)
  BY ChosenIsThere DEF SpecsGood
<1> DEFINE new == specs
<1>4. \A s \in specs : LastPartitionId(s) \in Int /\ LastPartitionId(s) <= last
  BY DEF SpecsGood
<1>5. ASSUME NEW s \in new
      PROVE  LastPartitionId(s) \in Int /\ LastPartitionId(s) <= G
  <2>1. CASE s = item
    BY <1>1, <1>2, <2>1
  <2>2. CASE s \in specs
    BY <1>2, <1>4, <2>2
  <2> QED BY <1>3, <2>1, <2>2
<1> HIDE DEF new
<1>6. SpecsGood(new, item.id, G)
  BY <1>2, <1>3, <1>5 DEF SpecsGood, new
<1> QED BY <1>6 DEF new, G


LEMMA OrderAdded ==
  ASSUME NEW orders, NEW chosen, OrdersGood(orders, chosen), NEW item, MayAdd(orders, item)
  PROVE  OrdersGood(orders \cup {item}, chosen)
<1>1. UniqueIds(orders \cup {item}) /\ Chosen(orders \cup {item}, chosen)
  BY AddedIsUnique DEF OrdersGood
<1> QED BY <1>1 DEF OrdersGood

LEMMA OrderReplaced ==
  ASSUME NEW orders, NEW chosen, OrdersGood(orders, chosen), NEW item
  PROVE  OrdersGood(Upsert(orders, item), item.id)
<1>1. UniqueIds(Upsert(orders, item)) /\ Chosen(Upsert(orders, item), item.id) /\ Upsert(orders, item) \subseteq orders \cup {item}
  BY ReplacedIsUnique DEF OrdersGood
<1> QED BY <1>1 DEF OrdersGood

LEMMA OrderChosen ==
  ASSUME NEW orders, NEW chosen, OrdersGood(orders, chosen), NEW item, MayChoose(orders, item)
  PROVE  OrdersGood(orders, item.id)
<1>1. Chosen(orders, item.id)
  BY ChosenIsThere DEF OrdersGood
<1> QED BY <1>1 DEF OrdersGood

-----------------------------------------------------------------------------
(***************************************************************************)
(* Updates of a document                                                   *)
(***************************************************************************)
LEMMA ColumnsWiden ==
  ASSUME NEW k, NEW a, NEW b, NEW c, NEW d, NEW e, NEW f, NEW g, NEW h, NEW i, NEW j, NEW schema
  PROVE  WithColumns(Document(k, a, b, c, d, e, f, g, h, i, j), schema) =
           Document(k, a, b, c, d, e, f, Greatest({g}, LastColumnId(schema)), h, i, j)
<1> DEFINE doc == Document(k, a, b, c, d, e, f, g, h, i, j)
<1>1. doc.lastColumn = g
  BY DocumentParts
<1>2. WithColumns(doc, schema) = PutLastColumn(doc, Greatest({doc.lastColumn}, LastColumnId(schema)))
  BY DEF WithColumns, PutLastColumn
<1> QED BY <1>1, <1>2, PutLastColumnWrites

LEMMA PartitionsWiden ==
  ASSUME NEW k, NEW a, NEW b, NEW c, NEW d, NEW e, NEW f, NEW g, NEW h, NEW i, NEW j, NEW spec
  PROVE  WithPartitions(Document(k, a, b, c, d, e, f, g, h, i, j), spec) =
           Document(k, a, b, c, d, e, f, g, Greatest({h}, LastPartitionId(spec)), i, j)
<1> DEFINE doc == Document(k, a, b, c, d, e, f, g, h, i, j)
<1>1. doc.lastPartition = h
  BY DocumentParts
<1>2. WithPartitions(doc, spec) = PutLastPartition(doc, Greatest({doc.lastPartition}, LastPartitionId(spec)))
  BY DEF WithPartitions, PutLastPartition
<1> QED BY <1>1, <1>2, PutLastPartitionWrites

\* What an update without an action does to each part
ReplaceColumns(doc, u) ==
  [WithColumns(doc, u.schema) EXCEPT !.schemas = Upsert(@, u.schema), !.schema = u.schema.id,
                                     !.properties = @ \cup u.properties]
Merged(properties, more) == properties \cup more
Wider(last, schema) == Greatest({last}, LastColumnId(schema))
ReplacePartitions(doc, spec) == [WithPartitions(doc, spec) EXCEPT !.specs = Upsert(@, spec), !.spec = spec.id]
ReplaceOrder(doc, order) == [doc EXCEPT !.orders = Upsert(@, order), !.order = order.id]

LEMMA ColumnsReplaced ==
  ASSUME NEW k, NEW a, NEW b, NEW c, NEW d, NEW e, NEW f, NEW g, NEW h, NEW i, NEW j, NEW u
  PROVE  ReplaceColumns(Document(k, a, b, c, d, e, f, g, h, i, j), u) =
           Document(k, Upsert(a, u.schema), u.schema.id, c, d, e, f, Wider(g, u.schema),
                    h, Merged(i, u.properties), j)
<1> DEFINE G == Greatest({g}, LastColumnId(u.schema))
           d0 == WithColumns(Document(k, a, b, c, d, e, f, g, h, i, j), u.schema)
           d1 == PutSchemas(d0, Upsert(d0.schemas, u.schema))
           d2 == PutSchema(d1, u.schema.id)
           d3 == PutProperties(d2, d2.properties \cup u.properties)
<1>1. d0 = Document(k, a, b, c, d, e, f, G, h, i, j)
  BY ColumnsWiden
<1>2. [d0 EXCEPT !.schemas = Upsert(@, u.schema), !.schema = u.schema.id, !.properties = @ \cup u.properties] = d3
  <2> HIDE DEF d0
  <2> QED BY DEF PutSchemas, PutSchema, PutProperties
<1> HIDE DEF d0, G, d1, d2, d3
<1>3. d1 = Document(k, Upsert(a, u.schema), b, c, d, e, f, G, h, i, j)
  BY <1>1, DocumentParts, PutSchemasWrites DEF d1
<1>4. d2 = Document(k, Upsert(a, u.schema), u.schema.id, c, d, e, f, G, h, i, j)
  BY <1>3, PutSchemaWrites DEF d2
<1>5. d2.properties = i
  BY <1>4, DocumentParts
<1>6. d3 = PutProperties(Document(k, Upsert(a, u.schema), u.schema.id, c, d, e, f, G, h, i, j), i \cup u.properties)
  BY <1>4, <1>5 DEF d3
<1>7. d3 = Document(k, Upsert(a, u.schema), u.schema.id, c, d, e, f, G, h, i \cup u.properties, j)
  BY <1>6, PutPropertiesWrites
<1> QED BY <1>2, <1>7 DEF G, d0, ReplaceColumns, Merged, Wider

LEMMA PartitionsReplaced ==
  ASSUME NEW k, NEW a, NEW b, NEW c, NEW d, NEW e, NEW f, NEW g, NEW h, NEW i, NEW j, NEW spec
  PROVE  ReplacePartitions(Document(k, a, b, c, d, e, f, g, h, i, j), spec) =
           Document(k, a, b, Upsert(c, spec), spec.id, e, f, g, Greatest({h}, LastPartitionId(spec)), i, j)
<1> DEFINE G == Greatest({h}, LastPartitionId(spec))
           d0 == WithPartitions(Document(k, a, b, c, d, e, f, g, h, i, j), spec)
           d1 == PutSpecs(d0, Upsert(d0.specs, spec))
           d2 == PutSpec(d1, spec.id)
<1>1. d0 = Document(k, a, b, c, d, e, f, g, G, i, j)
  BY PartitionsWiden
<1>2. [d0 EXCEPT !.specs = Upsert(@, spec), !.spec = spec.id] = d2
  <2> HIDE DEF d0
  <2> QED BY DEF PutSpecs, PutSpec
<1> HIDE DEF d0, G, d1, d2
<1>3. d1 = Document(k, a, b, Upsert(c, spec), d, e, f, g, G, i, j)
  BY <1>1, DocumentParts, PutSpecsWrites DEF d1
<1>4. d2 = Document(k, a, b, Upsert(c, spec), spec.id, e, f, g, G, i, j)
  BY <1>3, PutSpecWrites DEF d2
<1> QED BY <1>2, <1>4 DEF G, d0, ReplacePartitions

LEMMA OrdersReplaced ==
  ASSUME NEW k, NEW a, NEW b, NEW c, NEW d, NEW e, NEW f, NEW g, NEW h, NEW i, NEW j, NEW order
  PROVE  ReplaceOrder(Document(k, a, b, c, d, e, f, g, h, i, j), order) =
           Document(k, a, b, c, d, Upsert(e, order), order.id, g, h, i, j)
<1> DEFINE d0 == Document(k, a, b, c, d, e, f, g, h, i, j)
           d1 == PutOrders(d0, Upsert(d0.orders, order))
           d2 == PutOrder(d1, order.id)
<1>1. [d0 EXCEPT !.orders = Upsert(@, order), !.order = order.id] = d2
  <2> HIDE DEF d0
  <2> QED BY DEF PutOrders, PutOrder
<1>2. d0.orders = e
  BY DocumentParts
<1> HIDE DEF d1, d2
<1>3. d1 = Document(k, a, b, c, d, Upsert(e, order), f, g, h, i, j)
  BY <1>2, PutOrdersWrites DEF d1
<1>4. d2 = Document(k, a, b, c, d, Upsert(e, order), order.id, g, h, i, j)
  BY <1>3, PutOrderWrites DEF d2
<1> QED BY <1>1, <1>4 DEF ReplaceOrder

LEMMA PartsAreReplaced ==
  ASSUME NEW doc, NEW u
  PROVE  LET columns == ReplaceColumns(doc, u)
             partitions == IF u.spec = Absent THEN columns ELSE ReplacePartitions(columns, u.spec)
         IN ReplaceParts(doc, u) = IF u.order = Absent THEN partitions ELSE ReplaceOrder(partitions, u.order)
BY DEF ReplaceParts, ReplaceColumns, ReplacePartitions, ReplaceOrder

LEMMA UpdateIsOne ==
  ASSUME NEW doc, NEW u, ApplyUpdate(doc, u) # Refused
  PROVE  LET new == ApplyUpdate(doc, u)
         IN \/ new = ReplaceParts(doc, u)
            \/ MayAdd(doc.schemas, u.schema) /\ new = PutSchemas(WithColumns(doc, u.schema), WithColumns(doc, u.schema).schemas \cup {u.schema})
            \/ MayChoose(doc.schemas, u.schema) /\ new = PutSchema(doc, u.schema.id)
            \/ MayAdd(doc.specs, u.spec) /\ new = PutSpecs(WithPartitions(doc, u.spec), WithPartitions(doc, u.spec).specs \cup {u.spec})
            \/ MayChoose(doc.specs, u.spec) /\ new = PutSpec(WithPartitions(doc, u.spec), u.spec.id)
            \/ MayAdd(doc.orders, u.order) /\ new = PutOrders(doc, doc.orders \cup {u.order})
            \/ MayChoose(doc.orders, u.order) /\ new = PutOrder(doc, u.order.id)
            \/ new = doc
            \/ \E x : new = PutProperties(doc, x)
<1> DEFINE new == ApplyUpdate(doc, u)
           r1 == ReplaceParts(doc, u)
           r2 == PutSchemas(WithColumns(doc, u.schema), WithColumns(doc, u.schema).schemas \cup {u.schema})
           r3 == PutSchema(doc, u.schema.id)
           r4 == PutSpecs(WithPartitions(doc, u.spec), WithPartitions(doc, u.spec).specs \cup {u.spec})
           r5 == PutSpec(WithPartitions(doc, u.spec), u.spec.id)
           r6 == PutOrders(doc, doc.orders \cup {u.order})
           r7 == PutOrder(doc, u.order.id)
           r9 == PutProperties(doc, doc.properties \cup u.properties)
           r10 == PutProperties(doc, doc.properties \ u.properties)
           p1 == u.action = NoAction
           p2 == u.action = "add-schema" /\ MayAdd(doc.schemas, u.schema)
           p3 == u.action = "set-current-schema" /\ MayChoose(doc.schemas, u.schema)
           p4 == u.action = "add-spec" /\ u.spec # Absent /\ MayAdd(doc.specs, u.spec)
           p5 == u.action = "set-default-spec" /\ u.spec # Absent /\ MayChoose(doc.specs, u.spec)
           p6 == u.action = "add-sort-order" /\ u.order # Absent /\ MayAdd(doc.orders, u.order)
           p7 == u.action = "set-default-sort-order" /\ u.order # Absent /\ MayChoose(doc.orders, u.order)
           p8 == u.action = "set-location"
           p9 == u.action = "set-properties"
           p10 == u.action = "remove-properties"
           q1 == doc = Refused \/ ~ValidSchema(u.schema)
           q2 == u.spec # Absent /\ u.action \in {NoAction, "add-spec", "set-default-spec"} /\ ~ValidSpec(u.spec, u.schema)
           q3 == u.order # Absent /\ u.action \in {NoAction, "add-sort-order", "set-default-sort-order"}
                   /\ ~ValidOrder(u.order, u.schema)
           plan1 == CASE p1 -> r1 [] p2 -> r2 [] p3 -> r3 [] p4 -> r4 [] p5 -> r5 [] p6 -> r6 [] p7 -> r7
                      [] p8 -> doc [] p9 -> r9 [] p10 -> r10 [] OTHER -> Refused
<1>1. new = IF q1 THEN Refused ELSE IF q2 THEN Refused ELSE IF q3 THEN Refused ELSE plan1
  BY DEF ApplyUpdate, PutSchemas, PutSchema, PutSpecs, PutSpec, PutOrders, PutOrder, PutProperties
<1> HIDE DEF r1, r2, r3, r4, r5, r6, r7, r9, r10, new, p1, p2, p3, p4, p5, p6, p7, p8, p9, p10, q1, q2, q3
<1>2. new # Refused
  BY DEF new
<1>3. \/ new = r1
      \/ MayAdd(doc.schemas, u.schema) /\ new = r2
      \/ MayChoose(doc.schemas, u.schema) /\ new = r3
      \/ MayAdd(doc.specs, u.spec) /\ new = r4
      \/ MayChoose(doc.specs, u.spec) /\ new = r5
      \/ MayAdd(doc.orders, u.order) /\ new = r6
      \/ MayChoose(doc.orders, u.order) /\ new = r7
      \/ new = doc \/ new = r9 \/ new = r10
  <2>1. p1 => plan1 = r1
    BY DEF p1, p2, p3, p4, p5, p6, p7, p8, p9, p10, NoAction
  <2>2. p2 => plan1 = r2
    BY DEF p1, p2, p3, p4, p5, p6, p7, p8, p9, p10, NoAction
  <2>3. p3 => plan1 = r3
    BY DEF p1, p2, p3, p4, p5, p6, p7, p8, p9, p10, NoAction
  <2>4. p4 => plan1 = r4
    BY DEF p1, p2, p3, p4, p5, p6, p7, p8, p9, p10, NoAction
  <2>5. p5 => plan1 = r5
    BY DEF p1, p2, p3, p4, p5, p6, p7, p8, p9, p10, NoAction
  <2>6. p6 => plan1 = r6
    BY DEF p1, p2, p3, p4, p5, p6, p7, p8, p9, p10, NoAction
  <2>7. p7 => plan1 = r7
    BY DEF p1, p2, p3, p4, p5, p6, p7, p8, p9, p10, NoAction
  <2>8. p8 => plan1 = doc
    BY DEF p1, p2, p3, p4, p5, p6, p7, p8, p9, p10, NoAction
  <2>9. p9 => plan1 = r9
    BY DEF p1, p2, p3, p4, p5, p6, p7, p8, p9, p10, NoAction
  <2>10. p10 => plan1 = r10
    BY DEF p1, p2, p3, p4, p5, p6, p7, p8, p9, p10, NoAction
  <2>11. ~(p1 \/ p2 \/ p3 \/ p4 \/ p5 \/ p6 \/ p7 \/ p8 \/ p9 \/ p10) => plan1 = Refused
    OBVIOUS
  <2> HIDE DEF plan1
  <2>12. new = plan1
    BY <1>1, <1>2
  <2> QED BY <1>2, <2>1, <2>2, <2>3, <2>4, <2>5, <2>6, <2>7, <2>8, <2>9, <2>10, <2>11, <2>12 DEF p2, p3, p4, p5, p6, p7
<1>4. new = r9 \/ new = r10 => \E x : new = PutProperties(doc, x)
  BY DEF r9, r10
<1> QED BY <1>3, <1>4 DEF new, r1, r2, r3, r4, r5, r6, r7

\* An accepted update of a document that resolves makes one that resolves, with the same log.
LEMMA UpdateKeepsGood ==
  ASSUME NEW doc, DocumentGood(doc), NEW u, IsSpec(u.spec), Accepted(ApplyUpdate(doc, u))
  PROVE  DocumentGood(ApplyUpdate(doc, u)) /\ ApplyUpdate(doc, u) # Refused /\ ApplyUpdate(doc, u).log = doc.log
<1> DEFINE new == ApplyUpdate(doc, u)
           a == doc.schemas
           b == doc.schema
           c == doc.specs
           d == doc.spec
           e == doc.orders
           f == doc.order
           g == doc.lastColumn
           h == doc.lastPartition
           i == doc.properties
           j == doc.log
           G == Greatest({g}, LastColumnId(u.schema))
           H == Greatest({h}, LastPartitionId(u.spec))
           no == FALSE
<1>1. /\ doc = Document(no, a, b, c, d, e, f, g, h, i, j)
      /\ SchemasGood(a, b, g) /\ SpecsGood(c, d, h) /\ OrdersGood(e, f) /\ j \in Seq(Nat)
  BY DEF DocumentGood
<1> HIDE DEF no
<1>2. new # Refused /\ ValidSchema(u.schema)
  BY DEF Accepted, ApplyUpdate
<1>3. \/ new = ReplaceParts(doc, u)
      \/ MayAdd(a, u.schema) /\ new = PutSchemas(WithColumns(doc, u.schema), WithColumns(doc, u.schema).schemas \cup {u.schema})
      \/ MayChoose(a, u.schema) /\ new = PutSchema(doc, u.schema.id)
      \/ MayAdd(c, u.spec) /\ new = PutSpecs(WithPartitions(doc, u.spec), WithPartitions(doc, u.spec).specs \cup {u.spec})
      \/ MayChoose(c, u.spec) /\ new = PutSpec(WithPartitions(doc, u.spec), u.spec.id)
      \/ MayAdd(e, u.order) /\ new = PutOrders(doc, e \cup {u.order})
      \/ MayChoose(e, u.order) /\ new = PutOrder(doc, u.order.id)
      \/ new = doc
      \/ \E x : new = PutProperties(doc, x)
  BY <1>2, UpdateIsOne
<1> HIDE DEF new, a, b, c, d, e, f, g, h, i, j
<1> SUFFICES DocumentGood(new) /\ new # Refused /\ new.log = j
  BY DEF new, j
<1>4. /\ WithColumns(doc, u.schema) = Document(no, a, b, c, d, e, f, G, h, i, j)
      /\ WithPartitions(doc, u.spec) = Document(no, a, b, c, d, e, f, g, H, i, j)
  BY <1>1, ColumnsWiden, PartitionsWiden
<1> HIDE DEF G, H
<1>5. ASSUME NEW a2, NEW b2, NEW c2, NEW d2, NEW e2, NEW f2, NEW g2, NEW h2, NEW i2,
             SchemasGood(a2, b2, g2), SpecsGood(c2, d2, h2), OrdersGood(e2, f2),
             new = Document(no, a2, b2, c2, d2, e2, f2, g2, h2, i2, j)
      PROVE  DocumentGood(new) /\ new # Refused /\ new.log = j
  <2>1. DocumentGood(Document(FALSE, a2, b2, c2, d2, e2, f2, g2, h2, i2, j))
    BY <1>1, <1>5, GoodParts
  <2>2. new.refused = no /\ new.log = j
    BY <1>5, DocumentParts
  <2>3. Refused.refused = TRUE
    BY DEF Refused
  <2> QED BY <1>5, <2>1, <2>2, <2>3 DEF no
<1>6. CASE new = ReplaceParts(doc, u)
  <2> DEFINE A == Upsert(a, u.schema)
             B == u.schema.id
             I == Merged(i, u.properties)
             columns == ReplaceColumns(doc, u)
             partitions == IF u.spec = Absent THEN columns ELSE ReplacePartitions(columns, u.spec)
             orders == IF u.order = Absent THEN partitions ELSE ReplaceOrder(partitions, u.order)
  <2>1. new = orders
    <3>1. ReplaceParts(doc, u) = orders
      BY ONLY PartsAreReplaced
    <3> QED BY ONLY <1>6, <3>1
  <2>2. columns = Document(no, A, B, c, d, e, f, G, h, I, j)
    <3>1. G = Wider(g, u.schema)
      BY DEF G, Wider
    <3>2. columns = Document(no, A, B, c, d, e, f, Wider(g, u.schema), h, I, j)
      BY <1>1, ColumnsReplaced
    <3> QED BY <3>1, <3>2
  <2>3. SchemasGood(A, B, G)
    BY <1>1, <1>2, SchemaReplaced DEF G
  <2> HIDE DEF columns, A, B, I
  <2>4. \E c2, d2, h2 : SpecsGood(c2, d2, h2) /\ partitions = Document(no, A, B, c2, d2, e, f, G, h2, I, j)
    <3>1. CASE u.spec = Absent
      BY <1>1, <2>2, <3>1
    <3>2. CASE u.spec # Absent
      <4>1. partitions = Document(no, A, B, Upsert(c, u.spec), u.spec.id, e, f, G, H, I, j)
        BY <2>2, <3>2, PartitionsReplaced DEF H
      <4>2. SpecsGood(Upsert(c, u.spec), u.spec.id, H)
        BY <1>1, SpecReplaced DEF H
      <4> QED BY <4>1, <4>2
    <3> QED BY <3>1, <3>2
  <2> HIDE DEF partitions
  <2>5. PICK c2, d2, h2 : SpecsGood(c2, d2, h2) /\ partitions = Document(no, A, B, c2, d2, e, f, G, h2, I, j)
    BY <2>4
  <2>6. CASE u.order = Absent
    <3>1. new = Document(no, A, B, c2, d2, e, f, G, h2, I, j)
      BY <2>1, <2>5, <2>6
    <3> QED BY <1>1, <1>5, <2>3, <2>5, <3>1
  <2>7. CASE u.order # Absent
    <3>1. new = Document(no, A, B, c2, d2, Upsert(e, u.order), u.order.id, G, h2, I, j)
      BY <2>1, <2>5, <2>7, OrdersReplaced
    <3>2. OrdersGood(Upsert(e, u.order), u.order.id)
      BY <1>1, OrderReplaced
    <3> QED BY <1>1, <1>5, <2>3, <2>5, <3>1, <3>2
  <2> QED BY <2>6, <2>7
<1>7. CASE MayAdd(a, u.schema) /\ new = PutSchemas(WithColumns(doc, u.schema), WithColumns(doc, u.schema).schemas \cup {u.schema})
  <2>1. WithColumns(doc, u.schema).schemas = a
    BY <1>4, DocumentParts
  <2>2. new = Document(no, a \cup {u.schema}, b, c, d, e, f, G, h, i, j)
    BY <1>4, <1>7, <2>1, PutSchemasWrites
  <2>3. SchemasGood(a \cup {u.schema}, b, G)
    BY <1>1, <1>2, <1>7, SchemaAdded DEF G
  <2> QED BY <1>1, <1>5, <2>2, <2>3
<1>8. CASE MayChoose(a, u.schema) /\ new = PutSchema(doc, u.schema.id)
  <2>1. new = Document(no, a, u.schema.id, c, d, e, f, g, h, i, j)
    BY <1>1, <1>8, PutSchemaWrites
  <2>2. SchemasGood(a, u.schema.id, g)
    BY <1>1, <1>8, SchemaChosen
  <2> QED BY <1>1, <1>5, <2>1, <2>2
<1>9. CASE MayAdd(c, u.spec) /\ new = PutSpecs(WithPartitions(doc, u.spec), WithPartitions(doc, u.spec).specs \cup {u.spec})
  <2>1. WithPartitions(doc, u.spec).specs = c
    BY <1>4, DocumentParts
  <2>2. new = Document(no, a, b, c \cup {u.spec}, d, e, f, g, H, i, j)
    BY <1>4, <1>9, <2>1, PutSpecsWrites
  <2>3. SpecsGood(c \cup {u.spec}, d, H)
    BY <1>1, <1>9, SpecAdded DEF H
  <2> QED BY <1>1, <1>5, <2>2, <2>3
<1>10. CASE MayChoose(c, u.spec) /\ new = PutSpec(WithPartitions(doc, u.spec), u.spec.id)
  <2>1. new = Document(no, a, b, c, u.spec.id, e, f, g, H, i, j)
    BY <1>4, <1>10, PutSpecWrites
  <2>2. SpecsGood(c, u.spec.id, H)
    BY <1>1, <1>10, SpecChosen DEF H
  <2> QED BY <1>1, <1>5, <2>1, <2>2
<1>11. CASE MayAdd(e, u.order) /\ new = PutOrders(doc, e \cup {u.order})
  <2>1. new = Document(no, a, b, c, d, e \cup {u.order}, f, g, h, i, j)
    BY <1>1, <1>11, PutOrdersWrites
  <2>2. OrdersGood(e \cup {u.order}, f)
    BY <1>1, <1>11, OrderAdded
  <2> QED BY <1>1, <1>5, <2>1, <2>2
<1>12. CASE MayChoose(e, u.order) /\ new = PutOrder(doc, u.order.id)
  <2>1. new = Document(no, a, b, c, d, e, u.order.id, g, h, i, j)
    BY <1>1, <1>12, PutOrderWrites
  <2>2. OrdersGood(e, u.order.id)
    BY <1>1, <1>12, OrderChosen
  <2> QED BY <1>1, <1>5, <2>1, <2>2
<1>13. CASE new = doc
  BY <1>1, <1>5, <1>13
<1>14. ASSUME NEW x, new = PutProperties(doc, x)
       PROVE  DocumentGood(new) /\ new # Refused /\ new.log = j
  <2>1. new = Document(no, a, b, c, d, e, f, g, h, x, j)
    BY <1>1, <1>14, PutPropertiesWrites
  <2> QED BY <1>1, <1>5, <2>1
<1> QED BY <1>3, <1>6, <1>7, <1>8, <1>9, <1>10, <1>11, <1>12, <1>13, <1>14

\* A document accepted for a new table resolves, and names no file before it.
LEMMA CreatedIsGood ==
  ASSUME NEW input, IsSpec(input.spec), Accepted(CreateDocument(input))
  PROVE  DocumentGood(CreateDocument(input)) /\ CreateDocument(input).log = << >>
<1> DEFINE spec == Given(input.spec, Unpartitioned)
           order == Given(input.order, Unsorted)
           a == {input.schema}
           b == input.schema.id
           c == {spec}
           d == spec.id
           e == {order}
           f == order.id
           g == LastColumnId(input.schema)
           h == LastPartitionId(spec)
           p == input.properties
           log == << >>
           new == Document(FALSE, a, b, c, d, e, f, g, h, p, log)
<1>1. CreateDocument(input) = new /\ ValidSchema(input.schema)
  BY DEF CreateDocument, Accepted, Document
<1>2. g \in Int
  BY <1>1, LastColumnIsNumber
<1>3. IsSpec(spec)
  BY DEF Given, Unpartitioned, IsSpec
<1>4. h \in Int
  BY <1>3, PartitionIdsAreNumbers
<1> HIDE DEF g, h
<1>5. SchemasGood(a, b, g)
  <2>1. UniqueIds(a) /\ Chosen(a, b)
    BY DEF UniqueIds, Chosen
  <2>2. \A s \in a : LastColumnId(s) \in Int /\ LastColumnId(s) <= g
    BY <1>2 DEF g
  <2> QED BY <1>2, <2>1, <2>2 DEF SchemasGood
<1>6. SpecsGood(c, d, h)
  <2> HIDE DEF spec
  <2>1. UniqueIds(c) /\ Chosen(c, d)
    BY DEF UniqueIds, Chosen
  <2>2. \A s \in c : LastPartitionId(s) \in Int /\ LastPartitionId(s) <= h
    BY <1>4 DEF h
  <2> QED BY <1>4, <2>1, <2>2 DEF SpecsGood
<1>7. OrdersGood(e, f)
  <2> HIDE DEF order
  <2> QED BY DEF OrdersGood, UniqueIds, Chosen
<1>8. log \in Seq(Nat)
  OBVIOUS
<1> HIDE DEF a, b, c, d, e, f, p, log
<1>9. DocumentGood(new) /\ new.log = log
  <2>1. DocumentGood(new)
    BY <1>5, <1>6, <1>7, <1>8, GoodParts
  <2> DEFINE no == FALSE
  <2> HIDE DEF no
  <2>2. Document(no, a, b, c, d, e, f, g, h, p, log).log = log
    BY DocumentParts
  <2> QED BY <2>1, <2>2 DEF no
<1> QED BY <1>1, <1>9 DEF log

\* What the updates make of a document, one after the other
Updated(base, updates, docs, i) == IF i = 0 THEN base ELSE ApplyUpdate(docs[i - 1], updates[i])
UpdatedDocuments(base, updates) == CHOOSE docs : docs = [i \in 0 .. Len(updates) |-> Updated(base, updates, docs, i)]

LEMMA UpdatesAreMade ==
  ASSUME NEW base, NEW updates, Len(updates) \in Nat
  PROVE  LET docs == UpdatedDocuments(base, updates)
         IN \A i \in 0 .. Len(updates) : docs[i] = Updated(base, updates, docs, i)
<1> DEFINE n == Len(updates)
           Do(x, i) == Updated(base, updates, x, i)
           Made(x, k) == x = [i \in 0 .. k |-> Do(x, i)]
           Missing == {k \in 0 .. n : ~\E x : Made(x, k)}
<1>1. n \in Nat
  OBVIOUS
<1> HIDE DEF n
<1>2. Missing = {}
  <2> SUFFICES ASSUME Missing # {} PROVE FALSE
    OBVIOUS
  <2>1. Missing \subseteq Nat
    BY <1>1
  <2> HIDE DEF Missing
  <2>2. PICK k \in Missing : \A m \in Missing : k <= m
    BY <2>1, LeastNumber
  <2>3. k \in 0 .. n /\ k \in Nat /\ ~\E x : Made(x, k)
    <3> HIDE DEF Made
    <3> QED BY <1>1 DEF Missing
  <2>4. CASE k = 0
    <3> DEFINE g == [i \in 0 .. 0 |-> base]
    <3>1. \A i \in 0 .. 0 : Do(g, i) = base
      BY DEF Updated
    <3> HIDE DEF Do
    <3>2. Made(g, k)
      BY <2>4, <3>1
    <3> HIDE DEF Made, g
    <3> QED BY <2>3, <3>2
  <2>5. CASE k # 0
    <3>1. k - 1 \in 0 .. n /\ k - 1 \notin Missing
      BY <1>1, <2>2, <2>3, <2>5
    <3> HIDE DEF Made
    <3>2. PICK x : Made(x, k - 1)
      BY <3>1 DEF Missing
    <3>3. x = [i \in 0 .. k - 1 |-> Do(x, i)]
      BY <3>2 DEF Made
    <3> HIDE DEF Do
    <3> DEFINE g == [i \in 0 .. k |-> Do(x, i)]
    <3>4. \A i \in 0 .. k : g[i] = Do(g, i)
      <4> TAKE i \in 0 .. k
      <4>1. g[i] = Do(x, i)
        OBVIOUS
      <4>2. i # 0 => g[i - 1] = x[i - 1]
        BY <2>3, <3>3
      <4> HIDE DEF g
      <4> QED BY <4>1, <4>2 DEF Do, Updated
    <3>5. g = [i \in 0 .. k |-> g[i]]
      OBVIOUS
    <3> HIDE DEF g
    <3>6. Made(g, k)
      BY <3>4, <3>5 DEF Made
    <3> QED BY <2>3, <3>6
  <2> QED BY <2>4, <2>5
<1>3. \E x : Made(x, n)
  <2> HIDE DEF Made
  <2> QED BY <1>1, <1>2
<1> DEFINE h == UpdatedDocuments(base, updates)
<1>4. h = CHOOSE x : x = [i \in 0 .. n |-> Do(x, i)]
  BY DEF UpdatedDocuments, n
<1> HIDE DEF Do
<1>5. h = [i \in 0 .. n |-> Do(h, i)]
  <2> HIDE DEF h
  <2> QED BY <1>3, <1>4
<1> HIDE DEF h
<1>6. \A i \in 0 .. n : h[i] = Do(h, i)
  BY <1>5
<1> QED BY <1>6 DEF h, Do, n

\* The document that an accepted list of updates makes resolves, and names the file it replaces.
LEMMA UpdatedIsGood ==
  ASSUME NEW base, DocumentGood(base), NEW location \in Nat, NEW updates, Len(updates) \in Nat,
         \A i \in 1 .. Len(updates) : IsSpec(updates[i].spec), Accepted(UpdateDocument(base, location, updates))
  PROVE  LET new == UpdateDocument(base, location, updates)
         IN DocumentGood(new) /\ new.log[Len(new.log)] = location
<1> DEFINE n == Len(updates)
           docs == UpdatedDocuments(base, updates)
           last == docs[n]
           new == UpdateDocument(base, location, updates)
           Bad == {i \in 0 .. n : ~(docs[i] = Refused \/ DocumentGood(docs[i]))}
<1>1. \A i \in 0 .. n : docs[i] = Updated(base, updates, docs, i)
  BY UpdatesAreMade
<1>2. new = IF updates = << >> \/ ~Accepted(last) \/ ById(last.schemas, last.schema) = {} THEN Refused
            ELSE [last EXCEPT !.log = Append(@, location)]
  BY DEF UpdateDocument, UpdatedDocuments, Updated
<1>3. n \in Nat /\ new # Refused
  BY DEF Accepted
<1> HIDE DEF n, docs, new
<1>4. Bad = {}
  <2> SUFFICES ASSUME Bad # {} PROVE FALSE
    OBVIOUS
  <2>1. Bad \subseteq Nat
    BY <1>3
  <2> HIDE DEF Bad
  <2>2. PICK k \in Bad : \A m \in Bad : k <= m
    BY <2>1, LeastNumber
  <2>3. k \in 0 .. n /\ ~(docs[k] = Refused \/ DocumentGood(docs[k])) /\ docs[k] = Updated(base, updates, docs, k)
    BY <1>1 DEF Bad
  <2>4. k # 0
    BY <2>3 DEF Updated
  <2>5. k - 1 \in 0 .. n /\ k - 1 \notin Bad /\ k \in 1 .. n
    BY <1>3, <2>2, <2>3, <2>4
  <2>6. docs[k - 1] = Refused \/ DocumentGood(docs[k - 1])
    BY <2>5 DEF Bad
  <2>7. docs[k] = ApplyUpdate(docs[k - 1], updates[k]) /\ IsSpec(updates[k].spec)
    BY <2>3, <2>4, <2>5 DEF Updated, n
  <2>8. CASE docs[k - 1] = Refused
    BY <2>3, <2>7, <2>8 DEF ApplyUpdate
  <2>9. CASE DocumentGood(docs[k - 1])
    BY <2>3, <2>7, <2>9, UpdateKeepsGood DEF Accepted
  <2> QED BY <2>6, <2>8, <2>9
<1>5. DocumentGood(last)
  <2>1. n \in 0 .. n /\ last # Refused
    BY <1>2, <1>3 DEF Accepted
  <2> QED BY <1>4, <2>1
<1>6. new = [last EXCEPT !.log = Append(@, location)]
  BY <1>2, <1>3
<1> HIDE DEF last
<1> DEFINE log == Append(last.log, location)
           no == FALSE
<1>7. new = PutLog(last, log)
  BY <1>6 DEF PutLog
<1>8. log \in Seq(Nat) /\ log[Len(log)] = location
  BY <1>5 DEF DocumentGood
<1>9. last = Document(no, last.schemas, last.schema, last.specs, last.spec, last.orders, last.order,
                      last.lastColumn, last.lastPartition, last.properties, last.log)
  BY <1>5 DEF DocumentGood
<1> HIDE DEF log, no
<1>10. new = Document(no, last.schemas, last.schema, last.specs, last.spec, last.orders, last.order,
                      last.lastColumn, last.lastPartition, last.properties, log)
  BY <1>7, <1>9, PutLogWrites
<1>11. new.log = log
  BY <1>10, DocumentParts
<1>12. DocumentGood(new)
  <2> DEFINE a == last.schemas
             b == last.schema
             c == last.specs
             d == last.spec
             e == last.orders
             f == last.order
             g == last.lastColumn
             h == last.lastPartition
             i == last.properties
  <2>1. SchemasGood(a, b, g) /\ SpecsGood(c, d, h) /\ OrdersGood(e, f)
    BY <1>5 DEF DocumentGood
  <2>2. new = Document(FALSE, a, b, c, d, e, f, g, h, i, log)
    BY <1>10 DEF no
  <2> HIDE DEF a, b, c, d, e, f, g, h, i
  <2>3. DocumentGood(Document(FALSE, a, b, c, d, e, f, g, h, i, log))
    BY <1>8, <2>1, GoodParts
  <2> QED BY <2>2, <2>3
<1> QED BY <1>8, <1>11, <1>12 DEF new

\* One item has a chosen id.
LEMMA OneIsChosen ==
  ASSUME NEW items, UniqueIds(items), NEW id, Chosen(items, id)
  PROVE  Cardinality(ById(items, id)) = 1
<1>1. PICK item \in items : item.id = id
  BY DEF Chosen
<1>2. ById(items, id) = {item}
  BY <1>1 DEF ById, UniqueIds
<1> QED BY <1>2, FS_Singleton

LEMMA GoodResolves ==
  ASSUME NEW doc, DocumentGood(doc)
  PROVE  Resolves(doc)
BY OneIsChosen DEF DocumentGood, SchemasGood, SpecsGood, OrdersGood, Resolves

-----------------------------------------------------------------------------
(***************************************************************************)
(* What a command does to the tables                                       *)
(***************************************************************************)
KeepsTables(u, s) == StoreShape(u) /\ u.tables = s.tables /\ u.revision = s.revision

LEMMA StoreFields ==
  ASSUME NEW d, NEW t, NEW p, NEW f, NEW h, NEW r, NEW v,
         NEW u, u = [databases |-> d, tables |-> t, partitions |-> p, facts |-> f, health |-> h,
                     running |-> r, revision |-> v]
  PROVE  StoreShape(u) /\ u.tables = t /\ u.revision = v
BY DEF StoreShape

\* None of these writes a row of a table.
LEMMA DatabasesKeepTables ==
  ASSUME NEW s, StoreShape(s), NEW new
  PROVE  KeepsTables([s EXCEPT !.databases = new], s)
<1> DEFINE u == [s EXCEPT !.databases = new]
<1>1. u = [databases |-> new, tables |-> s.tables, partitions |-> s.partitions, facts |-> s.facts,
           health |-> s.health, running |-> s.running, revision |-> s.revision]
  BY DatabasesWritten
<1> HIDE DEF u
<1>2. KeepsTables(u, s)
  BY <1>1, StoreFields DEF KeepsTables
<1> QED BY <1>2 DEF u

LEMMA PartitionsKeepTables ==
  ASSUME NEW s, StoreShape(s), NEW new, NEW facts
  PROVE  KeepsTables([s EXCEPT !.partitions = new, !.facts = facts], s)
<1> DEFINE u == [s EXCEPT !.partitions = new, !.facts = facts]
<1>1. u = [databases |-> s.databases, tables |-> s.tables, partitions |-> new, facts |-> facts,
           health |-> s.health, running |-> s.running, revision |-> s.revision]
  BY PartitionsWritten
<1> HIDE DEF u
<1>2. KeepsTables(u, s)
  BY <1>1, StoreFields DEF KeepsTables
<1> QED BY <1>2 DEF u

LEMMA FactsKeepTables ==
  ASSUME NEW s, StoreShape(s), NEW new
  PROVE  KeepsTables([s EXCEPT !.facts = new], s)
<1> DEFINE u == [s EXCEPT !.facts = new]
<1>1. u = [databases |-> s.databases, tables |-> s.tables, partitions |-> s.partitions, facts |-> new,
           health |-> s.health, running |-> s.running, revision |-> s.revision]
  BY FactsWritten
<1> HIDE DEF u
<1>2. KeepsTables(u, s)
  BY <1>1, StoreFields DEF KeepsTables
<1> QED BY <1>2 DEF u

LEMMA HealthKeepsTables ==
  ASSUME NEW s, StoreShape(s), NEW new
  PROVE  KeepsTables([s EXCEPT !.health = new], s)
<1> DEFINE u == [s EXCEPT !.health = new]
<1>1. u = [databases |-> s.databases, tables |-> s.tables, partitions |-> s.partitions, facts |-> s.facts,
           health |-> new, running |-> s.running, revision |-> s.revision]
  BY HealthWritten
<1> HIDE DEF u
<1>2. KeepsTables(u, s)
  BY <1>1, StoreFields DEF KeepsTables
<1> QED BY <1>2 DEF u

LEMMA RefreshKeepsTables ==
  ASSUME NEW s, StoreShape(s), NEW t
  PROVE  KeepsTables(RefreshHealth(s, t), s)
<1> DEFINE u == RefreshHealth(s, t)
<1>1. u = [databases |-> s.databases, tables |-> s.tables, partitions |-> s.partitions, facts |-> s.facts,
           health |-> With(s.health, t, HealthOf(s, t)), running |-> s.running, revision |-> s.revision]
  BY HealthRefreshed
<1> HIDE DEF u
<1>2. KeepsTables(u, s)
  BY <1>1, StoreFields DEF KeepsTables
<1> QED BY <1>2 DEF u

LEMMA CancelKeepsTables ==
  ASSUME NEW s, StoreShape(s), NEW gone
  PROVE  KeepsTables(CancelRuns(s, gone), s)
<1> DEFINE u == CancelRuns(s, gone)
<1>1. u = [databases |-> s.databases, tables |-> s.tables, partitions |-> s.partitions, facts |-> s.facts,
           health |-> s.health, running |-> Without(s.running, gone), revision |-> s.revision]
  BY RunsCancelled
<1> HIDE DEF u
<1>2. KeepsTables(u, s)
  BY <1>1, StoreFields DEF KeepsTables
<1> QED BY <1>2 DEF u

LEMMA DroppedPartitionsKeepTables ==
  ASSUME NEW s, StoreShape(s), NEW gone
  PROVE  KeepsTables(DropPartitions(s, gone), s)
<1> DEFINE u == DropPartitions(s, gone)
<1>1. u = [databases |-> s.databases, tables |-> s.tables, partitions |-> Without(s.partitions, gone),
           facts |-> Without(s.facts, gone), health |-> ForgetIssues(s.health, gone),
           running |-> s.running, revision |-> s.revision]
  BY DroppedPartitions
<1> HIDE DEF u
<1>2. KeepsTables(u, s)
  BY <1>1, StoreFields DEF KeepsTables
<1> QED BY <1>2 DEF u

LEMMA TablesDropped ==
  ASSUME NEW s, StoreShape(s), NEW gone
  PROVE  LET u == DropTables(s, gone)
         IN StoreShape(u) /\ u.tables = Without(s.tables, gone) /\ u.revision = s.revision
<1> DEFINE u == DropTables(s, gone)
           rows == PartitionsOf(s, gone)
<1>1. u = [databases |-> s.databases, tables |-> Without(s.tables, gone),
           partitions |-> Without(s.partitions, rows), facts |-> Without(s.facts, rows),
           health |-> Without(ForgetIssues(s.health, rows), gone),
           running |-> Without(s.running, gone), revision |-> s.revision]
  BY DroppedTables
<1> HIDE DEF u
<1>2. StoreShape(u) /\ u.tables = Without(s.tables, gone) /\ u.revision = s.revision
  BY <1>1, StoreFields
<1> QED BY <1>2 DEF u

LEMMA TablePut ==
  ASSUME NEW s, StoreShape(s), NEW t, NEW table
  PROVE  LET u == WriteTable(s, t, table)
         IN StoreShape(u) /\ u.tables = With(s.tables, t, table) /\ u.revision = s.revision
<1> DEFINE u == WriteTable(s, t, table)
<1>1. u = [databases |-> s.databases, tables |-> With(s.tables, t, table), partitions |-> s.partitions,
           facts |-> s.facts, health |-> s.health, running |-> s.running, revision |-> s.revision]
  BY TableWritten
<1> HIDE DEF u
<1>2. StoreShape(u) /\ u.tables = With(s.tables, t, table) /\ u.revision = s.revision
  BY <1>1, StoreFields
<1> QED BY <1>2 DEF u

\* A command leaves a table as it was, revises the one it finds, makes a new one, or drops it.
TablesFollow(s, u, op) ==
  /\ u.revision = s.revision
  /\ \A t \in DOMAIN u.tables :
       \/ t \in DOMAIN s.tables /\ u.tables[t] = s.tables[t]
       \/ /\ op.kind = "UpdateTable" /\ t \in FindTable(s, op.database, op.old)
          /\ u.tables[t] = Revise(s.tables[t], op)
       \/ /\ op.kind = "CreateTable" /\ t = NewRow(s.tables)
          /\ \E d : u.tables[t] = NewTable(d, op, s.revision)

LEMMA KeptTablesFollow ==
  ASSUME NEW s, NEW u, KeepsTables(u, s), NEW op
  PROVE  TablesFollow(s, u, op)
BY DEF KeepsTables, TablesFollow

LEMMA DroppedTablesFollow ==
  ASSUME NEW s, NEW u, NEW gone, u.tables = Without(s.tables, gone), u.revision = s.revision, NEW op
  PROVE  TablesFollow(s, u, op)
<1>1. /\ DOMAIN u.tables = DOMAIN s.tables \ gone
      /\ \A t \in DOMAIN s.tables \ gone : u.tables[t] = s.tables[t]
  BY DEF Without
<1> QED BY <1>1 DEF TablesFollow

LEMMA NewTableFollows ==
  ASSUME NEW s, StoreGood(s), NEW op, op.kind = "CreateTable"
  PROVE  TablesFollow(s, CreateTable(s, op), op)
<1> DEFINE t == NewRow(s.tables)
           d == Only(FindDatabase(s, op.database))
           table == NewTable(d, op, s.revision)
           w == WriteTable(s, t, table)
           blank == [arity |-> NoIssue, conversion |-> [i \in DOMAIN op.keys |-> NoIssue]]
           u == CreateTable(s, op)
<1>1. StoreShape(s)
  BY DEF StoreGood, StoreTyped, RowsTyped
<1>2. u = [w EXCEPT !.health = With(w.health, t, blank)]
  BY DEF CreateTable
<1>3. StoreShape(w) /\ w.tables = With(s.tables, t, table) /\ w.revision = s.revision
  BY <1>1, TablePut
<1> HIDE DEF u, w, blank, table
<1>4. KeepsTables(u, w)
  BY <1>2, <1>3, HealthKeepsTables
<1>5. u.tables = With(s.tables, t, table) /\ u.revision = s.revision
  BY <1>3, <1>4 DEF KeepsTables
<1> HIDE DEF t
<1>6. /\ DOMAIN u.tables = DOMAIN s.tables \cup {t} /\ u.tables[t] = table
      /\ \A x \in DOMAIN s.tables \ {t} : u.tables[x] = s.tables[x]
  BY <1>5 DEF With
<1>7. TablesFollow(s, u, op)
  BY <1>5, <1>6 DEF TablesFollow, t, table
<1> QED BY <1>7 DEF u

LEMMA RevisedTableFollows ==
  ASSUME NEW s, StoreGood(s), NEW op, op.kind = "UpdateTable", UpdateTableRefusal(s, op) = "ok"
  PROVE  TablesFollow(s, UpdateTable(s, op), op)
<1> DEFINE found == FindTable(s, op.database, op.old)
           t == Only(found)
           ready == IF op.name = op.old THEN s ELSE CancelRuns(s, {t})
           table == Revise(ready.tables[t], op)
           w == WriteTable(ready, t, table)
           u == UpdateTable(s, op)
<1>1. StoreShape(s)
  BY DEF StoreGood, StoreTyped, RowsTyped
<1>2. t \in found
  BY OnlyIsFound DEF UpdateTableRefusal
<1>3. t \in DOMAIN s.tables
  BY <1>2 DEF FindTable
<1>4. KeepsTables(ready, s)
  BY <1>1, CancelKeepsTables DEF KeepsTables
<1>5. u = IF s.tables[t].keys = op.keys THEN w ELSE RefreshFacts(w, t)
  BY DEF UpdateTable
<1> HIDE DEF found, t, ready, u
<1>6. table = Revise(s.tables[t], op)
  BY <1>4 DEF KeepsTables
<1> HIDE DEF table
<1>7. StoreShape(w) /\ w.tables = With(ready.tables, t, table) /\ w.revision = ready.revision
  BY <1>4, TablePut DEF KeepsTables
<1> HIDE DEF w
<1>8. KeepsTables(u, w)
  <2>1. KeepsTables(w, w)
    BY <1>7 DEF KeepsTables
  <2> DEFINE facts == [p \in DOMAIN w.facts |->
                         IF p \in PartitionsOf(w, {t}) THEN QueryFacts(w.tables[t].keys, w.partitions[p].values)
                         ELSE w.facts[p]]
             v == [w EXCEPT !.facts = facts]
  <2>2. RefreshFacts(w, t) = RefreshHealth(v, t)
    BY DEF RefreshFacts
  <2> HIDE DEF facts
  <2>3. KeepsTables(v, w)
    BY <1>7, FactsKeepTables
  <2> HIDE DEF v
  <2>4. KeepsTables(RefreshFacts(w, t), v)
    BY <2>2, <2>3, RefreshKeepsTables DEF KeepsTables
  <2>5. KeepsTables(RefreshFacts(w, t), w)
    BY <2>3, <2>4 DEF KeepsTables
  <2> QED BY <1>5, <2>1, <2>5
<1>9. u.tables = With(s.tables, t, table) /\ u.revision = s.revision
  BY <1>4, <1>7, <1>8 DEF KeepsTables
<1>10. /\ DOMAIN u.tables = DOMAIN s.tables \cup {t} /\ u.tables[t] = table
       /\ \A x \in DOMAIN s.tables \ {t} : u.tables[x] = s.tables[x]
  BY <1>9 DEF With
<1>11. TablesFollow(s, u, op)
  BY <1>2, <1>3, <1>6, <1>9, <1>10 DEF TablesFollow, found
<1> QED BY <1>11 DEF u

LEMMA RenamedDatabaseKeepsTables ==
  ASSUME NEW s, StoreGood(s), NEW op
  PROVE  KeepsTables(UpdateDatabase(s, op), s)
<1> DEFINE d == Only(FindDatabase(s, op.old))
           ready == IF op.name = op.old THEN s ELSE CancelRuns(s, TablesOf(s, {d}))
           u == UpdateDatabase(s, op)
<1>1. StoreShape(s)
  BY DEF StoreGood, StoreTyped, RowsTyped
<1>2. KeepsTables(ready, s)
  BY <1>1, CancelKeepsTables DEF KeepsTables
<1>3. u = [ready EXCEPT !.databases[d] = op.name]
  BY DEF UpdateDatabase
<1> HIDE DEF d, ready, u
<1> DEFINE new == [ready.databases EXCEPT ![d] = op.name]
<1>4. u = [ready EXCEPT !.databases = new]
  BY <1>2, <1>3 DEF KeepsTables, StoreShape
<1> HIDE DEF new
<1>5. KeepsTables(u, ready)
  BY <1>2, <1>4, DatabasesKeepTables DEF KeepsTables
<1>6. KeepsTables(u, s)
  BY <1>2, <1>5 DEF KeepsTables
<1> QED BY <1>6 DEF u

LEMMA DroppedDatabaseFollows ==
  ASSUME NEW s, StoreGood(s), NEW op
  PROVE  TablesFollow(s, DeleteDatabase(s, op), op)
<1> DEFINE found == FindDatabase(s, op.name)
           gone == TablesOf(s, found)
           v == DropTables(s, gone)
           new == Without(v.databases, found)
           u == DeleteDatabase(s, op)
<1>1. StoreShape(s)
  BY DEF StoreGood, StoreTyped, RowsTyped
<1>2. u = [v EXCEPT !.databases = new]
  BY DEF DeleteDatabase
<1> HIDE DEF found, new, u, gone
<1>3. StoreShape(v) /\ v.tables = Without(s.tables, gone) /\ v.revision = s.revision
  BY <1>1, TablesDropped
<1> HIDE DEF v
<1>4. KeepsTables(u, v)
  BY <1>2, <1>3, DatabasesKeepTables
<1>5. u.tables = Without(s.tables, gone) /\ u.revision = s.revision
  BY <1>3, <1>4 DEF KeepsTables
<1>6. TablesFollow(s, u, op)
  BY <1>5, DroppedTablesFollow
<1> QED BY <1>6 DEF u

LEMMA DroppedTableFollows ==
  ASSUME NEW s, StoreGood(s), NEW op
  PROVE  TablesFollow(s, DeleteTable(s, op), op)
<1> DEFINE found == FindTable(s, op.database, op.name)
           u == DropTables(s, found)
<1>1. StoreShape(s)
  BY DEF StoreGood, StoreTyped, RowsTyped
<1> HIDE DEF found
<1>2. u.tables = Without(s.tables, found) /\ u.revision = s.revision
  BY <1>1, TablesDropped
<1> HIDE DEF u
<1>3. TablesFollow(s, u, op)
  BY <1>2, DroppedTablesFollow
<1> QED BY <1>3 DEF u, found, DeleteTable

LEMMA WrittenPartitionKeepsTables ==
  ASSUME NEW s, StoreShape(s), NEW p, NEW row
  PROVE  KeepsTables(WritePartition(s, p, row), s)
<1> DEFINE partitions == With(s.partitions, p, row)
           facts == With(s.facts, p, QueryFacts(s.tables[row.table].keys, row.values))
           w == [s EXCEPT !.partitions = partitions, !.facts = facts]
           u == WritePartition(s, p, row)
<1>1. u = RefreshHealth(w, row.table)
  BY DEF WritePartition
<1> HIDE DEF partitions, facts, u
<1>2. KeepsTables(w, s)
  BY PartitionsKeepTables
<1> HIDE DEF w
<1>3. KeepsTables(u, w)
  BY <1>1, <1>2, RefreshKeepsTables DEF KeepsTables
<1>4. KeepsTables(u, s)
  BY <1>2, <1>3 DEF KeepsTables
<1> QED BY <1>4 DEF u

LEMMA DroppedPartitionKeepsTables ==
  ASSUME NEW s, StoreShape(s), NEW op
  PROVE  KeepsTables(DeletePartition(s, op), s)
<1> DEFINE t == Only(FindTable(s, op.database, op.table))
           gone == FindPartition(s, t, op.values)
           w == DropPartitions(s, gone)
           u == DeletePartition(s, op)
<1>1. u = RefreshHealth(w, t)
  BY DEF DeletePartition
<1> HIDE DEF t, gone, u
<1>2. KeepsTables(w, s)
  BY DroppedPartitionsKeepTables
<1> HIDE DEF w
<1>3. KeepsTables(u, w)
  BY <1>1, <1>2, RefreshKeepsTables DEF KeepsTables
<1>4. KeepsTables(u, s)
  BY <1>2, <1>3 DEF KeepsTables
<1> QED BY <1>4 DEF u

LEMMA EffectOnTables ==
  ASSUME NEW s, StoreGood(s), NEW op, IsCommand(op), Refusal(s, op) = "ok"
  PROVE  TablesFollow(s, Effect(s, op), op)
<1>0. StoreShape(s)
  BY DEF StoreGood, StoreTyped, RowsTyped
<1>1. CASE op.kind = "CreateDatabase"
  <2>1. Effect(s, op) = [s EXCEPT !.databases = With(s.databases, NewRow(s.databases), op.name)]
    BY <1>1 DEF Effect, CreateDatabase
  <2>2. KeepsTables(Effect(s, op), s)
    BY <1>0, <2>1, DatabasesKeepTables
  <2> QED BY <2>2, KeptTablesFollow
<1>2. CASE op.kind = "UpdateDatabase"
  <2>1. Effect(s, op) = UpdateDatabase(s, op)
    BY <1>2 DEF Effect
  <2> QED BY <2>1, RenamedDatabaseKeepsTables, KeptTablesFollow
<1>3. CASE op.kind = "DeleteDatabase"
  <2>1. Effect(s, op) = DeleteDatabase(s, op)
    BY <1>3 DEF Effect
  <2> QED BY <2>1, DroppedDatabaseFollows
<1>4. CASE op.kind = "CreateTable"
  <2>1. Effect(s, op) = CreateTable(s, op)
    BY <1>4 DEF Effect
  <2> QED BY <1>4, <2>1, NewTableFollows
<1>5. CASE op.kind = "UpdateTable"
  <2>1. UpdateTableRefusal(s, op) = "ok" /\ Effect(s, op) = UpdateTable(s, op)
    BY <1>5 DEF Refusal, Effect
  <2> QED BY <1>5, <2>1, RevisedTableFollows
<1>6. CASE op.kind = "DeleteTable"
  <2>1. Effect(s, op) = DeleteTable(s, op)
    BY <1>6 DEF Effect
  <2> QED BY <2>1, DroppedTableFollows
<1>7. CASE op.kind = "CreatePartition"
  <2>1. Effect(s, op) = CreatePartition(s, op)
    BY <1>7 DEF Effect
  <2>2. KeepsTables(Effect(s, op), s)
    BY <1>0, <2>1, WrittenPartitionKeepsTables DEF CreatePartition
  <2> QED BY <2>2, KeptTablesFollow
<1>8. CASE op.kind = "UpdatePartition"
  <2>1. Effect(s, op) = UpdatePartition(s, op)
    BY <1>8 DEF Effect
  <2>2. KeepsTables(Effect(s, op), s)
    BY <1>0, <2>1, WrittenPartitionKeepsTables DEF UpdatePartition
  <2> QED BY <2>2, KeptTablesFollow
<1>9. CASE op.kind = "DeletePartition"
  <2>1. Effect(s, op) = DeletePartition(s, op)
    BY <1>9 DEF Effect
  <2>2. KeepsTables(Effect(s, op), s)
    BY <1>0, <2>1, DroppedPartitionKeepsTables
  <2> QED BY <2>2, KeptTablesFollow
<1> QED BY <1>1, <1>2, <1>3, <1>4, <1>5, <1>6, <1>7, <1>8, <1>9 DEF IsCommand

-----------------------------------------------------------------------------
(***************************************************************************)
(* What holds of the tables, the plans and the files                       *)
(***************************************************************************)
CreatedOnce(s) ==
  /\ s.revision \in Nat
  /\ \A t \in DOMAIN s.tables : s.tables[t].created \in Nat /\ s.tables[t].created < s.revision
  /\ \A t, u \in DOMAIN s.tables : s.tables[t].created = s.tables[u].created => t = u

OpOf(w) == w.ops[w.index]
DraftFits(d, s, w) == d = Effect(s, OpOf(w)) /\ Refusal(s, OpOf(w)) = "ok"

\* What a plan remembers of the table it was made for is still true: that table, if there still is
\* one, has gone on to later versions, or has the version and the file that were read.
Remembers(p, s) ==
  /\ p.base \in Nat /\ p.read.version \in Nat /\ p.read.created \in Nat /\ p.read.created < s.revision
  /\ \A t \in DOMAIN s.tables : s.tables[t].created = p.read.created =>
       /\ p.read.version <= s.tables[t].version
       /\ p.read.version = s.tables[t].version => p.base = s.tables[t].location

UpdatePlanned(op, p, s) ==
  /\ Remembers(p, s) /\ op.previous = p.base
  /\ op.version = IF p.request.version = AnyVersion THEN p.read.version ELSE p.request.version

ReadPlanned(w, p, s, requests) ==
  /\ w.kind = "publish" /\ p.location = NoFile /\ OpOf(w).kind = "UpdateTable"
  /\ {"kind", "columns", "location", "previous", "version"} \subseteq DOMAIN OpOf(w)
  /\ UpdatePlanned(OpOf(w), p, s) /\ p.request \in requests /\ p.request.kind = "update"

CandidatePlanned(w, p, s, last) ==
  LET op == OpOf(w)
  IN /\ w.kind = "publish" /\ p.location \in 1 .. last /\ op.location = p.location
     /\ DocumentGood(p.doc) /\ op.columns = GlueColumns(CurrentSchema(p.doc))
     /\ \/ op.kind = "CreateTable" /\ op.previous = NoFile
        \/ op.kind = "UpdateTable" /\ UpdatePlanned(op, p, s) /\ p.doc.log[Len(p.doc.log)] = p.base

Written(p, fs) == p.location \in DOMAIN fs /\ fs[p.location] = p.doc

PlainCommands(w) ==
  /\ w.kind \in {"single", "batch"}
  /\ \A i \in 1 .. Len(w.ops) : w.ops[i].kind \in {"CreateTable", "UpdateTable"} => w.ops[i].location = NoFile

\* a request at each of its places, with its plan
PlanGood(w, p, s, fs, last, requests) ==
  \/ w.pc = "idle" /\ p.location = NoFile
  \/ w.pc = "read" /\ ReadPlanned(w, p, s, requests)
  \/ w.pc = "write" /\ CandidatePlanned(w, p, s, last)
  \/ w.pc \in {"begin", "commit"} /\ CandidatePlanned(w, p, s, last) /\ Written(p, fs)
  \/ w.pc \in {"ended", "compensate"} /\ w.kind = "publish" /\ p.location \in 1 .. last
  \/ w.pc \in {"begin", "commit", "ended"} /\ PlainCommands(w) /\ p.location = NoFile

Published(w) == w.pc = "ended" /\ w.outcome = "ok"
Owns(w, p, tables, lost) ==
  \A t \in DOMAIN tables : tables[t].location = p.location => p.location \in lost \cup {NoFile} \/ Published(w)
LateGood(write, tables, last, lost) ==
  /\ write.location \in 1 .. last /\ DocumentGood(write.doc)
  /\ \A t \in DOMAIN tables : tables[t].location = write.location => write.location \in lost

Backed(table, fs, lost, mixed) ==
  table.location \notin {NoFile} \cup lost =>
    /\ table.location \in DOMAIN fs
    /\ table.columns = GlueColumns(CurrentSchema(fs[table.location]))
    /\ table.previous # NoFile => fs[table.location].log[Len(fs[table.location].log)] = table.previous
    /\ /\ table.archive # << >> /\ table.archive[Len(table.archive)].version = table.version - 1
       /\ table.previous # NoFile /\ table.location \notin mixed
       => table.archive[Len(table.archive)].location = table.previous

FilesGood(fs) == \A l \in DOMAIN fs : DocumentGood(fs[l])
TablesBacked(tables, fs, lost, mixed) == \A t \in DOMAIN tables : Backed(tables[t], fs, lost, mixed)

DraftInOrder == writer # NoWriter => DraftFits(draft, store, work[writer])
PlansInOrder ==
  /\ plan = [c \in Clients |-> plan[c]]
  /\ \A c \in Clients : PlanGood(work[c], plan[c], store, files, lastLocation, Scenario.requests)
LocationsInOrder ==
  /\ lastLocation \in Nat
  /\ \A t \in DOMAIN store.tables : store.tables[t].location \in {NoFile} \cup 1 .. lastLocation
  /\ \A c, d \in Clients : plan[c].location = plan[d].location => plan[c].location = NoFile \/ c = d
  /\ \A c \in Clients : Owns(work[c], plan[c], store.tables, disowned)
  /\ \A write \in late : LateGood(write, store.tables, lastLocation, disowned)
  /\ \A write \in late, c \in Clients : plan[c].location = write.location => work[c].pc = "compensate"

PublicationInOrder ==
  /\ CreatedOnce(store) /\ DraftInOrder /\ PlansInOrder /\ LocationsInOrder
  /\ FilesGood(files) /\ TablesBacked(store.tables, files, disowned, mistaken)

-----------------------------------------------------------------------------
(***************************************************************************)
(* What an accepted command makes of the tables, once it is committed      *)
(***************************************************************************)
LEMMA RevisedParts ==
  ASSUME NEW table, TableTyped(table), NEW op
  PROVE  LET new == Revise(table, op)
         IN /\ new.columns = op.columns /\ new.location = op.location /\ new.previous = op.previous
            /\ new.version = table.version + 1 /\ new.created = table.created
            /\ new.archive = IF op.skipArchive THEN table.archive
                             ELSE Append(table.archive, [version |-> table.version, location |-> table.location])
<1> DEFINE new == Revise(table, op)
           r0 == [database |-> table.database, name |-> table.name, keys |-> table.keys, columns |-> table.columns,
                  location |-> table.location, previous |-> table.previous, version |-> table.version,
                  archive |-> table.archive, created |-> table.created]
           archive == IF op.skipArchive THEN table.archive
                      ELSE Append(table.archive, [version |-> table.version, location |-> table.location])
           version == table.version + 1
<1>1. table = r0
  BY DEF TableTyped
<1>2. new = [table EXCEPT !.name = op.name, !.keys = op.keys, !.columns = op.columns, !.location = op.location,
                          !.previous = op.previous, !.version = version, !.archive = archive]
  BY DEF Revise
<1> HIDE DEF new, archive, version, r0
<1>3. new = [r0 EXCEPT !.name = op.name, !.keys = op.keys, !.columns = op.columns, !.location = op.location,
                       !.previous = op.previous, !.version = version, !.archive = archive]
  BY <1>1, <1>2
<1>4. new = [database |-> table.database, name |-> op.name, keys |-> op.keys, columns |-> op.columns,
             location |-> op.location, previous |-> op.previous, version |-> version, archive |-> archive,
             created |-> table.created]
  BY <1>3, RevisedFields DEF r0
<1>5. /\ new.columns = op.columns /\ new.location = op.location /\ new.previous = op.previous
      /\ new.version = version /\ new.created = table.created /\ new.archive = archive
  BY <1>4
<1> QED BY <1>5 DEF new, archive, version

LEMMA NewTableParts ==
  ASSUME NEW database, NEW op, NEW now
  PROVE  LET new == NewTable(database, op, now)
         IN /\ new.columns = op.columns /\ new.location = op.location /\ new.previous = op.previous
            /\ new.version = 0 /\ new.created = now /\ new.archive = << >>
BY DEF NewTable

LEMMA CommittedTables ==
  ASSUME NEW s, StoreGood(s)
  PROVE  Committed(s).tables = s.tables /\ Committed(s).revision = s.revision + 1
<1> DEFINE r0 == [databases |-> s.databases, tables |-> s.tables, partitions |-> s.partitions, facts |-> s.facts,
                  health |-> s.health, running |-> s.running, revision |-> s.revision]
           revision == s.revision + 1
           u == Committed(s)
<1>1. s = r0 /\ u = [s EXCEPT !.revision = revision]
  BY DEF StoreGood, StoreTyped, RowsTyped, StoreShape, Committed
<1> HIDE DEF u, revision
<1>2. u = [databases |-> s.databases, tables |-> s.tables, partitions |-> s.partitions, facts |-> s.facts,
           health |-> s.health, running |-> s.running, revision |-> revision]
  BY <1>1
<1>3. u.tables = s.tables /\ u.revision = revision
  BY <1>2
<1> QED BY <1>3 DEF u, revision

\* A table was made at the revision of its `created`, and no two at one revision.
LEMMA CreatedOnceStays ==
  ASSUME NEW s, StoreGood(s), CreatedOnce(s), NEW u, NEW op, TablesFollow(s, u, op), NEW v,
         v.tables = u.tables, v.revision = u.revision + 1
  PROVE  CreatedOnce(v)
<1>1. /\ s.revision \in Nat /\ u.revision = s.revision
      /\ \A t \in DOMAIN s.tables : s.tables[t].created \in Nat /\ s.tables[t].created < s.revision
      /\ \A t, x \in DOMAIN s.tables : s.tables[t].created = s.tables[x].created => t = x
  BY DEF CreatedOnce, TablesFollow
<1>2. \A t \in DOMAIN s.tables : TableTyped(s.tables[t])
  BY DEF StoreGood, StoreTyped, RowsTyped
<1>3. ASSUME NEW t \in DOMAIN u.tables
      PROVE  \/ t \in DOMAIN s.tables /\ u.tables[t].created = s.tables[t].created
             \/ t = NewRow(s.tables) /\ u.tables[t].created = s.revision
  <2>1. CASE t \in DOMAIN s.tables /\ u.tables[t] = s.tables[t]
    BY <2>1
  <2>2. CASE t \in FindTable(s, op.database, op.old) /\ u.tables[t] = Revise(s.tables[t], op)
    <3>1. t \in DOMAIN s.tables
      BY <2>2 DEF FindTable
    <3>2. Revise(s.tables[t], op).created = s.tables[t].created
      BY <1>2, <3>1, RevisedParts
    <3> QED BY <2>2, <3>1, <3>2
  <2>3. CASE t = NewRow(s.tables) /\ \E d : u.tables[t] = NewTable(d, op, s.revision)
    <3>1. PICK d : u.tables[t] = NewTable(d, op, s.revision)
      BY <2>3
    <3>2. NewTable(d, op, s.revision).created = s.revision
      BY NewTableParts
    <3> QED BY <2>3, <3>1, <3>2
  <2> QED BY <2>1, <2>2, <2>3 DEF TablesFollow
<1> QED BY <1>1, <1>3 DEF CreatedOnce

\* A plan goes on to remember its table, whatever is committed.
LEMMA RemembersAfter ==
  ASSUME NEW s, StoreGood(s), CreatedOnce(s), NEW u, NEW op, TablesFollow(s, u, op), NEW v,
         v.tables = u.tables, v.revision = u.revision + 1, NEW p, Remembers(p, s)
  PROVE  Remembers(p, v)
<1>1. /\ s.revision \in Nat /\ u.revision = s.revision
      /\ p.base \in Nat /\ p.read.version \in Nat /\ p.read.created \in Nat /\ p.read.created < s.revision
  BY DEF CreatedOnce, TablesFollow, Remembers
<1>2. \A t \in DOMAIN s.tables : TableTyped(s.tables[t]) /\ s.tables[t].version \in Nat
  BY DEF StoreGood, StoreTyped, RowsTyped, TableTyped
<1>3. ASSUME NEW t \in DOMAIN u.tables, u.tables[t].created = p.read.created
      PROVE  /\ p.read.version <= u.tables[t].version
             /\ p.read.version = u.tables[t].version => p.base = u.tables[t].location
  <2>1. CASE t \in DOMAIN s.tables /\ u.tables[t] = s.tables[t]
    BY <1>3, <2>1 DEF Remembers
  <2>2. CASE t \in FindTable(s, op.database, op.old) /\ u.tables[t] = Revise(s.tables[t], op)
    <3>1. t \in DOMAIN s.tables
      BY <2>2 DEF FindTable
    <3>2. Revise(s.tables[t], op).created = s.tables[t].created
          /\ Revise(s.tables[t], op).version = s.tables[t].version + 1
      BY <1>2, <3>1, RevisedParts
    <3>3. p.read.version <= s.tables[t].version
      BY <1>3, <2>2, <3>1, <3>2 DEF Remembers
    <3> QED BY <1>1, <1>2, <2>2, <3>1, <3>2, <3>3
  <2>3. CASE t = NewRow(s.tables) /\ \E d : u.tables[t] = NewTable(d, op, s.revision)
    <3>1. PICK d : u.tables[t] = NewTable(d, op, s.revision)
      BY <2>3
    <3>2. NewTable(d, op, s.revision).created = s.revision
      BY NewTableParts
    <3> QED BY <1>1, <1>3, <3>1, <3>2
  <2> QED BY <2>1, <2>2, <2>3 DEF TablesFollow
<1>4. p.read.created < v.revision
  BY <1>1
<1> QED BY <1>1, <1>3, <1>4 DEF Remembers
LEMMA SetupMakesOnce ==
  ASSUME NEW ops, Len(ops) \in Nat,
         \A i \in 1 .. Len(ops) : IsCommand(ops[i]) /\ Refusal(StoresAfter(ops)[i - 1], ops[i]) = "ok"
  PROVE  CreatedOnce(StoresAfter(ops)[Len(ops)])
<1> DEFINE n == Len(ops)
           stores == StoresAfter(ops)
           Bad == {k \in 0 .. n : ~(StoreGood(stores[k]) /\ CreatedOnce(stores[k]))}
<1>1. stores = [i \in 0 .. n |-> IF i = 0 THEN Empty ELSE Committed(Effect(stores[i - 1], ops[i]))]
  BY StoresAreMade
<1>2. n \in Nat /\ \A i \in 1 .. n : IsCommand(ops[i]) /\ Refusal(stores[i - 1], ops[i]) = "ok"
  OBVIOUS
<1> HIDE DEF n, stores
<1>3. Bad = {}
  <2> SUFFICES ASSUME Bad # {} PROVE FALSE
    OBVIOUS
  <2>1. Bad \subseteq Nat
    BY <1>2
  <2>2. PICK k \in Bad : \A m \in Bad : k <= m
    <3> HIDE DEF Bad
    <3> QED BY <2>1, LeastNumber
  <2>3. k \in 0 .. n /\ ~(StoreGood(stores[k]) /\ CreatedOnce(stores[k]))
    OBVIOUS
  <2>4. CASE k = 0
    <3>1. stores[k] = Empty
      BY <1>1, <1>2, <2>4
    <3>2. CreatedOnce(Empty)
      BY DEF CreatedOnce, Empty
    <3> QED BY <2>3, <3>1, <3>2, EmptyIsInOrder
  <2>5. CASE k # 0
    <3>1. k - 1 \in 0 .. n /\ k \in 1 .. n /\ k - 1 \notin Bad
      BY <1>2, <2>2, <2>3, <2>5
    <3> DEFINE s == stores[k - 1]
               u == Effect(s, ops[k])
    <3>2. StoreGood(s) /\ CreatedOnce(s) /\ IsCommand(ops[k]) /\ Refusal(s, ops[k]) = "ok"
      BY <1>2, <3>1
    <3>3. stores[k] = Committed(u)
      BY <1>1, <2>3, <2>5
    <3> HIDE DEF s
    <3>4. StoreGood(u) /\ TablesFollow(s, u, ops[k])
      BY <3>2, EffectKeepsOrder, EffectOnTables
    <3> HIDE DEF u
    <3>5. Committed(u).tables = u.tables /\ Committed(u).revision = u.revision + 1 /\ StoreGood(Committed(u))
      BY <3>4, CommittedTables, CommittedKeepsOrder
    <3>6. CreatedOnce(Committed(u))
      BY <3>2, <3>4, <3>5, CreatedOnceStays
    <3> QED BY <2>3, <3>3, <3>5, <3>6
  <2> QED BY <2>4, <2>5
<1>4. n \in 0 .. n
  BY <1>2
<1> QED BY <1>3, <1>4 DEF n, stores

-----------------------------------------------------------------------------
(***************************************************************************)
(* The files, and what goes on to hold of a request and of a table         *)
(***************************************************************************)
\* gs differs from fs at one location at most
SameElsewhere(fs, gs, location) ==
  \A l : l # location => /\ l \in DOMAIN gs <=> l \in DOMAIN fs
                         /\ l \in DOMAIN fs => gs[l] = fs[l]

LEMMA FilePut ==
  ASSUME NEW fs, FilesGood(fs), NEW location, NEW doc, DocumentGood(doc)
  PROVE  LET gs == With(fs, location, doc)
         IN FilesGood(gs) /\ SameElsewhere(fs, gs, location) /\ location \in DOMAIN gs /\ gs[location] = doc
<1> DEFINE gs == With(fs, location, doc)
<1>1. DOMAIN gs = DOMAIN fs \cup {location} /\ \A l \in DOMAIN gs : gs[l] = IF l = location THEN doc ELSE fs[l]
  BY DEF With
<1> HIDE DEF gs
<1>2. FilesGood(gs)
  BY <1>1 DEF FilesGood
<1>3. SameElsewhere(fs, gs, location) /\ location \in DOMAIN gs /\ gs[location] = doc
  BY <1>1 DEF SameElsewhere
<1> QED BY <1>2, <1>3 DEF gs

LEMMA FileDeleted ==
  ASSUME NEW fs, FilesGood(fs), NEW location
  PROVE  LET gs == Without(fs, {location}) IN FilesGood(gs) /\ SameElsewhere(fs, gs, location)
<1> DEFINE gs == Without(fs, {location})
<1>1. DOMAIN gs = DOMAIN fs \ {location} /\ \A l \in DOMAIN gs : gs[l] = fs[l]
  BY DEF Without
<1> HIDE DEF gs
<1>2. FilesGood(gs)
  BY <1>1 DEF FilesGood
<1>3. SameElsewhere(fs, gs, location)
  BY <1>1 DEF SameElsewhere
<1> QED BY <1>2, <1>3 DEF gs

LEMMA WrittenStays ==
  ASSUME NEW p, NEW fs, Written(p, fs), NEW gs, NEW location, SameElsewhere(fs, gs, location), p.location # location
  PROVE  Written(p, gs)
BY DEF Written, SameElsewhere

LEMMA CandidateStays ==
  ASSUME NEW w, NEW p, NEW s, NEW last \in Nat, CandidatePlanned(w, p, s, last),
         NEW v, Remembers(p, s) => Remembers(p, v), NEW next \in Nat, last <= next
  PROVE  CandidatePlanned(w, p, v, next)
<1>1. p.location \in 1 .. next
  BY DEF CandidatePlanned
<1>2. ASSUME UpdatePlanned(OpOf(w), p, s) PROVE UpdatePlanned(OpOf(w), p, v)
  BY <1>2 DEF UpdatePlanned
<1> QED BY <1>1, <1>2 DEF CandidatePlanned

LEMMA PlanStays ==
  ASSUME NEW w, NEW p, NEW s, NEW fs, NEW last \in Nat, NEW requests, PlanGood(w, p, s, fs, last, requests),
         NEW v, Remembers(p, s) => Remembers(p, v),
         NEW gs, Written(p, fs) => Written(p, gs) \/ w.pc = "compensate",
         NEW next \in Nat, last <= next
  PROVE  PlanGood(w, p, v, gs, next, requests)
<1>1. CASE w.pc = "idle" /\ p.location = NoFile
  BY <1>1 DEF PlanGood
<1>2. CASE w.pc = "read" /\ ReadPlanned(w, p, s, requests)
  <2>1. ReadPlanned(w, p, v, requests)
    BY <1>2 DEF ReadPlanned, UpdatePlanned
  <2> QED BY <1>2, <2>1 DEF PlanGood
<1>3. CASE w.pc = "write" /\ CandidatePlanned(w, p, s, last)
  <2>1. CandidatePlanned(w, p, v, next)
    BY <1>3, CandidateStays
  <2> QED BY <1>3, <2>1 DEF PlanGood
<1>4. CASE w.pc \in {"begin", "commit"} /\ CandidatePlanned(w, p, s, last) /\ Written(p, fs)
  <2>1. CandidatePlanned(w, p, v, next)
    BY <1>4, CandidateStays
  <2> QED BY <1>4, <2>1 DEF PlanGood
<1>5. CASE w.pc \in {"ended", "compensate"} /\ w.kind = "publish" /\ p.location \in 1 .. last
  <2>1. p.location \in 1 .. next
    BY <1>5
  <2> QED BY <1>5, <2>1 DEF PlanGood
<1>6. CASE w.pc \in {"begin", "commit", "ended"} /\ PlainCommands(w) /\ p.location = NoFile
  BY <1>6 DEF PlanGood
<1> QED BY <1>1, <1>2, <1>3, <1>4, <1>5, <1>6 DEF PlanGood

LEMMA BackedStays ==
  ASSUME NEW table, NEW fs, NEW lost, NEW mixed, Backed(table, fs, lost, mixed),
         NEW gs, NEW lost2, lost \subseteq lost2, NEW mixed2, mixed \subseteq mixed2,
         NEW location, SameElsewhere(fs, gs, location), table.location = location => location \in {NoFile} \cup lost2
  PROVE  Backed(table, gs, lost2, mixed2)
<1> SUFFICES ASSUME table.location \notin {NoFile} \cup lost2
             PROVE  Backed(table, gs, lost2, mixed2)
  BY DEF Backed
<1>1. table.location # location /\ table.location \notin {NoFile} \cup lost
  OBVIOUS
<1>2. table.location \in DOMAIN fs
  BY <1>1 DEF Backed
<1>3. table.location \in DOMAIN gs /\ gs[table.location] = fs[table.location]
  BY <1>1, <1>2 DEF SameElsewhere
<1> QED BY <1>1, <1>2, <1>3 DEF Backed
-----------------------------------------------------------------------------
(***************************************************************************)
(* A step of one request that leaves the committed tables alone            *)
(***************************************************************************)
\* A request keeps the location of its plan, gives it up, or takes a new one; it may change the file
\* there, and may leave a late write behind, as long as it has not published it.
MayChangeFile(c) == plan[c].location \in 1 .. lastLocation /\ ~Published(work[c])
LeftBehind(c) == [location |-> plan[c].location, doc |-> plan[c].doc]

PlaceOfPlan(c, w, p) ==
  \/ /\ lastLocation' = lastLocation /\ p.location \in {NoFile, plan[c].location}
     /\ Published(work[c]) => p.location = NoFile \/ Published(w)
     /\ work[c].pc = "compensate" => p.location = NoFile \/ w.pc = "compensate"
  \/ lastLocation' = lastLocation + 1 /\ p.location = lastLocation + 1

FilesStep(c, w, p) ==
  /\ FilesGood(files') /\ SameElsewhere(files, files', plan[c].location) /\ (files' = files \/ MayChangeFile(c))
  /\ \/ late' = late
     \/ /\ late' = late \cup {LeftBehind(c)} /\ MayChangeFile(c) /\ DocumentGood(plan[c].doc)
        /\ w.pc = "compensate" /\ p.location = plan[c].location

LockStep(c, w) ==
  \/ writer' = NoWriter
  \/ writer' = c /\ DraftFits(draft', store, w)
  \/ writer' = writer /\ writer # c /\ draft' = draft

LEMMA RequestStep ==
  ASSUME CatalogInOrder, PublicationInOrder, NEW c \in Clients, NEW w, NEW p,
         work' = [work EXCEPT ![c] = w], plan' = [plan EXCEPT ![c] = p],
         catalogSession' = catalogSession, store' = store, disowned' = disowned, mistaken' = mistaken,
         PlaceOfPlan(c, w, p), FilesStep(c, w, p), LockStep(c, w),
         PlanGood(w, p, store, files', lastLocation', Scenario.requests)
  PROVE  PublicationInOrder'
<1>1. /\ work'[c] = w /\ \A x \in Clients \ {c} : work'[x] = work[x]
      /\ plan'[c] = p /\ \A x \in Clients \ {c} : plan'[x] = plan[x]
      /\ plan' = [x \in Clients |-> plan'[x]]
  <2>1. work = [x \in Clients |-> work[x]] /\ plan = [x \in Clients |-> plan[x]]
    BY DEF CatalogInOrder, WorkInOrder, PublicationInOrder, PlansInOrder
  <2> QED BY <2>1
<1>2. /\ CreatedOnce(store) /\ DraftInOrder /\ FilesGood(files) /\ TablesBacked(store.tables, files, disowned, mistaken)
      /\ \A x \in Clients : PlanGood(work[x], plan[x], store, files, lastLocation, Scenario.requests)
      /\ lastLocation \in Nat
      /\ \A t \in DOMAIN store.tables : store.tables[t].location \in {NoFile} \cup 1 .. lastLocation
      /\ \A x, y \in Clients : plan[x].location = plan[y].location => plan[x].location = NoFile \/ x = y
      /\ \A x \in Clients : Owns(work[x], plan[x], store.tables, disowned)
      /\ \A write \in late : LateGood(write, store.tables, lastLocation, disowned)
      /\ \A write \in late, x \in Clients : plan[x].location = write.location => work[x].pc = "compensate"
  BY DEF PublicationInOrder, PlansInOrder, LocationsInOrder
<1>3. NoFile \notin Nat
  BY FormatAssumption
<1>4. lastLocation' \in Nat /\ lastLocation <= lastLocation' /\ Scenario' = Scenario
  BY <1>2 DEF PlaceOfPlan, Scenario
<1>5. \A x \in Clients : plan[x].location \in {NoFile} \cup 1 .. lastLocation
  BY <1>2 DEF PlanGood, ReadPlanned, CandidatePlanned
<1>6. DraftInOrder'
  <2>1. writer # NoWriter => writer \in Clients
    BY DEF CatalogInOrder, LockInOrder
  <2>2. CASE writer' = NoWriter
    BY <2>2 DEF DraftInOrder
  <2>3. CASE writer' = c /\ DraftFits(draft', store, w)
    BY <1>1, <2>3 DEF DraftInOrder
  <2>4. CASE writer' = writer /\ writer # c /\ draft' = draft
    BY <1>1, <1>2, <2>1, <2>4 DEF DraftInOrder
  <2> QED BY <2>2, <2>3, <2>4 DEF LockStep
<1>7. PlansInOrder'
  <2>1. ASSUME NEW x \in Clients \ {c}
        PROVE  PlanGood(work[x], plan[x], store, files', lastLocation', Scenario.requests)
    <3>1. Written(plan[x], files) => Written(plan[x], files')
      <4>1. CASE files' = files
        BY <4>1
      <4>2. CASE MayChangeFile(c)
        <5>1. plan[x].location # plan[c].location
          BY <1>2, <1>3, <4>2 DEF MayChangeFile
        <5> QED BY <5>1, WrittenStays DEF FilesStep
      <4> QED BY <4>1, <4>2 DEF FilesStep
    <3>2. PlanGood(work[x], plan[x], store, files, lastLocation, Scenario.requests)
      BY <1>2
    <3> HIDE DEF PublicationInOrder
    <3> QED BY <1>2, <1>4, <3>1, <3>2, PlanStays
  <2> QED BY <1>1, <1>4, <2>1 DEF PlansInOrder
<1>8. LocationsInOrder'
  <2>1. \A t \in DOMAIN store.tables : store.tables[t].location \in {NoFile} \cup 1 .. lastLocation'
    BY <1>2, <1>4
  <2>2. ASSUME NEW x \in Clients \ {c}, plan[x].location = p.location PROVE p.location = NoFile
    BY <1>2, <1>3, <1>5, <2>2 DEF PlaceOfPlan
  <2>3. Owns(w, p, store.tables, disowned)
    <3>1. CASE p.location = NoFile
      BY <3>1 DEF Owns
    <3>2. CASE lastLocation' = lastLocation + 1 /\ p.location = lastLocation + 1
      BY <1>2, <1>3, <3>2 DEF Owns
    <3>3. CASE p.location = plan[c].location /\ (Published(work[c]) => p.location = NoFile \/ Published(w))
      BY <1>2, <3>3 DEF Owns
    <3> QED BY <3>1, <3>2, <3>3 DEF PlaceOfPlan
  <2>4. \A write \in late' : LateGood(write, store.tables, lastLocation', disowned)
    <3>1. ASSUME NEW write \in late PROVE LateGood(write, store.tables, lastLocation', disowned)
      BY <1>2, <1>4, <3>1 DEF LateGood
    <3>2. ASSUME MayChangeFile(c), DocumentGood(plan[c].doc) PROVE LateGood(LeftBehind(c), store.tables, lastLocation', disowned)
      <4>1. LeftBehind(c).location = plan[c].location /\ LeftBehind(c).doc = plan[c].doc
        BY DEF LeftBehind
      <4>2. plan[c].location \in 1 .. lastLocation'
        BY <1>2, <1>4, <3>2 DEF MayChangeFile
      <4>3. \A t \in DOMAIN store.tables : store.tables[t].location = plan[c].location => plan[c].location \in disowned
        BY <1>2, <1>3, <3>2 DEF MayChangeFile, Owns
      <4> QED BY <3>2, <4>1, <4>2, <4>3 DEF LateGood
    <3> QED BY <3>1, <3>2 DEF FilesStep
  <2>5. ASSUME NEW write \in late', NEW x \in Clients, plan'[x].location = write.location
        PROVE  work'[x].pc = "compensate"
    <3>1. CASE write \in late
      <4>1. CASE x # c
        BY <1>1, <1>2, <2>5, <3>1, <4>1
      <4>2. CASE x = c
        <5>1. p.location = write.location /\ write.location \in 1 .. lastLocation
          BY <1>1, <1>2, <2>5, <3>1, <4>2 DEF LateGood
        <5>2. p.location # NoFile /\ p.location # lastLocation + 1
          BY <1>2, <1>3, <5>1
        <5>3. p.location = plan[c].location /\ work[c].pc = "compensate" /\ w.pc = "compensate"
          BY <1>2, <3>1, <5>1, <5>2 DEF PlaceOfPlan
        <5> QED BY <1>1, <4>2, <5>3
      <4> QED BY <4>1, <4>2
    <3>2. CASE write = LeftBehind(c) /\ MayChangeFile(c) /\ w.pc = "compensate" /\ p.location = plan[c].location
      <4>1. write.location = plan[c].location
        BY <3>2 DEF LeftBehind
      <4>2. x = c
        BY <1>1, <1>2, <1>3, <2>5, <3>2, <4>1 DEF MayChangeFile
      <4> QED BY <1>1, <3>2, <4>2
    <3> QED BY <2>5, <3>1, <3>2 DEF FilesStep
  <2>6. \A x, y \in Clients : plan'[x].location = plan'[y].location => plan'[x].location = NoFile \/ x = y
    BY <1>1, <1>2, <2>2
  <2>7. \A x \in Clients : Owns(work'[x], plan'[x], store.tables, disowned)
    BY <1>1, <1>2, <2>3
  <2> QED BY <1>4, <2>1, <2>4, <2>5, <2>6, <2>7 DEF LocationsInOrder
<1>9. TablesBacked(store.tables, files', disowned, mistaken)
  <2>1. CASE files' = files
    BY <1>2, <2>1
  <2>2. CASE MayChangeFile(c)
    <3>1. ASSUME NEW t \in DOMAIN store.tables PROVE Backed(store.tables[t], files', disowned, mistaken)
      <4>1. store.tables[t].location = plan[c].location => plan[c].location \in {NoFile} \cup disowned
        BY <1>2, <2>2 DEF MayChangeFile, Owns
      <4>2. Backed(store.tables[t], files, disowned, mistaken)
        BY <1>2 DEF TablesBacked
      <4> QED BY <4>1, <4>2, BackedStays DEF FilesStep
    <3> QED BY <3>1 DEF TablesBacked
  <2> QED BY <2>1, <2>2 DEF FilesStep
<1> QED BY <1>2, <1>6, <1>7, <1>8, <1>9 DEF PublicationInOrder, FilesStep
-----------------------------------------------------------------------------
(***************************************************************************)
(* Transactions and requests for plain commands                            *)
(***************************************************************************)
SameRequest(w, v) == v.kind = w.kind /\ v.ops = w.ops /\ v.index = w.index

LEMMA EndedParts ==
  ASSUME NEW w, WorkShape(w), NEW x
  PROVE  LET v == Ended(w, x) IN WorkShape(v) /\ v.pc = "ended" /\ v.outcome = x /\ SameRequest(w, v)
<1> DEFINE v == SetPc(w, "ended")
           u == SetOutcome(v, x)
<1>1. WorkShape(v) /\ v.pc = "ended" /\ v.kind = w.kind /\ v.ops = w.ops /\ v.index = w.index
  BY PcStays
<1>2. Ended(w, x) = u
  BY DEF Ended, SetPc, SetOutcome
<1> HIDE DEF v
<1>3. WorkShape(u) /\ u.pc = v.pc /\ u.kind = v.kind /\ u.ops = v.ops /\ u.index = v.index /\ u.outcome = x
  BY <1>1, OutcomeStays
<1> HIDE DEF u
<1> QED BY <1>1, <1>2, <1>3 DEF SameRequest

LEMMA WaitingParts ==
  ASSUME NEW w, WorkShape(w)
  PROVE  LET v == Waiting(w) IN WorkShape(v) /\ v.pc = "begin" /\ SameRequest(w, v)
<1> DEFINE a == SetPc(w, "begin")
           b == SetAttempts(a, 0)
           no == FALSE
           c == SetCancelled(b, no)
           d == SetOutcome(c, "none")
<1>1. Waiting(w) = d
  BY DEF Waiting, SetPc, SetAttempts, SetCancelled, SetOutcome
<1> HIDE DEF no
<1>2. WorkShape(a) /\ a.pc = "begin" /\ a.kind = w.kind /\ a.ops = w.ops /\ a.index = w.index
  BY PcStays
<1> HIDE DEF a
<1>3. WorkShape(b) /\ b.pc = a.pc /\ b.kind = a.kind /\ b.ops = a.ops /\ b.index = a.index
  BY <1>2, AttemptsStays
<1> HIDE DEF b
<1>4. WorkShape(c) /\ c.pc = b.pc /\ c.kind = b.kind /\ c.ops = b.ops /\ c.index = b.index
  BY <1>3, CancelledStays
<1> HIDE DEF c
<1>5. WorkShape(d) /\ d.pc = c.pc /\ d.kind = c.kind /\ d.ops = c.ops /\ d.index = c.index
  BY <1>4, OutcomeStays
<1> HIDE DEF d
<1> QED BY <1>1, <1>2, <1>3, <1>4, <1>5 DEF SameRequest

LEMMA SameRequestIsGood ==
  ASSUME NEW w, NEW v, SameRequest(w, v), NEW p, NEW s, NEW last
  PROVE  /\ OpOf(v) = OpOf(w)
         /\ CandidatePlanned(w, p, s, last) => CandidatePlanned(v, p, s, last)
         /\ PlainCommands(w) => PlainCommands(v)
<1>1. OpOf(v) = OpOf(w) /\ v.kind = w.kind /\ v.ops = w.ops
  BY DEF SameRequest, OpOf
<1>2. ASSUME CandidatePlanned(w, p, s, last) PROVE CandidatePlanned(v, p, s, last)
  BY <1>1, <1>2 DEF CandidatePlanned
<1>3. ASSUME PlainCommands(w) PROVE PlainCommands(v)
  BY <1>1, <1>3 DEF PlainCommands
<1> QED BY <1>1, <1>2, <1>3

\* A transaction goes on, or ends, for the same request.
LEMMA TransactionIsGood ==
  ASSUME NEW w, NEW v, SameRequest(w, v), w.pc \in {"begin", "commit"}, v.pc \in {"begin", "commit", "ended"},
         NEW p, NEW s, NEW fs, NEW last, NEW requests, PlanGood(w, p, s, fs, last, requests)
  PROVE  PlanGood(v, p, s, fs, last, requests)
<1>1. CASE CandidatePlanned(w, p, s, last) /\ Written(p, fs)
  <2>1. CandidatePlanned(v, p, s, last)
    BY <1>1, SameRequestIsGood
  <2>2. v.kind = "publish" /\ p.location \in 1 .. last
    BY <2>1 DEF CandidatePlanned
  <2> QED BY <1>1, <2>1, <2>2 DEF PlanGood
<1>2. CASE PlainCommands(w) /\ p.location = NoFile
  <2>1. PlainCommands(v)
    BY <1>2, SameRequestIsGood
  <2> QED BY <1>2, <2>1 DEF PlanGood
<1> QED BY <1>1, <1>2 DEF PlanGood

\* what the invariant says of one request
LEMMA RequestIsGood ==
  ASSUME CatalogInOrder, PublicationInOrder, NEW c \in Clients
  PROVE  /\ WorkShape(work[c]) /\ (writer = c <=> work[c].pc = "commit")
         /\ PlanGood(work[c], plan[c], store, files, lastLocation, Scenario.requests)
         /\ plan = [plan EXCEPT ![c] = plan[c]]
         /\ (writer = c => DraftFits(draft, store, work[c])) /\ FilesGood(files) /\ lastLocation \in Nat
<1>1. plan = [x \in Clients |-> plan[x]]
  BY DEF PublicationInOrder, PlansInOrder
<1>2. plan = [plan EXCEPT ![c] = plan[c]]
  BY <1>1
<1>3. WorkShape(work[c]) /\ (writer = c <=> work[c].pc = "commit") /\ c # NoWriter
  BY RequestInOrder
<1> QED BY <1>2, <1>3 DEF PublicationInOrder, PlansInOrder, DraftInOrder, LocationsInOrder

LEMMA RequestMoves ==
  ASSUME CatalogInOrder, PublicationInOrder, NEW c \in Clients, NEW w,
         work' = [work EXCEPT ![c] = w], UNCHANGED formatVars, catalogSession' = catalogSession, store' = store,
         work[c].pc \in {"idle", "begin", "commit"} \/ plan[c].location = NoFile, LockStep(c, w),
         PlanGood(w, plan[c], store, files, lastLocation, Scenario.requests)
  PROVE  PublicationInOrder'
<1>1. /\ files' = files /\ plan' = plan /\ late' = late /\ lastLocation' = lastLocation
      /\ disowned' = disowned /\ mistaken' = mistaken
  BY DEF formatVars
<1>2. plan' = [plan EXCEPT ![c] = plan[c]] /\ FilesGood(files)
  BY <1>1, RequestIsGood
<1>3. PlaceOfPlan(c, w, plan[c])
  BY <1>1 DEF PlaceOfPlan, Published
<1>4. FilesStep(c, w, plan[c])
  BY <1>1, <1>2 DEF FilesStep, SameElsewhere
<1>5. PlanGood(w, plan[c], store, files', lastLocation', Scenario.requests)
  BY <1>1
<1> QED BY <1>1, <1>2, <1>3, <1>4, <1>5, RequestStep

LEMMA BeginIsGood ==
  ASSUME CatalogInOrder, PublicationInOrder, NEW c \in Clients, Begin(c), UNCHANGED formatVars
  PROVE  PublicationInOrder'
<1> DEFINE w == work[c]
           refusal == Refusal(store, Op(c))
           s == SetPc(w, "commit")
           e == Ended(w, refusal)
<1>1. /\ WorkShape(w) /\ w.pc = "begin" /\ writer = NoWriter /\ writer # c
      /\ PlanGood(w, plan[c], store, files, lastLocation, Scenario.requests)
      /\ catalogSession' = catalogSession /\ store' = store
  BY RequestIsGood DEF Begin, At
<1>2. CASE refusal = "ok"
  <2>1. writer' = c /\ draft' = Effect(store, Op(c)) /\ work' = [work EXCEPT ![c] = s]
    BY <1>2 DEF Begin, SetPc
  <2>2. SameRequest(w, s) /\ s.pc = "commit"
    BY <1>1, PcStays DEF SameRequest
  <2> HIDE DEF s
  <2>3. PlanGood(s, plan[c], store, files, lastLocation, Scenario.requests)
    BY <1>1, <2>2, TransactionIsGood
  <2>4. OpOf(s) = Op(c)
    BY <2>2 DEF SameRequest, OpOf, Op
  <2>5. LockStep(c, s)
    BY <1>2, <2>1, <2>4 DEF LockStep, DraftFits
  <2> QED BY <1>1, <2>1, <2>3, <2>5, RequestMoves
<1>3. CASE refusal # "ok"
  <2>1. writer' = writer /\ draft' = draft /\ work' = [work EXCEPT ![c] = e]
    BY <1>3 DEF Begin
  <2>2. SameRequest(w, e) /\ e.pc = "ended"
    BY <1>1, EndedParts
  <2> HIDE DEF e
  <2>3. PlanGood(e, plan[c], store, files, lastLocation, Scenario.requests)
    BY <1>1, <2>2, TransactionIsGood
  <2>4. LockStep(c, e)
    BY <1>1, <2>1 DEF LockStep
  <2> QED BY <1>1, <2>1, <2>3, <2>4, RequestMoves
<1> QED BY <1>2, <1>3

LEMMA BusyIsGood ==
  ASSUME CatalogInOrder, PublicationInOrder, NEW c \in Clients, Busy(c), UNCHANGED formatVars
  PROVE  PublicationInOrder'
<1> DEFINE w == work[c]
           s == SetAttempts(w, w.attempts + 1)
           e == Ended(w, "busy")
<1>1. /\ WorkShape(w) /\ w.pc = "begin" /\ writer # c
      /\ PlanGood(w, plan[c], store, files, lastLocation, Scenario.requests)
      /\ catalogSession' = catalogSession /\ store' = store /\ writer' = writer /\ draft' = draft
  BY RequestIsGood DEF Busy, At
<1>2. work' = [work EXCEPT ![c] = s] \/ work' = [work EXCEPT ![c] = e]
  BY DEF Busy, SetAttempts
<1>3. SameRequest(w, s) /\ s.pc = "begin" /\ SameRequest(w, e) /\ e.pc = "ended"
  <2>1. SameRequest(w, s) /\ s.pc = "begin"
    BY <1>1, AttemptsStays DEF SameRequest
  <2>2. SameRequest(w, e) /\ e.pc = "ended"
    BY <1>1, EndedParts
  <2> QED BY <2>1, <2>2
<1> HIDE DEF s, e
<1>4. ASSUME NEW v, SameRequest(w, v), v.pc \in {"begin", "ended"}, work' = [work EXCEPT ![c] = v]
      PROVE  PublicationInOrder'
  <2>1. PlanGood(v, plan[c], store, files, lastLocation, Scenario.requests)
    BY <1>1, <1>4, TransactionIsGood
  <2>2. LockStep(c, v)
    BY <1>1 DEF LockStep
  <2> QED BY <1>1, <1>4, <2>1, <2>2, RequestMoves
<1> QED BY <1>2, <1>3, <1>4

LEMMA CommitFailsIsGood ==
  ASSUME CatalogInOrder, PublicationInOrder, NEW c \in Clients, CommitFails(c), UNCHANGED formatVars
  PROVE  PublicationInOrder'
<1> DEFINE w == work[c]
           e == Ended(w, "failed")
<1>1. /\ WorkShape(w) /\ w.pc = "commit" /\ writer' = NoWriter
      /\ PlanGood(w, plan[c], store, files, lastLocation, Scenario.requests)
      /\ catalogSession' = catalogSession /\ store' = store /\ work' = [work EXCEPT ![c] = e]
  BY RequestIsGood DEF CommitFails
<1>2. SameRequest(w, e) /\ e.pc = "ended"
  BY <1>1, EndedParts
<1> HIDE DEF e
<1>3. PlanGood(e, plan[c], store, files, lastLocation, Scenario.requests)
  BY <1>1, <1>2, TransactionIsGood
<1>4. LockStep(c, e)
  BY <1>1 DEF LockStep
<1> QED BY <1>1, <1>3, <1>4, RequestMoves

LEMMA CancelIsGood ==
  ASSUME CatalogInOrder, PublicationInOrder, NEW c \in Clients, CancelRequest(c), UNCHANGED formatVars
  PROVE  PublicationInOrder'
<1> DEFINE w == work[c]
           yes == TRUE
           s == SetCancelled(w, yes)
           e == Ended(w, "cancelled")
<1>1. /\ WorkShape(w) /\ (writer = c <=> w.pc = "commit")
      /\ PlanGood(w, plan[c], store, files, lastLocation, Scenario.requests)
      /\ (writer = c => DraftFits(draft, store, w))
      /\ catalogSession' = catalogSession /\ store' = store
  BY RequestIsGood DEF CancelRequest
<1>2. \/ w.pc = "begin" /\ work' = [work EXCEPT ![c] = e] /\ writer' = writer /\ draft' = draft
      \/ writer = c /\ work' = [work EXCEPT ![c] = s] /\ writer' = writer /\ draft' = draft
      \/ writer = c /\ work' = [work EXCEPT ![c] = e] /\ writer' = NoWriter
  BY DEF CancelRequest, At, SetCancelled
<1> HIDE DEF yes
<1>3. SameRequest(w, s) /\ s.pc = w.pc
  BY <1>1, CancelledStays DEF SameRequest
<1>4. SameRequest(w, e) /\ e.pc = "ended"
  BY <1>1, EndedParts
<1> HIDE DEF s, e
<1>5. ASSUME NEW v, SameRequest(w, v), w.pc \in {"begin", "commit"}, v.pc \in {"begin", "commit", "ended"},
             work' = [work EXCEPT ![c] = v], LockStep(c, v)
      PROVE  PublicationInOrder'
  <2>1. PlanGood(v, plan[c], store, files, lastLocation, Scenario.requests)
    BY <1>1, <1>5, TransactionIsGood
  <2> QED BY <1>1, <1>5, <2>1, RequestMoves
<1>6. CASE w.pc = "begin" /\ work' = [work EXCEPT ![c] = e] /\ writer' = writer /\ draft' = draft
  <2>1. LockStep(c, e)
    BY <1>1, <1>6 DEF LockStep
  <2> QED BY <1>4, <1>5, <1>6, <2>1
<1>7. CASE writer = c /\ work' = [work EXCEPT ![c] = s] /\ writer' = writer /\ draft' = draft
  <2>1. OpOf(s) = OpOf(w)
    BY <1>3 DEF SameRequest, OpOf
  <2>2. LockStep(c, s)
    BY <1>1, <1>7, <2>1 DEF LockStep, DraftFits
  <2> QED BY <1>1, <1>3, <1>5, <1>7, <2>2
<1>8. CASE writer = c /\ work' = [work EXCEPT ![c] = e] /\ writer' = NoWriter
  <2>1. LockStep(c, e)
    BY <1>8 DEF LockStep
  <2> QED BY <1>1, <1>4, <1>5, <1>8, <2>1
<1> QED BY <1>2, <1>6, <1>7, <1>8
LEMMA NewWaitParts ==
  ASSUME NEW kind, NEW ops
  PROVE  LET w == Waiting([Idle EXCEPT !.kind = kind, !.ops = ops]) IN w.pc = "begin" /\ w.kind = kind /\ w.ops = ops
<1> DEFINE a == SetKind(Idle, kind)
           b == SetOps(a, ops)
<1>1. WorkShape(a) /\ a.kind = kind
  BY IdleIsTyped, KindStays
<1>2. [Idle EXCEPT !.kind = kind, !.ops = ops] = b
  BY DEF SetKind, SetOps
<1> HIDE DEF a
<1>3. WorkShape(b) /\ b.kind = kind /\ b.ops = ops
  BY <1>1, OpsStays
<1> HIDE DEF b
<1>4. Waiting(b).pc = "begin" /\ SameRequest(b, Waiting(b))
  BY <1>3, WaitingParts
<1> QED BY <1>2, <1>3, <1>4 DEF SameRequest

LEMMA SubmitIsGood ==
  ASSUME CatalogInOrder, PublicationInOrder, NEW c \in Clients, NEW request \in Scenario.requests,
         Submit(c, request), UNCHANGED formatVars
  PROVE  PublicationInOrder'
<1> DEFINE kind == request.kind
           ops == request.ops
           w == Waiting([Idle EXCEPT !.kind = kind, !.ops = ops])
<1>1. /\ work[c].pc = "idle" /\ writer # c /\ kind \in {"single", "batch"}
      /\ PlanGood(work[c], plan[c], store, files, lastLocation, Scenario.requests)
      /\ catalogSession' = catalogSession /\ store' = store /\ writer' = writer /\ draft' = draft
      /\ work' = [work EXCEPT ![c] = w]
  BY RequestIsGood DEF Submit, Accepts, At
<1>2. \A i \in 1 .. Len(ops) : ops[i].kind \in {"CreateTable", "UpdateTable"} => ops[i].location = NoFile
  BY <1>1, FormatAssumption DEF Scenario, CatalogInOrder
<1>3. plan[c].location = NoFile
  BY <1>1 DEF PlanGood
<1> HIDE DEF kind, ops
<1>4. w.pc = "begin" /\ w.kind = kind /\ w.ops = ops
  BY NewWaitParts
<1> HIDE DEF w
<1>5. PlainCommands(w)
  BY <1>1, <1>2, <1>4 DEF PlainCommands
<1>6. PlanGood(w, plan[c], store, files, lastLocation, Scenario.requests)
  BY <1>3, <1>4, <1>5 DEF PlanGood
<1>7. LockStep(c, w)
  BY <1>1 DEF LockStep
<1> QED BY <1>1, <1>6, <1>7, RequestMoves

LEMMA IdleIsGood ==
  ASSUME NEW p, p.location = NoFile, NEW s, NEW fs, NEW last, NEW requests
  PROVE  PlanGood(Idle, p, s, fs, last, requests)
BY IdleIsTyped DEF PlanGood

LEMMA ItemEndsIsGood ==
  ASSUME CatalogInOrder, PublicationInOrder, NEW c \in Clients, ItemEnds(c), UNCHANGED formatVars
  PROVE  PublicationInOrder'
<1> DEFINE w == work[c]
           collected == w.kind = "batch" /\ w.outcome \in DomainErrors
           failures == w.failures \cup IF collected THEN {w.index} ELSE {}
           v == SetFailures(SetIndex(w, w.index + 1), failures)
<1>1. /\ WorkShape(w) /\ w.pc = "ended" /\ w.kind # "publish" /\ writer # c
      /\ PlanGood(w, plan[c], store, files, lastLocation, Scenario.requests)
      /\ catalogSession' = catalogSession /\ store' = store /\ writer' = writer /\ draft' = draft
  BY RequestIsGood DEF ItemEnds, At
<1>2. PlainCommands(w) /\ plan[c].location = NoFile
  BY <1>1 DEF PlanGood
<1>3. \/ work' = [work EXCEPT ![c] = Waiting(v)]
      \/ work' = [work EXCEPT ![c] = Idle]
  <2>1. work' = [work EXCEPT ![c] =
          IF w.index < Len(w.ops) /\ (collected \/ w.outcome = "ok")
          THEN Waiting([w EXCEPT !.index = w.index + 1, !.failures = failures]) ELSE Idle]
    BY DEF ItemEnds
  <2>2. [w EXCEPT !.index = w.index + 1, !.failures = failures] = v
    BY DEF SetIndex, SetFailures
  <2> HIDE DEF v, failures, collected
  <2> QED BY <2>1, <2>2
<1>4. \A x : LockStep(c, x)
  BY <1>1 DEF LockStep
<1>5. CASE work' = [work EXCEPT ![c] = Waiting(v)]
  <2> DEFINE u == SetIndex(w, w.index + 1)
             z == Waiting(v)
  <2>1. WorkShape(u) /\ u.ops = w.ops /\ u.kind = w.kind
    BY <1>1, IndexStays
  <2> HIDE DEF u, failures
  <2>2. WorkShape(v) /\ v.ops = u.ops /\ v.kind = u.kind
    BY <2>1, FailuresStays DEF u
  <2> HIDE DEF v
  <2>3. z.pc = "begin" /\ z.ops = v.ops /\ z.kind = v.kind
    BY <2>2, WaitingParts DEF SameRequest
  <2>4. work' = [work EXCEPT ![c] = z]
    BY <1>5
  <2> HIDE DEF z
  <2>5. PlainCommands(z)
    BY <1>2, <2>1, <2>2, <2>3 DEF PlainCommands
  <2>6. PlanGood(z, plan[c], store, files, lastLocation, Scenario.requests)
    BY <1>2, <2>3, <2>5 DEF PlanGood
  <2> QED BY <1>1, <1>2, <1>4, <2>4, <2>6, RequestMoves
<1>6. CASE work' = [work EXCEPT ![c] = Idle]
  <2>1. PlanGood(Idle, plan[c], store, files, lastLocation, Scenario.requests)
    BY <1>2, IdleIsGood
  <2> QED BY <1>1, <1>2, <1>4, <1>6, <2>1, RequestMoves
<1> QED BY <1>3, <1>5, <1>6

\* What only the tables and the revision of the store decide.
LEMMA RunsKeepTables ==
  ASSUME NEW s, StoreGood(s), NEW new
  PROVE  LET u == [s EXCEPT !.running = new] IN u.tables = s.tables /\ u.revision = s.revision
<1> DEFINE r0 == [databases |-> s.databases, tables |-> s.tables, partitions |-> s.partitions, facts |-> s.facts,
                  health |-> s.health, running |-> s.running, revision |-> s.revision]
           u == [s EXCEPT !.running = new]
<1>1. s = r0
  BY DEF StoreGood, StoreTyped, RowsTyped, StoreShape
<1>2. [r0 EXCEPT !.running = new] =
        [databases |-> s.databases, tables |-> s.tables, partitions |-> s.partitions, facts |-> s.facts,
         health |-> s.health, running |-> new, revision |-> s.revision]
  OBVIOUS
<1> HIDE DEF r0
<1>3. u.tables = s.tables /\ u.revision = s.revision
  BY <1>1, <1>2
<1> QED BY <1>3

LEMMA OptimizerRunsIsGood ==
  ASSUME CatalogInOrder, PublicationInOrder, OptimizerRuns, UNCHANGED formatVars
  PROVE  PublicationInOrder'
<1>1. PICK new : store' = [store EXCEPT !.running = new]
  BY DEF OptimizerRuns
<1>2. store'.tables = store.tables /\ store'.revision = store.revision
  BY <1>1, RunsKeepTables DEF CatalogInOrder
<1>3. /\ catalogSession' = catalogSession /\ draft' = draft /\ writer = NoWriter /\ writer' = NoWriter /\ work' = work
      /\ files' = files /\ plan' = plan /\ late' = late /\ lastLocation' = lastLocation
      /\ disowned' = disowned /\ mistaken' = mistaken
  BY DEF OptimizerRuns, formatVars
<1>4. CreatedOnce(store')
  BY <1>2 DEF PublicationInOrder, CreatedOnce
<1>5. \A p : Remembers(p, store) => Remembers(p, store')
  BY <1>2 DEF Remembers
<1>6. PlansInOrder'
  <2>1. lastLocation \in Nat /\ Scenario' = Scenario /\ plan = [c \in Clients |-> plan[c]]
    BY <1>3 DEF PublicationInOrder, LocationsInOrder, PlansInOrder, Scenario
  <2>2. ASSUME NEW c \in Clients
        PROVE  PlanGood(work[c], plan[c], store', files, lastLocation, Scenario.requests)
    <3>1. PlanGood(work[c], plan[c], store, files, lastLocation, Scenario.requests)
      BY DEF PublicationInOrder, PlansInOrder
    <3>2. Remembers(plan[c], store) => Remembers(plan[c], store')
      BY <1>5
    <3>3. lastLocation <= lastLocation
      BY <2>1
    <3> QED BY <2>1, <3>1, <3>2, <3>3, PlanStays
  <2> QED BY <1>3, <2>1, <2>2 DEF PlansInOrder
<1>7. LocationsInOrder'
  BY <1>2, <1>3 DEF PublicationInOrder, LocationsInOrder, Owns, LateGood
<1>8. DraftInOrder'
  BY <1>3 DEF DraftInOrder
<1> QED BY <1>2, <1>3, <1>4, <1>6, <1>7, <1>8 DEF PublicationInOrder, FilesGood, TablesBacked
-----------------------------------------------------------------------------
(***************************************************************************)
(* Requests with an open table format                                      *)
(***************************************************************************)
LEMMA NewRequestParts ==
  ASSUME NEW pc, NEW op
  PROVE  LET w == [Idle EXCEPT !.pc = pc, !.kind = "publish", !.ops = <<op>>]
         IN w.pc = pc /\ w.kind = "publish" /\ OpOf(w) = op
<1> DEFINE a == SetPc(Idle, pc)
           b == SetKind(a, "publish")
           d == SetOps(b, <<op>>)
<1>1. WorkShape(a) /\ a.pc = pc /\ a.index = 1
  BY IdleIsTyped, PcStays
<1>2. [Idle EXCEPT !.pc = pc, !.kind = "publish", !.ops = <<op>>] = d
  BY DEF SetPc, SetKind, SetOps
<1> HIDE DEF a
<1>3. WorkShape(b) /\ b.pc = pc /\ b.kind = "publish" /\ b.index = 1
  BY <1>1, KindStays
<1> HIDE DEF b
<1>4. d.pc = pc /\ d.kind = "publish" /\ d.index = 1 /\ d.ops = <<op>>
  BY <1>3, OpsStays
<1>5. OpOf(d) = op
  <2>1. <<op>>[1] = op
    OBVIOUS
  <2> HIDE DEF d
  <2> QED BY <1>4, <2>1 DEF OpOf
<1>6. [Idle EXCEPT !.pc = pc, !.kind = "publish", !.ops = <<op>>].pc = pc
  <2> HIDE DEF d
  <2> QED BY <1>2, <1>4
<1>7. [Idle EXCEPT !.pc = pc, !.kind = "publish", !.ops = <<op>>].kind = "publish"
  <2> HIDE DEF d
  <2> QED BY <1>2, <1>4
<1>8. OpOf([Idle EXCEPT !.pc = pc, !.kind = "publish", !.ops = <<op>>]) = op
  BY <1>2, <1>5
<1> QED BY <1>6, <1>7, <1>8

LEMMA SubmitCreateIsGood ==
  ASSUME CatalogInOrder, PublicationInOrder, NEW c \in Clients, NEW request \in Scenario.requests,
         SubmitCreate(c, request)
  PROVE  PublicationInOrder'
<1> DEFINE doc == CreateDocument(request.input)
           columns == GlueColumns(CurrentSchema(doc))
           location == lastLocation + 1
           op == Definition(request, location, doc)
           w == [Idle EXCEPT !.pc = "write", !.kind = "publish", !.ops = <<op>>]
           p == [location |-> location, doc |-> doc, base |-> NoFile, read |-> NoPlan.read, request |-> request]
<1>1. /\ work[c].pc = "idle" /\ writer # c /\ request.kind = "create" /\ Accepted(doc)
      /\ lastLocation \in Nat /\ FilesGood(files)
      /\ catalogSession' = catalogSession /\ store' = store /\ writer' = writer /\ draft' = draft
      /\ files' = files /\ late' = late /\ disowned' = disowned /\ mistaken' = mistaken
      /\ lastLocation' = lastLocation + 1
      /\ work' = [work EXCEPT ![c] = w] /\ plan' = [plan EXCEPT ![c] = p]
  BY RequestIsGood DEF SubmitCreate, Candidate, Accepts, At
<1>2. IsSpec(request.input.spec)
  BY <1>1, FormatAssumption DEF Scenario, CatalogInOrder
<1>3. DocumentGood(doc)
  BY <1>1, <1>2, CreatedIsGood
<1>4. op.kind = "CreateTable" /\ op.location = location /\ op.previous = NoFile /\ op.columns = columns
  BY DEF Definition
<1>5. p.location = location /\ p.doc = doc
  OBVIOUS
<1>6. location \in 1 .. lastLocation' /\ location = lastLocation + 1
  BY <1>1
<1> HIDE DEF doc, op, p, columns
<1>7. w.pc = "write" /\ w.kind = "publish" /\ OpOf(w) = op
  BY NewRequestParts
<1> HIDE DEF w, location
<1>8. CandidatePlanned(w, p, store, lastLocation')
  BY <1>3, <1>4, <1>5, <1>6, <1>7 DEF CandidatePlanned, columns
<1>9. PlanGood(w, p, store, files', lastLocation', Scenario.requests)
  BY <1>7, <1>8 DEF PlanGood
<1>10. PlaceOfPlan(c, w, p)
  BY <1>1, <1>5, <1>6 DEF PlaceOfPlan
<1>11. FilesStep(c, w, p)
  BY <1>1 DEF FilesStep, SameElsewhere
<1>12. LockStep(c, w)
  BY <1>1 DEF LockStep
<1> QED BY <1>1, <1>9, <1>10, <1>11, <1>12, RequestStep

LEMMA SubmitUpdateIsGood ==
  ASSUME CatalogInOrder, PublicationInOrder, NEW c \in Clients, NEW request \in Scenario.requests,
         SubmitUpdate(c, request)
  PROVE  PublicationInOrder'
<1>1. /\ work[c].pc = "idle" /\ writer # c /\ request.kind = "update"
      /\ PlanGood(work[c], plan[c], store, files, lastLocation, Scenario.requests)
      /\ lastLocation \in Nat /\ FilesGood(files)
      /\ catalogSession' = catalogSession /\ store' = store /\ writer' = writer /\ draft' = draft
      /\ files' = files /\ late' = late /\ disowned' = disowned /\ mistaken' = mistaken
      /\ lastLocation' = lastLocation
  BY RequestIsGood DEF SubmitUpdate, Accepts, At
<1>2. PICK t \in FindTable(store, request.database, request.name) :
        /\ store.tables[t].location # NoFile
        /\ plan' = [plan EXCEPT ![c] = [NoPlan EXCEPT !.base = store.tables[t].location, !.request = request,
                             !.read = [created |-> store.tables[t].created, version |-> store.tables[t].version]]]
        /\ work' = [work EXCEPT ![c] = [Idle EXCEPT !.pc = "read", !.kind = "publish",
             !.ops = <<[kind |-> "UpdateTable", database |-> request.database, old |-> request.name,
                        name |-> request.name, keys |-> << >>, columns |-> store.tables[t].columns,
                        location |-> NoFile, previous |-> store.tables[t].location,
                        skipArchive |-> request.skipArchive,
                        version |-> IF request.version = AnyVersion THEN store.tables[t].version
                                    ELSE request.version]>>]]
  BY DEF SubmitUpdate
<1> DEFINE table == store.tables[t]
           expected == IF request.version = AnyVersion THEN table.version ELSE request.version
           op == [kind |-> "UpdateTable", database |-> request.database, old |-> request.name,
                  name |-> request.name, keys |-> << >>, columns |-> table.columns,
                  location |-> NoFile, previous |-> table.location, skipArchive |-> request.skipArchive,
                  version |-> expected]
           read == [created |-> table.created, version |-> table.version]
           w == [Idle EXCEPT !.pc = "read", !.kind = "publish", !.ops = <<op>>]
           p == [NoPlan EXCEPT !.base = table.location, !.request = request, !.read = read]
<1>3. work' = [work EXCEPT ![c] = w] /\ plan' = [plan EXCEPT ![c] = p]
  BY <1>2
<1>4. /\ op.kind = "UpdateTable" /\ op.previous = table.location /\ op.version = expected
      /\ {"kind", "columns", "location", "previous", "version"} \subseteq DOMAIN op
  OBVIOUS
<1>5. /\ p.location = NoFile /\ p.base = table.location /\ p.request = request
      /\ p.read.created = table.created /\ p.read.version = table.version
  <2>1. read.created = table.created /\ read.version = table.version
    OBVIOUS
  <2> HIDE DEF read
  <2>2. p.location = NoFile /\ p.base = table.location /\ p.request = request /\ p.read = read
    BY DEF NoPlan
  <2> QED BY <2>1, <2>2
<1> HIDE DEF op, p
<1>6. w.pc = "read" /\ w.kind = "publish" /\ OpOf(w) = op
  BY NewRequestParts
<1> HIDE DEF w
<1>7. t \in DOMAIN store.tables
  BY DEF FindTable
<1>8. table.location \in Nat /\ table.version \in Nat /\ table.created \in Nat /\ table.created < store.revision
  <2>1. table.location \in 1 .. lastLocation
    BY <1>2, <1>7 DEF PublicationInOrder, LocationsInOrder
  <2>2. table.version \in Nat
    BY <1>7 DEF CatalogInOrder, StoreGood, StoreTyped, RowsTyped, TableTyped
  <2> QED BY <1>1, <1>7, <2>1, <2>2 DEF PublicationInOrder, CreatedOnce
<1>9. ASSUME NEW x \in DOMAIN store.tables, store.tables[x].created = table.created PROVE store.tables[x] = table
  BY <1>7, <1>9 DEF PublicationInOrder, CreatedOnce
<1> HIDE DEF table
<1>10. Remembers(p, store)
  BY <1>5, <1>8, <1>9 DEF Remembers
<1>11. UpdatePlanned(op, p, store)
  BY <1>4, <1>5, <1>10 DEF UpdatePlanned
<1>12. PlanGood(w, p, store, files', lastLocation', Scenario.requests)
  BY <1>1, <1>4, <1>5, <1>6, <1>11 DEF PlanGood, ReadPlanned
<1>13. PlaceOfPlan(c, w, p)
  BY <1>1, <1>5 DEF PlaceOfPlan
<1>14. FilesStep(c, w, p)
  BY <1>1 DEF FilesStep, SameElsewhere
<1>15. LockStep(c, w)
  BY <1>1 DEF LockStep
<1> QED BY <1>1, <1>3, <1>12, <1>13, <1>14, <1>15, RequestStep

LEMMA NoPlanIsEmpty == NoPlan.location = NoFile
BY DEF NoPlan

\* Whoever gives up its plan leaves it to no one.
LEMMA GivesUp ==
  ASSUME CatalogInOrder, PublicationInOrder, NEW c \in Clients, writer # c, writer' = writer, draft' = draft,
         work' = [work EXCEPT ![c] = Idle], plan' = [plan EXCEPT ![c] = NoPlan],
         catalogSession' = catalogSession, store' = store, lastLocation' = lastLocation, late' = late,
         disowned' = disowned, mistaken' = mistaken,
         FilesGood(files'), SameElsewhere(files, files', plan[c].location), files' = files \/ MayChangeFile(c)
  PROVE  PublicationInOrder'
<1>1. PlaceOfPlan(c, Idle, NoPlan)
  BY NoPlanIsEmpty DEF PlaceOfPlan
<1>2. FilesStep(c, Idle, NoPlan)
  BY DEF FilesStep
<1>3. LockStep(c, Idle)
  BY DEF LockStep
<1>4. PlanGood(Idle, NoPlan, store, files', lastLocation', Scenario.requests)
  BY NoPlanIsEmpty, IdleIsGood
<1> QED BY <1>1, <1>2, <1>3, <1>4, RequestStep

LEMMA ReadFailsIsGood ==
  ASSUME CatalogInOrder, PublicationInOrder, NEW c \in Clients, ReadFails(c)
  PROVE  PublicationInOrder'
<1>1. /\ work[c].pc = "read" /\ writer # c /\ FilesGood(files)
      /\ catalogSession' = catalogSession /\ store' = store /\ writer' = writer /\ draft' = draft
      /\ files' = files /\ late' = late /\ disowned' = disowned /\ mistaken' = mistaken
      /\ lastLocation' = lastLocation
      /\ work' = [work EXCEPT ![c] = Idle] /\ plan' = [plan EXCEPT ![c] = NoPlan]
  BY RequestIsGood DEF ReadFails, At
<1>2. FilesGood(files') /\ SameElsewhere(files, files', plan[c].location)
  BY <1>1 DEF SameElsewhere
<1> QED BY <1>1, <1>2, GivesUp

LEMMA CompensateIsGood ==
  ASSUME CatalogInOrder, PublicationInOrder, NEW c \in Clients, Compensate(c)
  PROVE  PublicationInOrder'
<1>1. /\ work[c].pc = "compensate" /\ writer # c /\ FilesGood(files)
      /\ PlanGood(work[c], plan[c], store, files, lastLocation, Scenario.requests)
      /\ catalogSession' = catalogSession /\ store' = store /\ writer' = writer /\ draft' = draft
      /\ late' = late /\ disowned' = disowned /\ mistaken' = mistaken
      /\ lastLocation' = lastLocation
      /\ work' = [work EXCEPT ![c] = Idle] /\ plan' = [plan EXCEPT ![c] = NoPlan]
      /\ files' = Without(files, {plan[c].location}) \/ files' = files
  BY RequestIsGood DEF Compensate, At, DeleteFile
<1>2. MayChangeFile(c)
  BY <1>1 DEF PlanGood, MayChangeFile, Published
<1>3. FilesGood(files') /\ SameElsewhere(files, files', plan[c].location)
  <2>1. CASE files' = files
    BY <1>1, <2>1 DEF SameElsewhere
  <2>2. CASE files' = Without(files, {plan[c].location})
    BY <1>1, <2>2, FileDeleted
  <2> QED BY <1>1, <2>1, <2>2
<1> QED BY <1>1, <1>2, <1>3, GivesUp
\* a command that is given a location and the columns of its document
Planned(op, location, columns) == [[op EXCEPT !.location = location] EXCEPT !.columns = columns]

LEMMA PlannedParts ==
  ASSUME NEW op, {"kind", "columns", "location", "previous", "version"} \subseteq DOMAIN op, NEW location, NEW columns
  PROVE  LET new == Planned(op, location, columns)
         IN /\ new.location = location /\ new.columns = columns /\ new.kind = op.kind
            /\ new.previous = op.previous /\ new.version = op.version
<1> DEFINE a == [op EXCEPT !.location = location]
           b == [a EXCEPT !.columns = columns]
<1>1. /\ DOMAIN a = DOMAIN op /\ a.location = location /\ a.kind = op.kind
      /\ a.previous = op.previous /\ a.version = op.version
  OBVIOUS
<1> HIDE DEF a
<1>2. b.location = a.location /\ b.columns = columns /\ b.kind = a.kind /\ b.previous = a.previous /\ b.version = a.version
  BY <1>1
<1>3. Planned(op, location, columns) = b
  BY DEF Planned, a
<1> QED BY <1>1, <1>2, <1>3

WithCandidate(w, location, columns) ==
  [w EXCEPT !.pc = "write", !.ops[1].location = location, !.ops[1].columns = columns]

LEMMA PlannedRequest ==
  ASSUME NEW w, WorkShape(w), NEW op, w.ops = <<op>>, w.index = 1, NEW location, NEW columns
  PROVE  LET v == WithCandidate(w, location, columns)
         IN v.pc = "write" /\ v.kind = w.kind /\ OpOf(v) = Planned(op, location, columns)
<1> DEFINE a == SetPc(w, "write")
           b == SetOps(a, [a.ops EXCEPT ![1] = [a.ops[1] EXCEPT !.location = location]])
           v == SetOps(b, [b.ops EXCEPT ![1] = [b.ops[1] EXCEPT !.columns = columns]])
           located == [op EXCEPT !.location = location]
           planned == [located EXCEPT !.columns = columns]
<1>1. WithCandidate(w, location, columns) = v
  BY DEF WithCandidate, SetPc, SetOps
<1>2. planned = Planned(op, location, columns)
  BY DEF Planned
<1>3. WorkShape(a) /\ a.pc = "write" /\ a.ops = <<op>> /\ a.index = 1 /\ a.kind = w.kind
  BY PcStays
<1> HIDE DEF a
<1>4. [a.ops EXCEPT ![1] = [a.ops[1] EXCEPT !.location = location]] = <<located>>
  <2>1. a.ops[1] = op
    BY <1>3
  <2> HIDE DEF located
  <2>2. [<<op>> EXCEPT ![1] = located] = <<located>>
    OBVIOUS
  <2> QED BY <1>3, <2>1, <2>2 DEF located
<1>5. WorkShape(b) /\ b.pc = "write" /\ b.ops = <<located>> /\ b.index = 1 /\ b.kind = w.kind
  BY <1>3, <1>4, OpsStays
<1> HIDE DEF b, located
<1>6. [b.ops EXCEPT ![1] = [b.ops[1] EXCEPT !.columns = columns]] = <<planned>>
  <2>1. b.ops[1] = located
    BY <1>5
  <2> HIDE DEF planned
  <2>2. [<<located>> EXCEPT ![1] = planned] = <<planned>>
    OBVIOUS
  <2> QED BY <1>5, <2>1, <2>2 DEF planned
<1>7. v.pc = "write" /\ v.ops = <<planned>> /\ v.index = 1 /\ v.kind = w.kind
  BY <1>5, <1>6, OpsStays
<1> HIDE DEF planned
<1>8. OpOf(v) = planned
  <2>1. <<planned>>[1] = planned
    OBVIOUS
  <2> HIDE DEF v
  <2> QED BY <1>7, <2>1 DEF OpOf
<1> HIDE DEF v
<1>9. v.pc = "write" /\ v.kind = w.kind /\ OpOf(v) = Planned(op, location, columns)
  BY <1>2, <1>7, <1>8
<1> QED BY <1>1, <1>9

LEMMA ReadMetadataIsGood ==
  ASSUME CatalogInOrder, PublicationInOrder, NEW c \in Clients, ReadMetadata(c)
  PROVE  PublicationInOrder'
<1> DEFINE old == work[c]
           base == plan[c].base
           updates == plan[c].request.updates
           doc == UpdateDocument(files[base], base, updates)
           location == lastLocation + 1
           columns == GlueColumns(CurrentSchema(doc))
           w == WithCandidate(old, location, columns)
           p == [location |-> location, doc |-> doc, base |-> base, read |-> plan[c].read, request |-> plan[c].request]
<1>1. /\ old.pc = "read" /\ WorkShape(old) /\ writer # c /\ Accepted(doc) /\ base \in DOMAIN files
      /\ PlanGood(old, plan[c], store, files, lastLocation, Scenario.requests)
      /\ lastLocation \in Nat /\ FilesGood(files)
      /\ catalogSession' = catalogSession /\ store' = store /\ writer' = writer /\ draft' = draft
      /\ files' = files /\ late' = late /\ disowned' = disowned /\ mistaken' = mistaken
      /\ lastLocation' = lastLocation + 1 /\ plan' = [plan EXCEPT ![c] = p]
  BY RequestIsGood DEF ReadMetadata, Candidate, At
<1>2. work' = [work EXCEPT ![c] = w]
  BY DEF ReadMetadata, WithCandidate
<1>3. ReadPlanned(old, plan[c], store, Scenario.requests)
  BY <1>1 DEF PlanGood
<1>4. PICK op : old.ops = <<op>>
  BY <1>1, RequestInOrder DEF WorkTyped
<1>5. old.index = 1 /\ OpOf(old) = op
  <2>1. old.index \in 1 .. 1
    BY <1>1, <1>4, RequestInOrder DEF HasCommands
  <2>2. <<op>>[1] = op
    OBVIOUS
  <2> QED BY <1>4, <2>1, <2>2 DEF OpOf
<1>6. /\ p.location = location /\ p.doc = doc /\ p.base = base /\ p.read = plan[c].read
      /\ p.request = plan[c].request
  OBVIOUS
<1>7. DocumentGood(doc) /\ doc.log[Len(doc.log)] = base
  <2>1. Len(updates) \in Nat /\ \A i \in 1 .. Len(updates) : IsSpec(updates[i].spec)
    BY <1>3, FormatAssumption DEF ReadPlanned, Scenario, CatalogInOrder
  <2>2. base \in Nat
    BY <1>3 DEF ReadPlanned, UpdatePlanned, Remembers
  <2>3. DocumentGood(files[base])
    BY <1>1 DEF FilesGood
  <2> DEFINE before == files[base]
  <2>4. doc = UpdateDocument(before, base, updates) /\ Accepted(UpdateDocument(before, base, updates))
    BY <1>1
  <2>5. DocumentGood(before)
    BY <2>3
  <2> HIDE DEF before, base, updates, doc
  <2> QED BY <2>1, <2>2, <2>4, <2>5, UpdatedIsGood
<1>8. location \in 1 .. lastLocation' /\ location = lastLocation + 1
  BY <1>1
<1> HIDE DEF doc, p, columns, location
<1>9. w.pc = "write" /\ w.kind = old.kind /\ OpOf(w) = Planned(op, location, columns)
  BY <1>1, <1>4, <1>5, PlannedRequest
<1>10. /\ OpOf(w).location = location /\ OpOf(w).columns = columns /\ OpOf(w).kind = "UpdateTable"
       /\ OpOf(w).previous = op.previous /\ OpOf(w).version = op.version /\ w.kind = "publish"
  BY <1>3, <1>5, <1>9, PlannedParts DEF ReadPlanned
<1> HIDE DEF w
<1>11. UpdatePlanned(OpOf(w), p, store)
  BY <1>3, <1>5, <1>6, <1>10 DEF ReadPlanned, UpdatePlanned, Remembers
<1>12. CandidatePlanned(w, p, store, lastLocation')
  BY <1>6, <1>7, <1>8, <1>10, <1>11 DEF CandidatePlanned, columns
<1>13. PlanGood(w, p, store, files', lastLocation', Scenario.requests)
  BY <1>9, <1>12 DEF PlanGood
<1>14. PlaceOfPlan(c, w, p)
  BY <1>1, <1>6, <1>8 DEF PlaceOfPlan
<1>15. FilesStep(c, w, p)
  BY <1>1 DEF FilesStep, SameElsewhere
<1>16. LockStep(c, w)
  BY <1>1 DEF LockStep
<1> QED BY <1>1, <1>2, <1>13, <1>14, <1>15, <1>16, RequestStep
LEMMA WriteCandidateIsGood ==
  ASSUME CatalogInOrder, PublicationInOrder, NEW c \in Clients, WriteCandidate(c)
  PROVE  PublicationInOrder'
<1> DEFINE old == work[c]
           p == plan[c]
           w == Waiting(old)
<1>1. /\ old.pc = "write" /\ WorkShape(old) /\ writer # c
      /\ PlanGood(old, p, store, files, lastLocation, Scenario.requests)
      /\ FilesGood(files) /\ plan = [plan EXCEPT ![c] = p]
      /\ catalogSession' = catalogSession /\ store' = store /\ writer' = writer /\ draft' = draft
      /\ plan' = plan /\ late' = late /\ disowned' = disowned /\ mistaken' = mistaken
      /\ lastLocation' = lastLocation
      /\ work' = [work EXCEPT ![c] = w] /\ files' = With(files, p.location, p.doc)
  BY RequestIsGood DEF WriteCandidate, At, Put
<1> HIDE DEF p
<1>2. CandidatePlanned(old, p, store, lastLocation)
  BY <1>1 DEF PlanGood
<1>3. DocumentGood(p.doc) /\ p.location \in 1 .. lastLocation
  BY <1>2 DEF CandidatePlanned
<1>4. w.pc = "begin" /\ SameRequest(old, w)
  BY <1>1, WaitingParts
<1> HIDE DEF w
<1>5. CandidatePlanned(w, p, store, lastLocation)
  BY <1>2, <1>4, SameRequestIsGood
<1>6. /\ FilesGood(files') /\ SameElsewhere(files, files', p.location)
      /\ p.location \in DOMAIN files' /\ files'[p.location] = p.doc
  BY <1>1, <1>3, FilePut
<1>7. PlanGood(w, p, store, files', lastLocation', Scenario.requests)
  BY <1>1, <1>4, <1>5, <1>6 DEF PlanGood, Written
<1>8. PlaceOfPlan(c, w, p)
  BY <1>1 DEF PlaceOfPlan, Published, p
<1>9. FilesStep(c, w, p)
  BY <1>1, <1>3, <1>6 DEF FilesStep, MayChangeFile, Published, p
<1>10. LockStep(c, w)
  BY <1>1 DEF LockStep
<1>11. plan' = [plan EXCEPT ![c] = p]
  BY <1>1
<1> QED BY <1>1, <1>7, <1>8, <1>9, <1>10, <1>11, RequestStep

LEMMA WriteFailsIsGood ==
  ASSUME CatalogInOrder, PublicationInOrder, NEW c \in Clients, WriteFails(c)
  PROVE  PublicationInOrder'
<1> DEFINE old == work[c]
           p == plan[c]
           w == SetPc(old, "compensate")
<1>1. /\ old.pc = "write" /\ WorkShape(old) /\ writer # c
      /\ PlanGood(old, p, store, files, lastLocation, Scenario.requests)
      /\ FilesGood(files) /\ plan = [plan EXCEPT ![c] = p]
      /\ catalogSession' = catalogSession /\ store' = store /\ writer' = writer /\ draft' = draft
      /\ plan' = plan /\ disowned' = disowned /\ mistaken' = mistaken
      /\ lastLocation' = lastLocation
      /\ work' = [work EXCEPT ![c] = w]
  BY RequestIsGood DEF WriteFails, At, Step, SetPc
<1>2. \/ late' = late /\ (files' = With(files, p.location, p.doc) \/ files' = files)
      \/ late' = late \cup {LeftBehind(c)} /\ files' = files
  BY DEF WriteFails, Put, LeftBehind
<1> HIDE DEF p
<1>3. CandidatePlanned(old, p, store, lastLocation)
  BY <1>1 DEF PlanGood
<1>4. DocumentGood(p.doc) /\ p.location \in 1 .. lastLocation /\ old.kind = "publish"
  BY <1>3 DEF CandidatePlanned
<1>5. w.pc = "compensate" /\ w.kind = old.kind
  BY <1>1, PcStays
<1> HIDE DEF w
<1>6. FilesGood(files') /\ SameElsewhere(files, files', p.location)
  <2>1. CASE files' = files
    BY <1>1, <2>1 DEF SameElsewhere
  <2>2. CASE files' = With(files, p.location, p.doc)
    BY <1>1, <1>4, <2>2, FilePut
  <2> QED BY <1>2, <2>1, <2>2
<1>7. PlanGood(w, p, store, files', lastLocation', Scenario.requests)
  BY <1>1, <1>4, <1>5 DEF PlanGood
<1>8. PlaceOfPlan(c, w, p)
  BY <1>1 DEF PlaceOfPlan, Published, p
<1>9. FilesStep(c, w, p)
  BY <1>1, <1>2, <1>4, <1>5, <1>6 DEF FilesStep, MayChangeFile, Published, p
<1>10. LockStep(c, w)
  BY <1>1 DEF LockStep
<1>11. plan' = [plan EXCEPT ![c] = p]
  BY <1>1
<1> QED BY <1>1, <1>7, <1>8, <1>9, <1>10, <1>11, RequestStep

LEMMA PublicationEndsIsGood ==
  ASSUME CatalogInOrder, PublicationInOrder, NEW c \in Clients, PublicationEnds(c)
  PROVE  PublicationInOrder'
<1> DEFINE old == work[c]
           p == plan[c]
           w == SetPc(old, "compensate")
<1>1. /\ old.pc = "ended" /\ old.kind = "publish" /\ WorkShape(old) /\ writer # c
      /\ PlanGood(old, p, store, files, lastLocation, Scenario.requests)
      /\ FilesGood(files) /\ plan = [plan EXCEPT ![c] = p]
      /\ catalogSession' = catalogSession /\ store' = store /\ writer' = writer /\ draft' = draft
      /\ files' = files /\ late' = late /\ disowned' = disowned /\ mistaken' = mistaken
      /\ lastLocation' = lastLocation
  BY RequestIsGood DEF PublicationEnds, At, Publishing
<1>2. SameElsewhere(files, files', p.location) /\ FilesGood(files')
  BY <1>1 DEF SameElsewhere
<1>3. CASE old.outcome = "ok"
  <2>1. work' = [work EXCEPT ![c] = Idle] /\ plan' = [plan EXCEPT ![c] = NoPlan]
    BY <1>3 DEF PublicationEnds
  <2> QED BY <1>1, <1>2, <2>1, GivesUp
<1>4. CASE old.outcome # "ok"
  <2>1. work' = [work EXCEPT ![c] = w] /\ plan' = plan
    BY <1>4 DEF PublicationEnds, Step, SetPc
  <2>2. w.pc = "compensate" /\ w.kind = "publish"
    BY <1>1, PcStays
  <2>3. p.location \in 1 .. lastLocation
    BY <1>1, FormatAssumption DEF PlanGood, PlainCommands
  <2> HIDE DEF w
  <2>4. PlanGood(w, p, store, files', lastLocation', Scenario.requests)
    BY <1>1, <2>2, <2>3 DEF PlanGood
  <2>5. PlaceOfPlan(c, w, p)
    BY <1>1, <1>4 DEF PlaceOfPlan, Published
  <2>6. FilesStep(c, w, p)
    BY <1>1, <1>2 DEF FilesStep
  <2>7. LockStep(c, w)
    BY <1>1 DEF LockStep
  <2>8. plan' = [plan EXCEPT ![c] = p]
    BY <1>1, <2>1
  <2> HIDE DEF p
  <2> QED BY <1>1, <2>1, <2>4, <2>5, <2>6, <2>7, <2>8, RequestStep
<1> QED BY <1>3, <1>4

\* A write that lands late finds no table at its location, or one that has been disowned.
LEMMA LateWriteIsGood ==
  ASSUME CatalogInOrder, PublicationInOrder, LateWrite
  PROVE  PublicationInOrder'
<1>1. PICK write \in late : files' = With(files, write.location, write.doc) /\ late' = late \ {write}
  BY DEF LateWrite, Put
<1> DEFINE location == write.location
<1>2. /\ catalogSession' = catalogSession /\ store' = store /\ draft' = draft /\ writer' = writer /\ work' = work
      /\ plan' = plan /\ lastLocation' = lastLocation /\ disowned' = disowned /\ mistaken' = mistaken
  BY DEF LateWrite, catalogVars
<1>3. /\ location \in 1 .. lastLocation /\ DocumentGood(write.doc)
      /\ \A t \in DOMAIN store.tables : store.tables[t].location = location => location \in disowned
      /\ \A c \in Clients : plan[c].location = location => work[c].pc = "compensate"
      /\ FilesGood(files) /\ lastLocation \in Nat /\ TablesBacked(store.tables, files, disowned, mistaken)
  BY DEF PublicationInOrder, LocationsInOrder, LateGood
<1> HIDE DEF location
<1>4. FilesGood(files') /\ SameElsewhere(files, files', location)
  BY <1>1, <1>3, FilePut DEF location
<1>5. PlansInOrder'
  <2>1. ASSUME NEW c \in Clients
        PROVE  PlanGood(work[c], plan[c], store, files', lastLocation, Scenario.requests)
    <3>1. PlanGood(work[c], plan[c], store, files, lastLocation, Scenario.requests)
      BY DEF PublicationInOrder, PlansInOrder
    <3>2. Written(plan[c], files) => Written(plan[c], files') \/ work[c].pc = "compensate"
      BY <1>3, <1>4, WrittenStays
    <3>3. lastLocation <= lastLocation
      BY <1>3
    <3> QED BY <1>3, <3>1, <3>2, <3>3, PlanStays
  <2>2. Scenario' = Scenario /\ plan = [c \in Clients |-> plan[c]]
    BY <1>2 DEF PublicationInOrder, PlansInOrder, Scenario
  <2> QED BY <1>2, <2>1, <2>2 DEF PlansInOrder
<1>6. TablesBacked(store.tables, files', disowned, mistaken)
  <2>1. ASSUME NEW t \in DOMAIN store.tables PROVE Backed(store.tables[t], files', disowned, mistaken)
    <3>1. Backed(store.tables[t], files, disowned, mistaken)
      BY <1>3 DEF TablesBacked
    <3>2. store.tables[t].location = location => location \in {NoFile} \cup disowned
      BY <1>3
    <3> QED BY <1>4, <3>1, <3>2, BackedStays
  <2> QED BY <2>1 DEF TablesBacked
<1>7. LocationsInOrder'
  BY <1>1, <1>2 DEF PublicationInOrder, LocationsInOrder
<1>8. DraftInOrder' /\ CreatedOnce(store')
  BY <1>2 DEF PublicationInOrder, DraftInOrder
<1> QED BY <1>2, <1>4, <1>5, <1>6, <1>7, <1>8 DEF PublicationInOrder
-----------------------------------------------------------------------------
(***************************************************************************)
(* The commit                                                              *)
(***************************************************************************)
\* An expected version that was not mistaken is that of the table whose file the document follows.
LEMMA ExpectedIsRead ==
  ASSUME NEW s, StoreGood(s), NEW op, op.kind = "UpdateTable", Refusal(s, op) = "ok",
         NEW p, UpdatePlanned(op, p, s), NEW t \in FindTable(s, op.database, op.old),
         s.tables[t].created = p.read.created, p.request.version \in {AnyVersion, p.read.version}
  PROVE  s.tables[t].location = p.base
<1> DEFINE found == FindTable(s, op.database, op.old)
<1>1. UpdateTableRefusal(s, op) = "ok"
  BY DEF Refusal
<1>2. found # {} /\ op.version \in {AnyVersion, s.tables[Only(found)].version}
  BY <1>1 DEF UpdateTableRefusal
<1>3. Only(found) = t
  <2>1. UniqueNames(s)
    BY DEF StoreGood
  <2>2. \A v, u \in found : v = u
    BY <2>1, FoundIsOne
  <2>3. Only(found) \in found
    BY <1>2, OnlyIsFound
  <2> QED BY <2>2, <2>3
<1>4. op.version = p.read.version /\ p.read.version \in Nat
  BY DEF UpdatePlanned, Remembers
<1>5. s.tables[t].version = p.read.version
  BY <1>2, <1>3, <1>4 DEF AnyVersion
<1>6. t \in DOMAIN s.tables
  BY DEF FindTable
<1> QED BY <1>5, <1>6 DEF UpdatePlanned, Remembers

LEMMA LastOfAppended ==
  ASSUME NEW S, NEW a \in Seq(S), NEW x
  PROVE  Append(a, x)[Len(Append(a, x))] = x
<1>1. a \in Seq(S \cup {x}) /\ x \in S \cup {x}
  OBVIOUS
<1>2. Len(Append(a, x)) = Len(a) + 1 /\ Append(a, x)[Len(a) + 1] = x
  BY <1>1
<1> QED BY <1>2

LEMMA RevisedIsBacked ==
  ASSUME NEW table, TableTyped(table), NEW op, NEW p, NEW fs, NEW lost, NEW mixed,
         op.location = p.location, Written(p, fs), op.columns = GlueColumns(CurrentSchema(p.doc)),
         op.previous = p.base, p.doc.log[Len(p.doc.log)] = p.base,
         p.location \notin mixed => table.location = p.base
  PROVE  Backed(Revise(table, op), fs, lost, mixed)
<1> DEFINE new == Revise(table, op)
           entry == [version |-> table.version, location |-> table.location]
<1>1. /\ new.columns = op.columns /\ new.location = op.location /\ new.previous = op.previous
      /\ new.version = table.version + 1
      /\ new.archive = IF op.skipArchive THEN table.archive ELSE Append(table.archive, entry)
  BY RevisedParts
<1>2. entry.location = table.location
  OBVIOUS
<1>3. /\ table.version \in Nat
      /\ \A i \in DOMAIN table.archive : table.archive[i].version \in Nat /\ table.archive[i].version < table.version
      /\ \E S : table.archive \in Seq(S)
  BY DEF TableTyped
<1> HIDE DEF new, entry
<1>4. ASSUME new.archive # << >>, new.archive[Len(new.archive)].version = new.version - 1, new.location \notin mixed
      PROVE  new.archive[Len(new.archive)].location = new.previous
  <2>1. CASE new.archive = table.archive
    <3>1. PICK S : table.archive \in Seq(S)
      BY <1>3
    <3>2. Len(table.archive) \in DOMAIN table.archive
      BY <1>4, <2>1, <3>1
    <3>3. table.archive[Len(table.archive)].version \in Nat
          /\ table.archive[Len(table.archive)].version < table.version
      BY <1>3, <3>2
    <3>4. new.version - 1 = table.version
      BY <1>1, <1>3
    <3>5. table.archive[Len(table.archive)].version = table.version
      BY <1>4, <2>1, <3>4
    <3> QED BY <1>3, <3>3, <3>5
  <2>2. CASE new.archive = Append(table.archive, entry)
    <3>1. new.archive[Len(new.archive)] = entry
      BY <1>3, <2>2, LastOfAppended
    <3> QED BY <1>1, <1>2, <1>4, <3>1
  <2> QED BY <1>1, <2>1, <2>2
<1>5. Backed(new, fs, lost, mixed)
  BY <1>1, <1>4 DEF Backed, Written
<1> QED BY <1>5 DEF new

LEMMA NewIsBacked ==
  ASSUME NEW database, NEW op, NEW now, NEW p, NEW fs, NEW lost, NEW mixed,
         op.location = p.location, Written(p, fs), op.columns = GlueColumns(CurrentSchema(p.doc)), op.previous = NoFile
  PROVE  Backed(NewTable(database, op, now), fs, lost, mixed)
<1> DEFINE new == NewTable(database, op, now)
<1>1. /\ new.columns = op.columns /\ new.location = op.location /\ new.previous = op.previous /\ new.archive = << >>
  BY NewTableParts
<1> HIDE DEF new
<1>2. Backed(new, fs, lost, mixed)
  BY <1>1 DEF Backed, Written
<1> QED BY <1>2 DEF new

\* A table of the committed draft is an old one, or the one the request of the commit has written.
LEMMA CommittedIsBacked ==
  ASSUME CatalogInOrder, PublicationInOrder, NEW c \in Clients, writer = c,
         NEW lost, disowned \subseteq lost, NEW mixed, mistaken \subseteq mixed,
         Publishing(c) /\ Mistakes(c) => plan[c].location \in mixed,
         TablesFollow(store, draft, Op(c)), NEW t \in DOMAIN draft.tables
  PROVE  /\ Backed(draft.tables[t], files, lost, mixed)
         /\ \/ t \in DOMAIN store.tables /\ draft.tables[t] = store.tables[t]
            \/ draft.tables[t].location = plan[c].location
<1> DEFINE op == OpOf(work[c])
           p == plan[c]
           table == store.tables[t]
           new == draft.tables[t]
<1>1. /\ PlanGood(work[c], p, store, files, lastLocation, Scenario.requests)
      /\ work[c].pc = "commit" /\ DraftFits(draft, store, work[c])
  BY RequestIsGood
<1>2. Op(c) = op /\ Refusal(store, op) = "ok" /\ StoreGood(store)
  BY <1>1 DEF Op, OpOf, DraftFits, CatalogInOrder
<1>3. \/ CandidatePlanned(work[c], p, store, lastLocation) /\ Written(p, files)
      \/ PlainCommands(work[c]) /\ p.location = NoFile
  BY <1>1 DEF PlanGood
<1>4. op.kind \in {"CreateTable", "UpdateTable"} => op.location = p.location
  <2>1. CASE CandidatePlanned(work[c], p, store, lastLocation)
    BY <2>1 DEF CandidatePlanned
  <2>2. CASE PlainCommands(work[c]) /\ p.location = NoFile
    <3>1. work[c].index \in 1 .. Len(work[c].ops)
      BY <1>1, RequestInOrder DEF HasCommands
    <3> QED BY <2>2, <3>1 DEF PlainCommands, OpOf
  <2> QED BY <1>3, <2>1, <2>2
<1>5. CASE t \in DOMAIN store.tables /\ new = table
  <2>1. Backed(table, files, disowned, mistaken)
    BY <1>5 DEF PublicationInOrder, TablesBacked
  <2>2. SameElsewhere(files, files, NoFile) /\ (table.location = NoFile => NoFile \in {NoFile} \cup lost)
    BY DEF SameElsewhere
  <2> HIDE DEF table
  <2>3. Backed(table, files, lost, mixed)
    BY <2>1, <2>2, BackedStays
  <2> QED BY <1>5, <2>3 DEF table
<1>6. CASE op.kind = "UpdateTable" /\ t \in FindTable(store, op.database, op.old) /\ new = Revise(table, op)
  <2>1. TableTyped(table)
    <3>1. t \in DOMAIN store.tables
      BY <1>6 DEF FindTable
    <3>2. \A x \in DOMAIN store.tables : TableTyped(store.tables[x])
      BY <1>2 DEF StoreGood, StoreTyped, RowsTyped
    <3> QED BY <3>1, <3>2
  <2>2. new.location = op.location
    <3>1. Revise(table, op).location = op.location
      <4> HIDE DEF table, op
      <4> QED BY <2>1, RevisedParts
    <3> QED BY <1>6, <3>1
  <2>3. CASE CandidatePlanned(work[c], p, store, lastLocation) /\ Written(p, files)
    <3>1. UpdatePlanned(op, p, store) /\ Publishing(c) /\ p.doc.log[Len(p.doc.log)] = p.base
          /\ op.location = p.location /\ op.columns = GlueColumns(CurrentSchema(p.doc))
      BY <1>6, <2>3 DEF CandidatePlanned, Publishing
    <3>2. op.previous = p.base
      BY <3>1 DEF UpdatePlanned
    <3>3. ASSUME p.location \notin mixed PROVE table.location = p.base
      <4>1. ~Mistakes(c)
        BY <3>1, <3>3
      <4>2. table.created = p.read.created /\ p.request.version \in {AnyVersion, p.read.version}
        BY <1>2, <1>6, <4>1 DEF Mistakes
      <4> QED BY <1>2, <1>6, <3>1, <4>2, ExpectedIsRead
    <3> HIDE DEF p, op, table
    <3>4. Backed(Revise(table, op), files, lost, mixed)
      BY <2>1, <2>3, <3>1, <3>2, <3>3, RevisedIsBacked
    <3> QED BY <1>6, <2>2, <3>1, <3>4 DEF p
  <2>4. CASE PlainCommands(work[c]) /\ p.location = NoFile
    <3>1. new.location = NoFile
      BY <1>4, <1>6, <2>2, <2>4
    <3> QED BY <2>4, <3>1 DEF Backed
  <2> QED BY <1>3, <2>3, <2>4
<1>7. CASE op.kind = "CreateTable" /\ \E d : new = NewTable(d, op, store.revision)
  <2>1. PICK d : new = NewTable(d, op, store.revision)
    BY <1>7
  <2>2. new.location = op.location
    BY <2>1, NewTableParts
  <2>3. CASE CandidatePlanned(work[c], p, store, lastLocation) /\ Written(p, files)
    <3>1. op.previous = NoFile /\ op.location = p.location /\ op.columns = GlueColumns(CurrentSchema(p.doc))
      BY <1>7, <2>3 DEF CandidatePlanned
    <3> HIDE DEF p, op
    <3>2. Backed(NewTable(d, op, store.revision), files, lost, mixed)
      BY <2>3, <3>1, NewIsBacked
    <3> QED BY <2>1, <2>2, <3>1, <3>2 DEF p
  <2>4. CASE PlainCommands(work[c]) /\ p.location = NoFile
    <3>1. new.location = NoFile
      BY <1>4, <1>7, <2>2, <2>4
    <3> QED BY <2>4, <3>1 DEF Backed
  <2> QED BY <1>3, <2>3, <2>4
<1> QED BY <1>2, <1>5, <1>6, <1>7 DEF TablesFollow

\* The commit of a request, a publication or not, with what the history keeps of it.
CommitStep(c) ==
  /\ Commit(c) /\ files' = files /\ plan' = plan /\ late' = late /\ lastLocation' = lastLocation
  /\ disowned \subseteq disowned' /\ mistaken \subseteq mistaken'
  /\ Publishing(c) /\ work[c].cancelled => plan[c].location \in disowned'
  /\ Publishing(c) /\ Mistakes(c) => plan[c].location \in mistaken'

LEMMA CommitIsGood ==
  ASSUME CatalogInOrder, PublicationInOrder, NEW c \in Clients, CommitStep(c)
  PROVE  PublicationInOrder'
<1> DEFINE w == work[c]
           p == plan[c]
           op == Op(c)
           outcome == IF w.cancelled THEN "cancelled" ELSE "ok"
           e == Ended(w, outcome)
<1>1. /\ WorkShape(w) /\ w.pc = "commit" /\ writer = c /\ DraftFits(draft, store, w)
      /\ PlanGood(w, p, store, files, lastLocation, Scenario.requests)
      /\ FilesGood(files) /\ lastLocation \in Nat
      /\ catalogSession' = catalogSession /\ store' = Committed(draft) /\ writer' = NoWriter
      /\ work' = [work EXCEPT ![c] = e]
      /\ files' = files /\ plan' = plan /\ late' = late /\ lastLocation' = lastLocation
      /\ disowned \subseteq disowned' /\ mistaken \subseteq mistaken'
  BY RequestIsGood DEF CommitStep, Commit
<1>2. StoreGood(store) /\ StoreGood(draft) /\ IsCommand(op) /\ Refusal(store, op) = "ok" /\ draft = Effect(store, op)
  BY <1>1, RequestInOrder DEF DraftFits, OpOf, Op
<1>3. TablesFollow(store, draft, op)
  BY <1>2, EffectOnTables
<1>4. store'.tables = draft.tables /\ store'.revision = draft.revision + 1
  BY <1>1, <1>2, CommittedTables
<1>5. e.pc = "ended" /\ e.outcome = outcome /\ SameRequest(w, e)
  <2> HIDE DEF outcome
  <2> QED BY <1>1, EndedParts
<1> HIDE DEF e
<1>6. work'[c] = e /\ \A x \in Clients \ {c} : work'[x] = work[x]
  BY <1>1 DEF CatalogInOrder, WorkInOrder
<1>7. /\ \A x \in Clients : PlanGood(work[x], plan[x], store, files, lastLocation, Scenario.requests)
      /\ plan = [x \in Clients |-> plan[x]] /\ CreatedOnce(store)
      /\ \A t \in DOMAIN store.tables : store.tables[t].location \in {NoFile} \cup 1 .. lastLocation
      /\ \A x, y \in Clients : plan[x].location = plan[y].location => plan[x].location = NoFile \/ x = y
      /\ \A x \in Clients : Owns(work[x], plan[x], store.tables, disowned)
      /\ \A write \in late : LateGood(write, store.tables, lastLocation, disowned)
      /\ \A write \in late, x \in Clients : plan[x].location = write.location => work[x].pc = "compensate"
  BY DEF PublicationInOrder, PlansInOrder, LocationsInOrder
<1>8. ASSUME NEW t \in DOMAIN draft.tables
      PROVE  /\ Backed(draft.tables[t], files, disowned', mistaken')
             /\ \/ t \in DOMAIN store.tables /\ draft.tables[t] = store.tables[t]
                \/ draft.tables[t].location = p.location
  BY <1>1, <1>3, CommittedIsBacked DEF CommitStep
<1>9. CreatedOnce(store')
  BY <1>2, <1>3, <1>4, <1>7, CreatedOnceStays
<1>10. ASSUME NEW q, Remembers(q, store) PROVE Remembers(q, store')
  BY <1>2, <1>3, <1>4, <1>7, <1>10, RemembersAfter
<1>11. PlansInOrder'
  <2>1. Scenario' = Scenario /\ lastLocation <= lastLocation
    BY <1>1 DEF Scenario
  <2>2. ASSUME NEW v, NEW q, PlanGood(v, q, store, files, lastLocation, Scenario.requests)
        PROVE  PlanGood(v, q, store', files, lastLocation, Scenario.requests)
    <3>1. Remembers(q, store) => Remembers(q, store')
      BY <1>10
    <3> QED BY <1>1, <2>1, <2>2, <3>1, PlanStays
  <2>3. PlanGood(e, p, store, files, lastLocation, Scenario.requests)
    BY <1>1, <1>5, TransactionIsGood
  <2>4. ASSUME NEW x \in Clients
        PROVE  PlanGood(work'[x], plan[x], store', files, lastLocation, Scenario.requests)
    <3>1. CASE x = c
      BY <1>6, <2>2, <2>3, <3>1
    <3>2. CASE x # c
      BY <1>6, <1>7, <2>2, <3>2
    <3> QED BY <3>1, <3>2
  <2> QED BY <1>1, <1>7, <2>1, <2>4 DEF PlansInOrder
<1>12. p.location \in {NoFile} \cup 1 .. lastLocation
  BY <1>1 DEF PlanGood, CandidatePlanned
<1>13. w.kind = "publish" \/ p.location = NoFile
  BY <1>1 DEF PlanGood, CandidatePlanned
<1>14. LocationsInOrder'
  <2>1. \A t \in DOMAIN draft.tables : draft.tables[t].location \in {NoFile} \cup 1 .. lastLocation
    BY <1>7, <1>8, <1>12
  <2>2. ASSUME NEW x \in Clients PROVE Owns(work'[x], plan[x], draft.tables, disowned')
    <3>1. CASE x = c
      <4>1. p.location \in disowned' \cup {NoFile} \/ Published(e)
        BY <1>5, <1>13 DEF CommitStep, Publishing, Published
      <4> QED BY <1>6, <3>1, <4>1 DEF Owns
    <3>2. CASE x # c
      <4>1. Owns(work[x], plan[x], store.tables, disowned)
        BY <1>7
      <4>2. ASSUME NEW t \in DOMAIN draft.tables, draft.tables[t].location = plan[x].location
            PROVE  plan[x].location \in disowned' \cup {NoFile} \/ Published(work[x])
        <5>1. CASE t \in DOMAIN store.tables /\ draft.tables[t] = store.tables[t]
          BY <1>1, <4>1, <4>2, <5>1 DEF Owns
        <5>2. CASE draft.tables[t].location = p.location
          BY <1>7, <3>2, <4>2, <5>2
        <5> QED BY <1>8, <5>1, <5>2
      <4> QED BY <1>6, <3>2, <4>2 DEF Owns
    <3> QED BY <3>1, <3>2
  <2>3. ASSUME NEW write \in late PROVE LateGood(write, draft.tables, lastLocation, disowned')
    <3>1. LateGood(write, store.tables, lastLocation, disowned) /\ p.location # write.location
      BY <1>1, <1>7
    <3>2. ASSUME NEW t \in DOMAIN draft.tables, draft.tables[t].location = write.location
          PROVE  write.location \in disowned'
      BY <1>1, <1>8, <3>1, <3>2 DEF LateGood
    <3> QED BY <3>1, <3>2 DEF LateGood
  <2>4. \A write \in late, x \in Clients : plan[x].location = write.location => work'[x].pc = "compensate"
    BY <1>1, <1>6, <1>7
  <2> HIDE DEF p
  <2> QED BY <1>1, <1>4, <1>7, <2>1, <2>2, <2>3, <2>4 DEF LocationsInOrder
<1>15. TablesBacked(store'.tables, files, disowned', mistaken')
  BY <1>4, <1>8 DEF TablesBacked
<1>16. DraftInOrder'
  BY <1>1 DEF DraftInOrder
<1> QED BY <1>1, <1>9, <1>11, <1>14, <1>15, <1>16 DEF PublicationInOrder

\* The commit of a publication, and that of any other transaction
LEMMA PublishIsGood ==
  ASSUME CatalogInOrder, PublicationInOrder, NEW c \in Clients, Publish(c)
  PROVE  PublicationInOrder'
<1>1. CommitStep(c)
  BY DEF Publish, CommitStep
<1> QED BY <1>1, CommitIsGood

LEMMA PlainCommitIsGood ==
  ASSUME CatalogInOrder, PublicationInOrder, NEW c \in Clients, ~Publishing(c), Commit(c), UNCHANGED formatVars
  PROVE  PublicationInOrder'
<1>1. CommitStep(c)
  BY DEF formatVars, CommitStep
<1> QED BY <1>1, CommitIsGood

-----------------------------------------------------------------------------
\* A session starts with one file for each table that points to one.
LEMMA InitIsGood ==
  ASSUME FormatInit
  PROVE  PublicationInOrder
<1> DEFINE setup == Scenario.setup
           tables == store.tables
           all == {tables[t].location : t \in DOMAIN tables}
           pointed == all \ {NoFile}
<1>1. /\ catalogSession \in DOMAIN CatalogSessions /\ store = StoresAfter(setup)[Len(setup)] /\ writer = NoWriter
      /\ work = [c \in Clients |-> Idle] /\ plan = [c \in Clients |-> NoPlan] /\ late = {}
      /\ files = [l \in pointed |-> CreateDocument(Scenario.files[l])]
      /\ lastLocation = Cardinality(DOMAIN files)
  BY DEF FormatInit, CatalogInit
<1>2. /\ NoFile \notin Nat
      /\ pointed = 1 .. Cardinality(pointed)
      /\ \A t \in DOMAIN tables : tables[t].location # NoFile =>
           /\ IsSpec(Scenario.files[tables[t].location].spec)
           /\ Accepted(CreateDocument(Scenario.files[tables[t].location]))
           /\ tables[t].columns = GlueColumns(CurrentSchema(CreateDocument(Scenario.files[tables[t].location])))
           /\ tables[t].previous = NoFile
  <2> DEFINE session == CatalogSessions[catalogSession]
             its == StoresAfter(session.setup)[Len(session.setup)].tables
  <2>1. /\ {its[t].location : t \in DOMAIN its} \ {NoFile}
           = 1 .. Cardinality({its[t].location : t \in DOMAIN its} \ {NoFile})
        /\ \A t \in DOMAIN its : its[t].location # NoFile =>
             /\ IsSpec(session.files[its[t].location].spec)
             /\ Accepted(CreateDocument(session.files[its[t].location]))
             /\ its[t].columns = GlueColumns(CurrentSchema(CreateDocument(session.files[its[t].location])))
             /\ its[t].previous = NoFile
    BY <1>1, FormatAssumption
  <2>2. its = tables /\ session = Scenario
    BY <1>1 DEF Scenario
  <2>3. NoFile \notin Nat
    BY FormatAssumption
  <2>4. {its[t].location : t \in DOMAIN its} \ {NoFile} = pointed
    <3> HIDE DEF its, tables
    <3> QED BY <2>2
  <2>5. \A t \in DOMAIN tables : tables[t].location # NoFile =>
          /\ IsSpec(Scenario.files[tables[t].location].spec)
          /\ Accepted(CreateDocument(Scenario.files[tables[t].location]))
          /\ tables[t].columns = GlueColumns(CurrentSchema(CreateDocument(Scenario.files[tables[t].location])))
          /\ tables[t].previous = NoFile
    <3> HIDE DEF its, session, tables
    <3> QED BY <2>1, <2>2
  <2>6. pointed = 1 .. Cardinality(pointed)
    BY <2>1, <2>4
  <2> QED BY <2>3, <2>5, <2>6
<1>3. StoreGood(store)
  BY InitIsInOrder DEF CatalogInOrder
<1>4. CreatedOnce(store)
  <2>1. Len(setup) \in Nat
        /\ \A i \in 1 .. Len(setup) :
             IsCommand(setup[i]) /\ Refusal(StoresAfter(setup)[i - 1], setup[i]) = "ok"
    BY <1>1, CatalogAssumption DEF Scenario
  <2> HIDE DEF setup
  <2> QED BY <1>1, <2>1, SetupMakesOnce
<1> HIDE DEF setup
<1>5. IsFiniteSet(pointed)
  <2> DEFINE f == [t \in DOMAIN tables |-> tables[t].location]
  <2>1. f \in Surjection(DOMAIN tables, all)
    BY DEF Surjection
  <2>2. IsFiniteSet(DOMAIN tables)
    BY <1>3 DEF StoreGood, StoreTyped, RowsTyped
  <2> HIDE DEF f
  <2>3. IsFiniteSet(all)
    BY <2>1, <2>2, FS_Surjection
  <2> QED BY <2>3, FS_Subset
<1>6. DOMAIN files = pointed /\ lastLocation \in Nat /\ pointed = 1 .. lastLocation
  BY <1>1, <1>2, <1>5, FS_CardinalityType
<1>7. ASSUME NEW l \in pointed
      PROVE  /\ DocumentGood(files[l])
             /\ files[l] = CreateDocument(Scenario.files[l])
  <2>1. PICK t \in DOMAIN tables : tables[t].location = l /\ l # NoFile
    OBVIOUS
  <2>2. IsSpec(Scenario.files[l].spec) /\ Accepted(CreateDocument(Scenario.files[l]))
    BY <1>2, <2>1
  <2>3. files[l] = CreateDocument(Scenario.files[l])
    BY <1>1
  <2> DEFINE input == Scenario.files[l]
  <2> HIDE DEF input
  <2>4. DocumentGood(CreateDocument(input))
    BY <2>2, CreatedIsGood DEF input
  <2> QED BY <2>3, <2>4 DEF input
<1>8. FilesGood(files)
  BY <1>6, <1>7 DEF FilesGood
<1>9. ASSUME NEW t \in DOMAIN tables
      PROVE  Backed(tables[t], files, disowned, mistaken)
  <2>1. CASE tables[t].location = NoFile
    BY <2>1 DEF Backed
  <2>2. CASE tables[t].location # NoFile
    <3>1. tables[t].location \in pointed
      BY <2>2
    <3>2. /\ tables[t].columns = GlueColumns(CurrentSchema(files[tables[t].location]))
          /\ tables[t].previous = NoFile /\ tables[t].location \in DOMAIN files
      BY <1>2, <1>6, <1>7, <2>2, <3>1
    <3> HIDE DEF tables, pointed
    <3> QED BY <3>2 DEF Backed
  <2> QED BY <2>1, <2>2
<1>10. \A c \in Clients : work[c] = Idle /\ plan[c] = NoPlan /\ plan[c].location = NoFile
  BY <1>1, NoPlanIsEmpty
<1>11. PlansInOrder
  <2>1. ASSUME NEW c \in Clients PROVE PlanGood(work[c], plan[c], store, files, lastLocation, Scenario.requests)
    BY <1>10, IdleIsGood
  <2>2. plan = [c \in Clients |-> plan[c]]
    BY <1>1
  <2> QED BY <2>1, <2>2 DEF PlansInOrder
<1>12. LocationsInOrder
  <2>1. \A t \in DOMAIN tables : tables[t].location \in {NoFile} \cup pointed
    OBVIOUS
  <2>2. \A c \in Clients : Owns(work[c], plan[c], store.tables, disowned)
    BY <1>10 DEF Owns
  <2> HIDE DEF pointed
  <2> QED BY <1>1, <1>6, <1>10, <2>1, <2>2 DEF LocationsInOrder
<1>13. TablesBacked(store.tables, files, disowned, mistaken)
  BY <1>9 DEF TablesBacked
<1>14. DraftInOrder
  BY <1>1 DEF DraftInOrder
<1> QED BY <1>4, <1>8, <1>11, <1>12, <1>13, <1>14 DEF PublicationInOrder

\* Every step keeps the publications in order.
LEMMA NextIsGood ==
  ASSUME CatalogInOrder, PublicationInOrder, [FormatNext]_<<catalogVars, formatVars>>
  PROVE  PublicationInOrder'
<1>1. CASE UNCHANGED <<catalogVars, formatVars>>
  BY <1>1 DEF catalogVars, formatVars, PublicationInOrder, DraftInOrder, PlansInOrder, LocationsInOrder, Scenario
<1>2. CASE CatalogStep
  <2>1. UNCHANGED formatVars
    BY <1>2 DEF CatalogStep
  <2>2. ASSUME NEW c \in Clients, Begin(c) PROVE PublicationInOrder'
    BY <2>1, <2>2, BeginIsGood
  <2>3. ASSUME NEW c \in Clients, Busy(c) PROVE PublicationInOrder'
    BY <2>1, <2>3, BusyIsGood
  <2>4. ASSUME NEW c \in Clients, ~Publishing(c), Commit(c) PROVE PublicationInOrder'
    BY <2>1, <2>4, PlainCommitIsGood
  <2>5. ASSUME NEW c \in Clients, CommitFails(c) PROVE PublicationInOrder'
    BY <2>1, <2>5, CommitFailsIsGood
  <2>6. ASSUME NEW c \in Clients, CancelRequest(c) PROVE PublicationInOrder'
    BY <2>1, <2>6, CancelIsGood
  <2>7. ASSUME NEW c \in Clients, ItemEnds(c) PROVE PublicationInOrder'
    BY <2>1, <2>7, ItemEndsIsGood
  <2>8. ASSUME NEW c \in Clients, NEW request \in Scenario.requests, Submit(c, request) PROVE PublicationInOrder'
    BY <2>1, <2>8, SubmitIsGood
  <2>9. CASE OptimizerRuns
    BY <2>1, <2>9, OptimizerRunsIsGood
  <2> QED BY <1>2, <2>2, <2>3, <2>4, <2>5, <2>6, <2>7, <2>8, <2>9 DEF CatalogStep
<1>3. ASSUME NEW c \in Clients, PublicationStep(c) PROVE PublicationInOrder'
  <2>1. CASE ReadFails(c)
    BY <2>1, ReadFailsIsGood
  <2>2. CASE ReadMetadata(c)
    BY <2>2, ReadMetadataIsGood
  <2>3. CASE WriteCandidate(c)
    BY <2>3, WriteCandidateIsGood
  <2>4. CASE WriteFails(c)
    BY <2>4, WriteFailsIsGood
  <2>5. CASE Publish(c)
    BY <2>5, PublishIsGood
  <2>6. CASE PublicationEnds(c)
    BY <2>6, PublicationEndsIsGood
  <2>7. CASE Compensate(c)
    BY <2>7, CompensateIsGood
  <2> QED BY <1>3, <2>1, <2>2, <2>3, <2>4, <2>5, <2>6, <2>7 DEF PublicationStep
<1>4. ASSUME NEW c \in Clients, NEW request \in Scenario.requests, SubmitCreate(c, request) PROVE PublicationInOrder'
  BY <1>4, SubmitCreateIsGood
<1>5. ASSUME NEW c \in Clients, NEW request \in Scenario.requests, SubmitUpdate(c, request) PROVE PublicationInOrder'
  BY <1>5, SubmitUpdateIsGood
<1>6. CASE LateWrite
  BY <1>6, LateWriteIsGood
<1> QED BY <1>1, <1>2, <1>3, <1>4, <1>5, <1>6 DEF FormatNext

LEMMA GoodIsWritten ==
  ASSUME PublicationInOrder
  PROVE  PointedMetadataIsWritten
<1>1. FilesGood(files) /\ TablesBacked(store.tables, files, disowned, mistaken)
  BY DEF PublicationInOrder
<1>2. ASSUME NEW t \in DOMAIN store.tables
      PROVE  LET table == store.tables[t]
                 archived == table.archive # << >> /\ table.archive[Len(table.archive)].version = table.version - 1
             IN table.location \notin {NoFile} \cup disowned =>
                  /\ table.location \in DOMAIN files
                  /\ Resolves(files[table.location])
                  /\ table.columns = GlueColumns(CurrentSchema(files[table.location]))
                  /\ table.previous # NoFile =>
                       LET log == files[table.location].log IN log[Len(log)] = table.previous
                  /\ archived /\ table.previous # NoFile /\ table.location \notin mistaken =>
                       table.archive[Len(table.archive)].location = table.previous
  <2> DEFINE table == store.tables[t]
  <2>1. Backed(table, files, disowned, mistaken)
    BY <1>1 DEF TablesBacked
  <2>2. table.location \in DOMAIN files => Resolves(files[table.location])
    BY <1>1, GoodResolves DEF FilesGood
  <2> HIDE DEF table
  <2>3. table.location \notin {NoFile} \cup disowned =>
          /\ table.location \in DOMAIN files
          /\ Resolves(files[table.location])
          /\ table.columns = GlueColumns(CurrentSchema(files[table.location]))
          /\ table.previous # NoFile =>
               LET log == files[table.location].log IN log[Len(log)] = table.previous
          /\ /\ table.archive # << >> /\ table.archive[Len(table.archive)].version = table.version - 1
             /\ table.previous # NoFile /\ table.location \notin mistaken
             => table.archive[Len(table.archive)].location = table.previous
    BY <2>1, <2>2 DEF Backed
  <2> QED BY <2>3 DEF table
<1> QED BY <1>2 DEF PointedMetadataIsWritten

-----------------------------------------------------------------------------
\* The inductive invariant of publications: every document in the object store is sound, every
\* table is backed by the file it points to, each plan fits the table it was made from and the
\* candidate it has written, and a file is owned by one plan, by one late write or by a table.
THEOREM PublicationStaysInOrder == FormatSpec => [](CatalogInOrder /\ PublicationInOrder)
<1>1. FormatInit => CatalogInOrder /\ PublicationInOrder
  BY InitIsInOrder, InitIsGood
<1>2. CatalogInOrder /\ PublicationInOrder /\ [FormatNext]_<<catalogVars, formatVars>>
      => (CatalogInOrder /\ PublicationInOrder)'
  BY NextKeepsOrder, NextIsGood
<1> QED BY <1>1, <1>2, PTL DEF FormatSpec

\* Whatever requests create, update, drop and publish tables, fail, are cancelled or leave a write
\* behind, a table points to a metadata file that is there, sound, and has the columns of the table
\* and the file it replaced; and no publication loses the one before it, but for the two cases that
\* the histories name.
THEOREM PointedMetadataIsAlwaysWritten == FormatSpec => []PointedMetadataIsWritten
<1>1. PublicationInOrder => PointedMetadataIsWritten
  BY GoodIsWritten
<1> QED BY <1>1, PublicationStaysInOrder, PTL

-----------------------------------------------------------------------------
(***************************************************************************)
(* The catalog is serial: what a step is to the clients                    *)
(***************************************************************************)
Told(outcome) == outcome # "none"
Requested(op, outcome) == [command |-> {op}, told |-> outcome]
None == [command |-> {}, told |-> "none"]

\* What a client's request looks like from outside
View(w) ==
  IF w.pc \in {"begin", "commit"} THEN Requested(OpOf(w), "none")
  ELSE IF w.pc = "ended" THEN Requested(OpOf(w), w.outcome) ELSE None

\* an ended request was told something
EveryEndIsTold == \A c \in Clients : work[c].pc = "ended" => Told(work[c].outcome)

SerialRequests == [c \in Clients |-> RequestOf(c)]
SerialVars == <<store, SerialRequests>>
SerialStep == Serial!Next \/ SerialVars' = SerialVars

LEMMA RequestsAreViews ==
  ASSUME NEW c \in Clients
  PROVE  RequestOf(c) = View(work[c]) /\ RequestOf(c)' = View(work'[c])
<1>1. /\ Op(c) = OpOf(work[c]) /\ Op(c)' = OpOf(work'[c])
      /\ \A pc : (At(c, pc) <=> work[c].pc = pc) /\ (At(c, pc)' <=> work'[c].pc = pc)
  BY DEF Op, OpOf, At
<1>2. RequestOf(c) = View(work[c])
  BY <1>1 DEF RequestOf, View, Requested, None, At
<1>3. RequestOf(c)' = View(work'[c])
  BY <1>1 DEF RequestOf, View, Requested, None, At
<1> QED BY <1>2, <1>3

\* A step of one client's request is seen at that client only.
LEMMA OneRequestMoves ==
  ASSUME WorkInOrder, NEW c \in Clients, NEW w, work' = [work EXCEPT ![c] = w]
  PROVE  /\ SerialRequests' = [SerialRequests EXCEPT ![c] = View(w)]
         /\ SerialRequests[c] = View(work[c])
         /\ View(w) = View(work[c]) => SerialRequests' = SerialRequests
<1>1. work'[c] = w /\ \A x \in Clients \ {c} : work'[x] = work[x]
  BY DEF WorkInOrder
<1>2. \A x \in Clients : RequestOf(x)' = View(work'[x]) /\ RequestOf(x) = View(work[x])
  BY RequestsAreViews
<1> QED BY <1>1, <1>2 DEF SerialRequests

\* The steps of a client, as the catalog promises them
LEMMA AskedIsSerial ==
  ASSUME WorkInOrder, NEW c \in Clients, NEW w, work' = [work EXCEPT ![c] = w], store' = store,
         NEW op, View(w) = Requested(op, "none"), NEW known, NEW told,
         View(work[c]) = None \/ (View(work[c]) = Requested(known, told) /\ Told(told))
  PROVE  SerialStep
<1>1. SerialRequests' = [SerialRequests EXCEPT ![c] = View(w)] /\ SerialRequests[c] = View(work[c])
  BY OneRequestMoves
<1>2. Serial!Becomes(c, Requested(op, "none"))
  BY <1>1 DEF Serial!Becomes, SerialRequests
<1>3. SerialRequests'[c] = Requested(op, "none")
  BY <1>1 DEF SerialRequests
<1>4. \A command \in SerialRequests[c].command : SerialRequests[c] # Requested(command, "none")
  BY <1>1 DEF Requested, None, Told
<1>5. op \in SerialRequests'[c].command
  BY <1>3 DEF Requested
<1>6. Serial!Ask(c)
  BY <1>2, <1>4, <1>5 DEF Serial!Ask, Serial!Waits, Serial!Asked, Requested, SerialRequests
<1> QED BY <1>6 DEF SerialStep, Serial!Next

LEMMA ReturnedIsSerial ==
  ASSUME WorkInOrder, NEW c \in Clients, NEW w, work' = [work EXCEPT ![c] = w], store' = store,
         View(w) = None, NEW op, NEW told, View(work[c]) = Requested(op, told), Told(told)
  PROVE  SerialStep
<1>1. SerialRequests' = [SerialRequests EXCEPT ![c] = View(w)] /\ SerialRequests[c] = View(work[c])
  BY OneRequestMoves
<1>2. Serial!Becomes(c, None)
  BY <1>1 DEF Serial!Becomes, SerialRequests
<1>3. \A command \in SerialRequests[c].command : SerialRequests[c] # Requested(command, "none")
  BY <1>1 DEF Requested, Told
<1>4. Serial!Return(c)
  BY <1>2, <1>3 DEF Serial!Return, Serial!Waits, Serial!Asked, Serial!Nothing, None, Requested, SerialRequests
<1> QED BY <1>4 DEF SerialStep, Serial!Next

\* The answer to a command that waits for one
AnswerFits(op, s, t, outcome) ==
  \/ Refusal(s, op) = "ok" /\ t = Committed(Effect(s, op)) /\ outcome \in {"ok", "cancelled"}
  \/ Refusal(s, op) # "ok" /\ t = s /\ outcome = Refusal(s, op)
  \/ t = s /\ outcome \in {"busy", "failed", "cancelled"}

LEMMA AnsweredIsSerial ==
  ASSUME WorkInOrder, NEW c \in Clients, NEW w, work' = [work EXCEPT ![c] = w],
         NEW op, View(work[c]) = Requested(op, "none"), NEW outcome, View(w) = Requested(op, outcome),
         AnswerFits(op, store, store', outcome)
  PROVE  SerialStep
<1>1. SerialRequests' = [SerialRequests EXCEPT ![c] = View(w)] /\ SerialRequests[c] = View(work[c])
  BY OneRequestMoves
<1>2. Serial!Becomes(c, Requested(op, outcome))
  BY <1>1 DEF Serial!Becomes, SerialRequests
<1>3. op \in SerialRequests[c].command /\ SerialRequests[c] = Requested(op, "none")
  BY <1>1 DEF Requested
<1>4. Serial!Waits(c, op)
  BY <1>3 DEF Serial!Waits, Serial!Asked, Requested, SerialRequests
<1>5. Serial!Told(op, outcome) = Requested(op, outcome)
  BY DEF Serial!Told, Requested
<1>6. CASE Refusal(store, op) = "ok" /\ store' = Committed(Effect(store, op)) /\ outcome \in {"ok", "cancelled"}
  <2>1. Serial!Serve(c)
    BY <1>2, <1>3, <1>4, <1>5, <1>6 DEF Serial!Serve, Result, SerialRequests
  <2> QED BY <2>1 DEF SerialStep, Serial!Next
<1>7. CASE Refusal(store, op) # "ok" /\ store' = store /\ outcome = Refusal(store, op)
  <2>1. Serial!Refuse(c)
    BY <1>2, <1>3, <1>4, <1>5, <1>7 DEF Serial!Refuse, SerialRequests
  <2> QED BY <2>1 DEF SerialStep, Serial!Next
<1>8. CASE store' = store /\ outcome \in {"busy", "failed", "cancelled"}
  <2>1. Serial!GiveUp(c)
    BY <1>2, <1>3, <1>4, <1>5, <1>8 DEF Serial!GiveUp, SerialRequests
  <2> QED BY <2>1 DEF SerialStep, Serial!Next
<1> QED BY <1>6, <1>7, <1>8 DEF AnswerFits

\* A step that the clients do not see
LEMMA UnseenIsSerial ==
  ASSUME WorkInOrder, NEW c \in Clients, NEW w, work' = [work EXCEPT ![c] = w], store' = store, View(w) = View(work[c])
  PROVE  SerialStep
<1>1. SerialRequests' = SerialRequests
  BY OneRequestMoves
<1> QED BY <1>1 DEF SerialStep, SerialVars

\* What a request becomes, and what of it is seen
LEMMA ViewOfEnd ==
  ASSUME NEW w, WorkShape(w), NEW x
  PROVE  View(Ended(w, x)) = Requested(OpOf(w), x) /\ Ended(w, x).pc = "ended" /\ Ended(w, x).outcome = x
<1> DEFINE v == Ended(w, x)
<1>1. v.pc = "ended" /\ v.outcome = x /\ SameRequest(w, v)
  BY EndedParts
<1>2. OpOf(v) = OpOf(w)
  BY <1>1 DEF SameRequest, OpOf
<1> HIDE DEF v
<1>3. View(v) = Requested(OpOf(w), x)
  BY <1>1, <1>2 DEF View
<1> QED BY <1>1, <1>3 DEF v

LEMMA ViewOfWait ==
  ASSUME NEW w, WorkShape(w)
  PROVE  View(Waiting(w)) = Requested(OpOf(w), "none") /\ Waiting(w).pc = "begin"
<1> DEFINE v == Waiting(w)
<1>1. v.pc = "begin" /\ SameRequest(w, v)
  BY WaitingParts
<1>2. OpOf(v) = OpOf(w)
  BY <1>1 DEF SameRequest, OpOf
<1> HIDE DEF v
<1>3. View(v) = Requested(OpOf(w), "none")
  BY <1>1, <1>2 DEF View
<1> QED BY <1>1, <1>3 DEF v

LEMMA ViewOfIdle == View(Idle) = None /\ Idle.pc = "idle"
BY IdleIsTyped DEF View

LEMMA ViewOfMove ==
  ASSUME NEW w, WorkShape(w), NEW pc
  PROVE  /\ SetPc(w, pc).pc = pc /\ OpOf(SetPc(w, pc)) = OpOf(w)
         /\ pc \in {"write", "compensate"} => View(SetPc(w, pc)) = None
         /\ pc = "commit" => View(SetPc(w, pc)) = Requested(OpOf(w), "none")
<1> DEFINE v == SetPc(w, pc)
<1>1. v.pc = pc /\ v.ops = w.ops /\ v.index = w.index
  BY PcStays
<1> HIDE DEF v
<1>2. OpOf(v) = OpOf(w)
  BY <1>1 DEF OpOf
<1>3. pc \in {"write", "compensate"} => View(v) = None
  BY <1>1 DEF View
<1>4. pc = "commit" => View(v) = Requested(OpOf(w), "none")
  BY <1>1, <1>2 DEF View
<1> QED BY <1>1, <1>2, <1>3, <1>4 DEF v

LEMMA EndsStayTold ==
  ASSUME WorkInOrder, EveryEndIsTold, NEW c \in Clients, NEW w, work' = [work EXCEPT ![c] = w],
         w.pc = "ended" => Told(w.outcome)
  PROVE  EveryEndIsTold'
<1>1. work'[c] = w /\ \A x \in Clients \ {c} : work'[x] = work[x]
  BY DEF WorkInOrder
<1> QED BY <1>1 DEF EveryEndIsTold

LEMMA OutcomesTell ==
  Told("ok") /\ Told("cancelled") /\ Told("busy") /\ Told("failed") /\ \A e \in DomainErrors : Told(e)
BY DEF Told, DomainErrors

\* what the invariants say of one request
LEMMA RequestIsSeen ==
  ASSUME CatalogInOrder, EveryEndIsTold, NEW c \in Clients
  PROVE  /\ WorkInOrder /\ WorkShape(work[c]) /\ OpOf(work[c]) = Op(c)
         /\ work[c].pc \in {"begin", "commit"} => View(work[c]) = Requested(Op(c), "none")
         /\ work[c].pc \in {"idle", "read", "write", "compensate"} => View(work[c]) = None
         /\ work[c].pc = "ended" => View(work[c]) = Requested(Op(c), work[c].outcome) /\ Told(work[c].outcome)
         /\ work[c].pc # "idle" => IsCommand(Op(c))
         /\ writer = c => work[c].pc = "commit"
<1>1. OpOf(work[c]) = Op(c)
  BY DEF OpOf, Op
<1>2. WorkInOrder
  BY DEF CatalogInOrder
<1>3. work[c].pc = "ended" => Told(work[c].outcome)
  BY DEF EveryEndIsTold
<1> QED BY <1>1, <1>2, <1>3, RequestInOrder DEF View

-----------------------------------------------------------------------------
LEMMA BeginIsSerial ==
  ASSUME CatalogInOrder, EveryEndIsTold, NEW c \in Clients, Begin(c)
  PROVE  SerialStep /\ EveryEndIsTold'
<1> DEFINE w == work[c]
           refusal == Refusal(store, Op(c))
           s == SetPc(w, "commit")
           e == Ended(w, refusal)
<1>1. /\ WorkInOrder /\ WorkShape(w) /\ OpOf(w) = Op(c) /\ View(w) = Requested(Op(c), "none") /\ IsCommand(Op(c))
      /\ store' = store
  BY RequestIsSeen DEF Begin, At
<1>2. CASE refusal = "ok"
  <2>1. work' = [work EXCEPT ![c] = s]
    BY <1>2 DEF Begin, SetPc
  <2>2. View(s) = View(w) /\ s.pc = "commit"
    BY <1>1, ViewOfMove
  <2> HIDE DEF s
  <2> QED BY <1>1, <2>1, <2>2, UnseenIsSerial, EndsStayTold
<1>3. CASE refusal # "ok"
  <2>1. work' = [work EXCEPT ![c] = e]
    BY <1>3 DEF Begin
  <2>2. View(e) = Requested(Op(c), refusal) /\ e.outcome = refusal
    BY <1>1, ViewOfEnd
  <2> HIDE DEF e
  <2>3. AnswerFits(Op(c), store, store', refusal)
    BY <1>1, <1>3 DEF AnswerFits
  <2>4. Told(refusal)
    BY <1>1, <1>3, RefusalsAreErrors, OutcomesTell
  <2> HIDE DEF refusal
  <2>5. SerialStep
    BY <1>1, <2>1, <2>2, <2>3, AnsweredIsSerial
  <2>6. EveryEndIsTold'
    BY <1>1, <2>1, <2>2, <2>4, EndsStayTold
  <2> QED BY <2>5, <2>6
<1> QED BY <1>2, <1>3

\* A command that is not carried out
LEMMA GivenUpIsSerial ==
  ASSUME CatalogInOrder, EveryEndIsTold, NEW c \in Clients, work[c].pc \in {"begin", "commit"},
         NEW outcome \in {"busy", "failed", "cancelled"}, work' = [work EXCEPT ![c] = Ended(work[c], outcome)],
         store' = store
  PROVE  SerialStep /\ EveryEndIsTold'
<1> DEFINE w == work[c]
           e == Ended(w, outcome)
<1>1. WorkInOrder /\ WorkShape(w) /\ OpOf(w) = Op(c) /\ View(w) = Requested(Op(c), "none")
  BY RequestIsSeen
<1>2. View(e) = Requested(Op(c), outcome) /\ e.outcome = outcome
  BY <1>1, ViewOfEnd
<1>3. work' = [work EXCEPT ![c] = e]
  OBVIOUS
<1> HIDE DEF e
<1>4. AnswerFits(Op(c), store, store', outcome)
  BY DEF AnswerFits
<1>5. Told(outcome)
  BY OutcomesTell
<1>6. SerialStep
  BY <1>1, <1>2, <1>3, <1>4, AnsweredIsSerial
<1>7. EveryEndIsTold'
  BY <1>1, <1>2, <1>3, <1>5, EndsStayTold
<1> QED BY <1>6, <1>7

LEMMA BusyIsSerial ==
  ASSUME CatalogInOrder, EveryEndIsTold, NEW c \in Clients, Busy(c)
  PROVE  SerialStep /\ EveryEndIsTold'
<1> DEFINE w == work[c]
           s == SetAttempts(w, w.attempts + 1)
<1>1. WorkInOrder /\ WorkShape(w) /\ OpOf(w) = Op(c) /\ View(w) = Requested(Op(c), "none") /\ w.pc = "begin" /\ store' = store
  BY RequestIsSeen DEF Busy, At
<1>2. work' = [work EXCEPT ![c] = s] \/ work' = [work EXCEPT ![c] = Ended(w, "busy")]
  BY DEF Busy, SetAttempts
<1>3. s.pc = "begin" /\ s.ops = w.ops /\ s.index = w.index
  BY <1>1, AttemptsStays
<1> HIDE DEF s
<1>4. View(s) = View(w)
  BY <1>1, <1>3 DEF View, OpOf
<1>5. CASE work' = [work EXCEPT ![c] = s]
  BY <1>1, <1>3, <1>4, <1>5, UnseenIsSerial, EndsStayTold
<1>6. CASE work' = [work EXCEPT ![c] = Ended(w, "busy")]
  BY <1>1, <1>6, GivenUpIsSerial
<1> QED BY <1>2, <1>5, <1>6

\* The transaction takes the store it found, which is the store it commits to.
LEMMA CommitIsSerial ==
  ASSUME CatalogInOrder, PublicationInOrder, EveryEndIsTold, NEW c \in Clients, Commit(c)
  PROVE  SerialStep /\ EveryEndIsTold'
<1> DEFINE w == work[c]
           outcome == IF w.cancelled THEN "cancelled" ELSE "ok"
           e == Ended(w, outcome)
<1>1. /\ WorkInOrder /\ WorkShape(w) /\ OpOf(w) = Op(c) /\ View(w) = Requested(Op(c), "none")
      /\ writer = c /\ store' = Committed(draft) /\ work' = [work EXCEPT ![c] = e]
  BY RequestIsSeen DEF Commit
<1>2. DraftFits(draft, store, w)
  BY <1>1, RequestIsGood
<1>3. draft = Effect(store, Op(c)) /\ Refusal(store, Op(c)) = "ok"
  BY <1>1, <1>2 DEF DraftFits
<1>4. outcome \in {"ok", "cancelled"} /\ Told(outcome)
  BY OutcomesTell
<1> HIDE DEF outcome
<1>5. AnswerFits(Op(c), store, store', outcome)
  BY <1>1, <1>3, <1>4 DEF AnswerFits
<1>6. View(e) = Requested(Op(c), outcome) /\ e.outcome = outcome
  BY <1>1, ViewOfEnd
<1> HIDE DEF e
<1>7. SerialStep
  BY <1>1, <1>5, <1>6, AnsweredIsSerial
<1>8. EveryEndIsTold'
  BY <1>1, <1>4, <1>6, EndsStayTold
<1> QED BY <1>7, <1>8

LEMMA CommitFailsIsSerial ==
  ASSUME CatalogInOrder, EveryEndIsTold, NEW c \in Clients, CommitFails(c)
  PROVE  SerialStep /\ EveryEndIsTold'
<1>1. work[c].pc = "commit" /\ store' = store /\ work' = [work EXCEPT ![c] = Ended(work[c], "failed")]
  BY RequestIsSeen DEF CommitFails
<1> QED BY <1>1, GivenUpIsSerial

LEMMA CancelIsSerial ==
  ASSUME CatalogInOrder, EveryEndIsTold, NEW c \in Clients, CancelRequest(c)
  PROVE  SerialStep /\ EveryEndIsTold'
<1> DEFINE w == work[c]
           yes == TRUE
           s == SetCancelled(w, yes)
<1>1. /\ WorkInOrder /\ WorkShape(w) /\ OpOf(w) = Op(c) /\ store' = store
      /\ w.pc \in {"begin", "commit"} => View(w) = Requested(Op(c), "none")
      /\ writer = c => w.pc = "commit"
  BY RequestIsSeen DEF CancelRequest
<1>2. \/ w.pc \in {"begin", "commit"} /\ work' = [work EXCEPT ![c] = Ended(w, "cancelled")]
      \/ w.pc = "commit" /\ work' = [work EXCEPT ![c] = s]
  BY <1>1 DEF CancelRequest, At, SetCancelled
<1> HIDE DEF yes
<1>3. s.pc = w.pc /\ s.ops = w.ops /\ s.index = w.index
  BY <1>1, CancelledStays
<1> HIDE DEF s
<1>4. w.pc = "commit" => View(s) = View(w) /\ s.pc # "ended"
  BY <1>1, <1>3 DEF View, OpOf
<1>5. CASE w.pc = "commit" /\ work' = [work EXCEPT ![c] = s]
  BY <1>1, <1>4, <1>5, UnseenIsSerial, EndsStayTold
<1>6. CASE w.pc \in {"begin", "commit"} /\ work' = [work EXCEPT ![c] = Ended(w, "cancelled")]
  BY <1>1, <1>6, GivenUpIsSerial
<1> QED BY <1>2, <1>5, <1>6
-----------------------------------------------------------------------------
LEMMA SubmitIsSerial ==
  ASSUME CatalogInOrder, EveryEndIsTold, NEW c \in Clients, NEW request, Submit(c, request)
  PROVE  SerialStep /\ EveryEndIsTold'
<1> DEFINE kind == request.kind
           ops == request.ops
           w == Waiting([Idle EXCEPT !.kind = kind, !.ops = ops])
<1>1. WorkInOrder /\ View(work[c]) = None /\ store' = store /\ work' = [work EXCEPT ![c] = w]
  BY RequestIsSeen DEF Submit, Accepts, At
<1> HIDE DEF kind, ops
<1>2. w.pc = "begin"
  BY NewWaitParts
<1> HIDE DEF w
<1>3. View(w) = Requested(OpOf(w), "none")
  BY <1>2 DEF View
<1>4. SerialStep
  BY <1>1, <1>3, AskedIsSerial
<1>5. EveryEndIsTold'
  BY <1>1, <1>2, EndsStayTold
<1> QED BY <1>4, <1>5

\* A request that is done, or that goes on where its client does not look
LEMMA LeftIsSerial ==
  ASSUME CatalogInOrder, EveryEndIsTold, NEW c \in Clients,
         work[c].pc \in {"idle", "read", "write", "compensate", "ended"},
         NEW w, View(w) = None, w.pc # "ended", work' = [work EXCEPT ![c] = w], store' = store
  PROVE  SerialStep /\ EveryEndIsTold'
<1>1. WorkInOrder
  BY RequestIsSeen
<1>2. EveryEndIsTold'
  BY <1>1, EndsStayTold
<1>3. CASE work[c].pc = "ended"
  <2>1. View(work[c]) = Requested(Op(c), work[c].outcome) /\ Told(work[c].outcome)
    BY <1>3, RequestIsSeen
  <2>2. SerialStep
    BY <1>1, <2>1, ReturnedIsSerial
  <2> QED BY <1>2, <2>2
<1>4. CASE work[c].pc # "ended"
  <2>1. View(w) = View(work[c])
    BY <1>4, RequestIsSeen
  <2>2. SerialStep
    BY <1>1, <2>1, UnseenIsSerial
  <2> QED BY <1>2, <2>2
<1> QED BY <1>3, <1>4

LEMMA ItemEndsIsSerial ==
  ASSUME CatalogInOrder, EveryEndIsTold, NEW c \in Clients, ItemEnds(c)
  PROVE  SerialStep /\ EveryEndIsTold'
<1> DEFINE w == work[c]
           collected == w.kind = "batch" /\ w.outcome \in DomainErrors
           failures == w.failures \cup IF collected THEN {w.index} ELSE {}
           v == SetFailures(SetIndex(w, w.index + 1), failures)
<1>1. /\ WorkInOrder /\ WorkShape(w) /\ w.pc = "ended" /\ store' = store
      /\ View(w) = Requested(Op(c), w.outcome) /\ Told(w.outcome)
  BY RequestIsSeen DEF ItemEnds, At
<1>2. \/ work' = [work EXCEPT ![c] = Waiting(v)]
      \/ work' = [work EXCEPT ![c] = Idle]
  <2>1. work' = [work EXCEPT ![c] =
          IF w.index < Len(w.ops) /\ (collected \/ w.outcome = "ok")
          THEN Waiting([w EXCEPT !.index = w.index + 1, !.failures = failures]) ELSE Idle]
    BY DEF ItemEnds
  <2>2. [w EXCEPT !.index = w.index + 1, !.failures = failures] = v
    BY DEF SetIndex, SetFailures
  <2> HIDE DEF v, failures, collected
  <2> QED BY <2>1, <2>2
<1>3. CASE work' = [work EXCEPT ![c] = Waiting(v)]
  <2> DEFINE u == SetIndex(w, w.index + 1)
             z == Waiting(v)
  <2>1. WorkShape(u)
    BY <1>1, IndexStays
  <2> HIDE DEF u, failures
  <2>2. WorkShape(v)
    BY <2>1, FailuresStays DEF u
  <2> HIDE DEF v
  <2>3. View(z) = Requested(OpOf(v), "none") /\ z.pc = "begin"
    BY <2>2, ViewOfWait
  <2>4. work' = [work EXCEPT ![c] = z]
    BY <1>3
  <2> HIDE DEF z
  <2>5. SerialStep
    BY <1>1, <2>3, <2>4, AskedIsSerial
  <2>6. EveryEndIsTold'
    BY <1>1, <2>3, <2>4, EndsStayTold
  <2> QED BY <2>5, <2>6
<1>4. CASE work' = [work EXCEPT ![c] = Idle]
  BY <1>1, <1>4, ViewOfIdle, LeftIsSerial
<1> QED BY <1>2, <1>3, <1>4

LEMMA OptimizerRunsIsSerial ==
  ASSUME CatalogInOrder, EveryEndIsTold, OptimizerRuns
  PROVE  SerialStep /\ EveryEndIsTold'
<1>1. PICK new : store' = [store EXCEPT !.running = new]
  BY DEF OptimizerRuns
<1>2. work' = work
  BY DEF OptimizerRuns
<1>3. EveryEndIsTold'
  BY <1>2 DEF EveryEndIsTold
<1>4. SerialRequests' = SerialRequests
  BY <1>2 DEF SerialRequests, RequestOf, At, Op
<1>5. store' = [store EXCEPT !.running = store'.running]
  <2>1. "running" \in DOMAIN store
    BY DEF CatalogInOrder, StoreGood, StoreTyped, RowsTyped, StoreShape
  <2> QED BY <1>1, <2>1
<1>6. Serial!Optimize
  BY <1>4, <1>5 DEF Serial!Optimize, SerialRequests
<1> QED BY <1>3, <1>6 DEF SerialStep, Serial!Next

LEMMA PublicationIsSerial ==
  ASSUME CatalogInOrder, PublicationInOrder, EveryEndIsTold, NEW c \in Clients, PublicationStep(c)
  PROVE  SerialStep /\ EveryEndIsTold'
<1> DEFINE w == work[c]
<1>0. WorkInOrder /\ WorkShape(w) /\ (w.pc \in {"idle", "read", "write", "compensate"} => View(w) = None)
  BY RequestIsSeen
<1>1. CASE ReadFails(c) \/ Compensate(c)
  <2>1. w.pc \in {"read", "compensate"} /\ store' = store /\ work' = [work EXCEPT ![c] = Idle]
    BY <1>1 DEF ReadFails, Compensate, At
  <2> QED BY <2>1, ViewOfIdle, LeftIsSerial
<1>2. CASE ReadMetadata(c)
  <2> DEFINE doc == UpdateDocument(files[plan[c].base], plan[c].base, plan[c].request.updates)
             columns == GlueColumns(CurrentSchema(doc))
             v == WithCandidate(w, lastLocation + 1, columns)
  <2>1. w.pc = "read" /\ store' = store /\ work' = [work EXCEPT ![c] = v]
    BY <1>2 DEF ReadMetadata, At, WithCandidate
  <2>2. PICK op : w.ops = <<op>>
    BY <2>1, RequestInOrder DEF WorkTyped
  <2>3. w.index = 1
    <3>1. w.index \in 1 .. 1
      BY <2>1, <2>2, RequestInOrder DEF HasCommands
    <3> QED BY <3>1
  <2> HIDE DEF columns
  <2>4. v.pc = "write"
    BY <1>0, <2>2, <2>3, PlannedRequest
  <2> HIDE DEF v
  <2>5. View(v) = None
    BY <2>4 DEF View
  <2> QED BY <2>1, <2>4, <2>5, LeftIsSerial
<1>3. CASE WriteCandidate(c)
  <2> DEFINE v == Waiting(w)
  <2>1. w.pc = "write" /\ store' = store /\ work' = [work EXCEPT ![c] = v]
    BY <1>3 DEF WriteCandidate, At
  <2>2. View(v) = Requested(OpOf(w), "none") /\ v.pc = "begin"
    BY <1>0, ViewOfWait
  <2> HIDE DEF v
  <2>3. SerialStep
    BY <1>0, <2>1, <2>2, AskedIsSerial
  <2>4. EveryEndIsTold'
    BY <1>0, <2>1, <2>2, EndsStayTold
  <2> QED BY <2>3, <2>4
<1>4. CASE WriteFails(c)
  <2> DEFINE v == SetPc(w, "compensate")
  <2>1. w.pc = "write" /\ store' = store /\ work' = [work EXCEPT ![c] = v]
    BY <1>4 DEF WriteFails, At, Step, SetPc
  <2>2. View(v) = None /\ v.pc = "compensate"
    BY <1>0, ViewOfMove
  <2> HIDE DEF v
  <2> QED BY <2>1, <2>2, LeftIsSerial
<1>5. CASE Publish(c)
  BY <1>5, CommitIsSerial DEF Publish
<1>6. CASE PublicationEnds(c)
  <2> DEFINE v == SetPc(w, "compensate")
  <2>1. w.pc = "ended" /\ store' = store /\ (work' = [work EXCEPT ![c] = Idle] \/ work' = [work EXCEPT ![c] = v])
    BY <1>6 DEF PublicationEnds, At, Step, SetPc
  <2>2. View(v) = None /\ v.pc = "compensate"
    BY <1>0, ViewOfMove
  <2> HIDE DEF v
  <2>3. CASE work' = [work EXCEPT ![c] = Idle]
    BY <2>1, <2>3, ViewOfIdle, LeftIsSerial
  <2>4. CASE work' = [work EXCEPT ![c] = v]
    BY <2>1, <2>2, <2>4, LeftIsSerial
  <2> QED BY <2>1, <2>3, <2>4
<1> QED BY <1>1, <1>2, <1>3, <1>4, <1>5, <1>6 DEF PublicationStep

LEMMA SubmitFormatIsSerial ==
  ASSUME CatalogInOrder, EveryEndIsTold, NEW c \in Clients, NEW request,
         SubmitCreate(c, request) \/ SubmitUpdate(c, request)
  PROVE  SerialStep /\ EveryEndIsTold'
<1>0. PICK op : \E point \in {"write", "read"} :
        work' = [work EXCEPT ![c] = [Idle EXCEPT !.pc = point, !.kind = "publish", !.ops = <<op>>]]
  BY DEF SubmitCreate, SubmitUpdate
<1>1. PICK pc \in {"write", "read"} :
        work' = [work EXCEPT ![c] = [Idle EXCEPT !.pc = pc, !.kind = "publish", !.ops = <<op>>]]
  BY <1>0
<1> DEFINE w == [Idle EXCEPT !.pc = pc, !.kind = "publish", !.ops = <<op>>]
<1>2. work[c].pc = "idle" /\ store' = store /\ work' = [work EXCEPT ![c] = w]
  BY <1>1 DEF SubmitCreate, SubmitUpdate, Accepts, At
<1>3. w.pc = pc
  BY NewRequestParts
<1> HIDE DEF w
<1>4. View(w) = None /\ w.pc # "ended"
  BY <1>3 DEF View
<1> QED BY <1>2, <1>4, LeftIsSerial

LEMMA QuietIsSerial ==
  ASSUME UNCHANGED catalogVars, EveryEndIsTold
  PROVE  SerialStep /\ EveryEndIsTold'
<1>1. store' = store /\ work' = work
  BY DEF catalogVars
<1>2. SerialRequests' = SerialRequests
  BY <1>1 DEF SerialRequests, RequestOf, At, Op
<1>3. EveryEndIsTold'
  BY <1>1 DEF EveryEndIsTold
<1> QED BY <1>1, <1>2, <1>3 DEF SerialStep, SerialVars

LEMMA StepIsSerial ==
  ASSUME CatalogInOrder, PublicationInOrder, EveryEndIsTold, [FormatNext]_<<catalogVars, formatVars>>
  PROVE  SerialStep /\ EveryEndIsTold'
<1>1. CASE UNCHANGED <<catalogVars, formatVars>>
  BY <1>1, QuietIsSerial
<1>2. CASE CatalogStep
  BY <1>2, BeginIsSerial, BusyIsSerial, CommitIsSerial, CommitFailsIsSerial, CancelIsSerial, ItemEndsIsSerial,
     SubmitIsSerial, OptimizerRunsIsSerial DEF CatalogStep
<1>3. ASSUME NEW c \in Clients, PublicationStep(c) PROVE SerialStep /\ EveryEndIsTold'
  BY <1>3, PublicationIsSerial
<1>4. ASSUME NEW c \in Clients, NEW request \in Scenario.requests, SubmitCreate(c, request) \/ SubmitUpdate(c, request)
      PROVE  SerialStep /\ EveryEndIsTold'
  BY <1>4, SubmitFormatIsSerial
<1>5. CASE LateWrite
  BY <1>5, QuietIsSerial DEF LateWrite
<1> QED BY <1>1, <1>2, <1>3, <1>4, <1>5 DEF FormatNext

LEMMA CatalogStartsSerial ==
  ASSUME FormatInit
  PROVE  Serial!Init /\ EveryEndIsTold
<1>1. \A c \in Clients : work[c] = Idle
  BY DEF FormatInit, CatalogInit
<1>2. \A c \in Clients : RequestOf(c) = None
  BY <1>1, RequestsAreViews, ViewOfIdle
<1>3. Serial!Init
  BY <1>2 DEF Serial!Init, Serial!Nothing, None
<1>4. EveryEndIsTold
  BY <1>1, ViewOfIdle DEF EveryEndIsTold
<1> QED BY <1>3, <1>4

-----------------------------------------------------------------------------
\* However many clients there are and however their requests, retries, failing commits,
\* cancellations and publications interleave, the catalog is, step by step, the serial one its
\* clients see: each command takes effect as a whole on the catalog of that moment and at most once
\* before its client asks again, and whoever is told "ok" or an error of the domain was told the truth.
THEOREM CatalogIsAlwaysSerial == FormatSpec => CatalogIsSerial
<1>1. FormatInit => Serial!Init /\ EveryEndIsTold
  BY CatalogStartsSerial
<1>2. CatalogInOrder /\ PublicationInOrder /\ EveryEndIsTold /\ [FormatNext]_<<catalogVars, formatVars>>
      => EveryEndIsTold' /\ [Serial!Next]_SerialVars
  BY StepIsSerial DEF SerialStep
<1>3. CatalogInOrder /\ PublicationInOrder /\ EveryEndIsTold /\ [FormatNext]_<<catalogVars, formatVars>>
      => [Serial!Next]_<<store, [c \in Clients |-> RequestOf(c)]>>
  BY <1>2 DEF SerialVars, SerialRequests
<1> QED BY <1>1, <1>2, <1>3, PublicationStaysInOrder, PTL DEF FormatSpec, CatalogIsSerial, Serial!Spec, Serial!vars
==============================================================================
