-------------------------- MODULE GlueCatalogProofs --------------------------
(***************************************************************************)
(* Proofs about GlueCatalog and GlueOpenTableFormat for any clients,       *)
(* sessions of commands, values and segments.                              *)
(***************************************************************************)
EXTENDS GlueOpenTableFormat, FiniteSetTheorems, SequenceTheorems, WellFoundedInduction, TLAPS

-----------------------------------------------------------------------------
(***************************************************************************)
(* Keys and rows                                                           *)
(***************************************************************************)
\* A set of natural numbers that is not empty has a least element.
LEMMA LeastNumber ==
  ASSUME NEW S, S \subseteq Nat, S # {}
  PROVE  \E m \in S : \A n \in S : m <= n
<1> DEFINE Smaller == {pair \in Nat \X Nat : pair[1] < pair[2]}
<1>1. IsWellFoundedOn(Smaller, Nat)
  BY NatLessThanWellFounded DEF OpToRel
<1>2. PICK m \in S : \A n \in S : <<n, m>> \notin Smaller
  <2> HIDE DEF Smaller
  <2> QED BY <1>1, WFMin
<1>3. ASSUME NEW n \in S, n < m
      PROVE  FALSE
  <2>1. <<n, m>> \in Nat \X Nat /\ <<n, m>>[1] = n /\ <<n, m>>[2] = m
    OBVIOUS
  <2>2. <<n, m>> \in Smaller
    BY <1>3, <2>1
  <2> QED BY <1>2, <2>2
<1>4. \A n \in S : n \in Nat
  OBVIOUS
<1> HIDE DEF Smaller
<1> QED BY <1>3, <1>4

\* A strict order on a finite set that is not empty has a minimal element.
LEMMA MinimalElement ==
  ASSUME NEW S, IsFiniteSet(S), S # {}, NEW R,
         \A p \in S : <<p, p>> \notin R,
         \A p, q, r \in S : <<p, q>> \in R /\ <<q, r>> \in R => <<p, r>> \in R
  PROVE  \E p \in S : \A q \in S : <<q, p>> \notin R
<1> DEFINE Below(p) == {q \in S : <<q, p>> \in R}
           Sizes == {Cardinality(Below(p)) : p \in S}
<1>1. ASSUME NEW p \in S
      PROVE  IsFiniteSet(Below(p)) /\ Cardinality(Below(p)) \in Nat
  <2>1. Below(p) \in SUBSET S
    OBVIOUS
  <2> HIDE DEF Below
  <2> QED BY <2>1, FS_Subset, FS_CardinalityType
<1> HIDE DEF Below
<1>2. Sizes \subseteq Nat /\ Sizes # {}
  BY <1>1
<1>3. PICK m \in Sizes : \A n \in Sizes : m <= n
  BY <1>2, LeastNumber
<1>4. PICK p \in S : m = Cardinality(Below(p))
  BY <1>3
<1>5. ASSUME NEW q \in S, <<q, p>> \in R
      PROVE  FALSE
  <2>1. Below(q) \in SUBSET Below(p) /\ q \in Below(p) /\ q \notin Below(q)
    BY <1>5 DEF Below
  <2>2. Cardinality(Below(q)) <= Cardinality(Below(p)) /\ Cardinality(Below(q)) # Cardinality(Below(p))
    BY <1>1, <2>1, FS_Subset
  <2>3. Cardinality(Below(p)) <= Cardinality(Below(q))
    BY <1>3, <1>4
  <2>4. Cardinality(Below(p)) \in Nat /\ Cardinality(Below(q)) \in Nat
    BY <1>1
  <2> HIDE DEF Sizes
  <2> QED BY <2>2, <2>3, <2>4
<1> QED BY <1>5 DEF Below

\* SQLite's next key is that of no row, and never the number that stands for no row.
LEMMA NewRowIsNew ==
  ASSUME NEW rows, IsFiniteSet(DOMAIN rows), DOMAIN rows \subseteq Nat \ {NoRow}
  PROVE  NewRow(rows) \in Nat \ {NoRow} /\ NewRow(rows) \notin DOMAIN rows
<1>1. CASE DOMAIN rows = {}
  BY <1>1 DEF NewRow, NoRow
<1>2. CASE DOMAIN rows # {}
  <2> DEFINE S == DOMAIN rows
             Greater == {pair \in Nat \X Nat : pair[1] > pair[2]}
             Last(m) == m \in S /\ \A r \in S : r <= m
  <2>1. ASSUME NEW p \in S, NEW q \in S
        PROVE  p \in Nat /\ q \in Nat /\ (<<p, q>> \in Greater <=> p > q)
    <3>1. p \in Nat /\ q \in Nat
      OBVIOUS
    <3>2. <<p, q>> \in Nat \X Nat /\ <<p, q>>[1] = p /\ <<p, q>>[2] = q
      BY <3>1
    <3>3. <<p, q>> \in Greater <=> p > q
      BY <3>2
    <3> QED BY <3>1, <3>3
  <2> HIDE DEF Greater
  <2>2. \A p \in S : <<p, p>> \notin Greater
    BY <2>1
  <2>3. \A p, q, r \in S : <<p, q>> \in Greater /\ <<q, r>> \in Greater => <<p, r>> \in Greater
    BY <2>1
  <2>4. PICK m \in S : \A q \in S : <<q, m>> \notin Greater
    BY <1>2, <2>2, <2>3, MinimalElement
  <2>5. ASSUME NEW q \in S
        PROVE  q <= m
    <3>1. q \in Nat /\ m \in Nat /\ ~(q > m)
      BY <2>1, <2>4
    <3> QED BY <3>1
  <2> DEFINE last == CHOOSE k \in DOMAIN rows : \A r \in DOMAIN rows : r <= k
  <2>6. last \in S /\ \A r \in S : r <= last
    BY <2>5
  <2>7. NewRow(rows) = 1 + last
    BY <1>2 DEF NewRow
  <2> HIDE DEF last
  <2>8. last \in Nat
    BY <2>1, <2>6
  <2>9. 1 + last \notin S
    BY <2>1, <2>6, <2>8
  <2> QED BY <2>7, <2>8, <2>9 DEF NoRow
<1> QED BY <1>1, <1>2

\* A partition's values, as the catalog stores them
PartitionKey == Seq(RawValues)

LEMMA KeysAreSequences ==
  ASSUME NEW v \in PartitionKey
  PROVE  Len(v) \in Nat /\ DOMAIN v = 1 .. Len(v) /\ \A i \in 1 .. Len(v) : v[i] \in RawValues
BY LenProperties, ElementOfSeq DEF PartitionKey

LEMMA TextsAreOrdered ==
  /\ \A a \in RawValues : ~TextLess(a, a)
  /\ \A a, b, c \in RawValues : TextLess(a, b) /\ TextLess(b, c) => TextLess(a, c)
  /\ \A a, b \in RawValues : a # b => TextLess(a, b) \/ TextLess(b, a)
BY TextAssumption DEF TextLess

\* partition_order_key is a strict total order: of any two keys one comes first.
LEMMA KeysAreTotal ==
  ASSUME NEW v \in PartitionKey, NEW w \in PartitionKey, v # w
  PROVE  KeyLess(v, w) \/ KeyLess(w, v)
<1> DEFINE Differ == {i \in DOMAIN v \cap DOMAIN w : v[i] # w[i]}
<1>0. /\ Len(v) \in Nat /\ DOMAIN v = 1 .. Len(v) /\ \A i \in 1 .. Len(v) : v[i] \in RawValues
      /\ Len(w) \in Nat /\ DOMAIN w = 1 .. Len(w) /\ \A i \in 1 .. Len(w) : w[i] \in RawValues
  BY KeysAreSequences
<1>1. CASE Differ # {}
  <2>1. Differ \subseteq Nat
    BY <1>0
  <2>2. PICK i \in Differ : \A j \in Differ : i <= j
    BY <1>1, <2>1, LeastNumber
  <2>3. i \in DOMAIN v \cap DOMAIN w /\ v[i] # w[i] /\ i \in Nat
    BY <2>1
  <2>4. \A j \in 1 .. i - 1 : v[j] = w[j]
    <3> SUFFICES ASSUME NEW j \in 1 .. i - 1 PROVE v[j] = w[j]
      OBVIOUS
    <3>1. j \in DOMAIN v \cap DOMAIN w /\ ~(i <= j)
      BY <1>0, <2>3
    <3> QED BY <2>2, <3>1
  <2>5. TextLess(v[i], w[i]) \/ TextLess(w[i], v[i])
    BY <1>0, <2>3, TextsAreOrdered
  <2> QED BY <2>3, <2>4, <2>5 DEF KeyLess
<1>2. CASE Differ = {}
  <2>1. \A i \in DOMAIN v \cap DOMAIN w : v[i] = w[i]
    BY <1>2
  <2>2. Len(v) # Len(w)
    BY <1>0, <2>1, SeqEqual DEF PartitionKey
  <2>3. CASE Len(v) < Len(w)
    BY <1>0, <2>1, <2>3 DEF KeyLess
  <2>4. CASE Len(w) < Len(v)
    BY <1>0, <2>1, <2>4 DEF KeyLess
  <2>5. Len(v) < Len(w) \/ Len(w) < Len(v)
    <3>1. Len(v) \in Nat /\ Len(w) \in Nat
      BY <1>0
    <3> QED BY <2>2, <3>1
  <2> QED BY <2>3, <2>4, <2>5
<1> QED BY <1>1, <1>2

LEMMA KeysAreIrreflexive ==
  ASSUME NEW v \in PartitionKey
  PROVE  ~KeyLess(v, v)
BY KeysAreSequences, TextsAreOrdered DEF KeyLess

LEMMA KeysAreTransitive ==
  ASSUME NEW v \in PartitionKey, NEW w \in PartitionKey, NEW u \in PartitionKey,
         KeyLess(v, w), KeyLess(w, u)
  PROVE  KeyLess(v, u)
<1> DEFINE Prefix(a, b) == Len(a) < Len(b) /\ \A i \in DOMAIN a : a[i] = b[i]
           Split(a, b, i) == /\ i \in DOMAIN a \cap DOMAIN b /\ TextLess(a[i], b[i])
                             /\ \A j \in 1 .. i - 1 : a[j] = b[j]
<1>1. /\ Len(v) \in Nat /\ DOMAIN v = 1 .. Len(v) /\ \A i \in 1 .. Len(v) : v[i] \in RawValues
      /\ Len(w) \in Nat /\ DOMAIN w = 1 .. Len(w) /\ \A i \in 1 .. Len(w) : w[i] \in RawValues
      /\ Len(u) \in Nat /\ DOMAIN u = 1 .. Len(u) /\ \A i \in 1 .. Len(u) : u[i] \in RawValues
  BY KeysAreSequences
<1>2. \A a, b : KeyLess(a, b) <=> Prefix(a, b) \/ \E i : Split(a, b, i)
  BY DEF KeyLess
<1>3. SUFFICES Prefix(v, u) \/ \E i : Split(v, u, i)
  BY <1>2
<1>4. ASSUME Prefix(v, w), Prefix(w, u)
      PROVE  Prefix(v, u)
  BY <1>1, <1>4
<1>5. ASSUME Prefix(v, w), NEW j, Split(w, u, j)
      PROVE  Prefix(v, u) \/ Split(v, u, j)
  BY <1>1, <1>5
<1>6. ASSUME NEW i, Split(v, w, i), Prefix(w, u)
      PROVE  Split(v, u, i)
  BY <1>1, <1>6
<1>7. ASSUME NEW i, Split(v, w, i), NEW j, Split(w, u, j)
      PROVE  Split(v, u, i) \/ Split(v, u, j)
  <2>1. i \in Nat /\ j \in Nat
    BY <1>1, <1>7
  <2>2. CASE i < j
    BY <1>1, <1>7, <2>1, <2>2
  <2>3. CASE j < i
    BY <1>1, <1>7, <2>1, <2>3
  <2>4. CASE i = j
    BY <1>1, <1>7, <2>4, TextsAreOrdered
  <2> QED BY <2>1, <2>2, <2>3, <2>4
<1> HIDE DEF Prefix, Split
<1> QED BY <1>2, <1>4, <1>5, <1>6, <1>7

-----------------------------------------------------------------------------
(***************************************************************************)
(* The order of partitions, and the health facts that depend on it         *)
(***************************************************************************)
PartitionsTyped(partitions) ==
  /\ IsFiniteSet(DOMAIN partitions) /\ DOMAIN partitions \subseteq Nat \ {NoRow}
  /\ \A p \in DOMAIN partitions :
       /\ partitions[p] = [table |-> partitions[p].table, values |-> partitions[p].values]
       /\ partitions[p].values \in PartitionKey

\* Partitions are ordered by their keys, and where these are the same by their rows.
LEMMA PartitionsAreOrdered ==
  ASSUME NEW s, PartitionsTyped(s.partitions),
         NEW p \in DOMAIN s.partitions, NEW q \in DOMAIN s.partitions, NEW r \in DOMAIN s.partitions
  PROVE  /\ ~Before(s, p, p)
         /\ Before(s, p, q) /\ Before(s, q, r) => Before(s, p, r)
         /\ p # q => Before(s, p, q) \/ Before(s, q, p)
<1> DEFINE v == s.partitions[p].values
           w == s.partitions[q].values
           u == s.partitions[r].values
<1>1. v \in PartitionKey /\ w \in PartitionKey /\ u \in PartitionKey /\ p \in Nat /\ q \in Nat /\ r \in Nat
  BY DEF PartitionsTyped
<1>2. /\ Before(s, p, q) <=> KeyLess(v, w) \/ (v = w /\ p < q)
      /\ Before(s, q, p) <=> KeyLess(w, v) \/ (w = v /\ q < p)
      /\ Before(s, q, r) <=> KeyLess(w, u) \/ (w = u /\ q < r)
      /\ Before(s, p, r) <=> KeyLess(v, u) \/ (v = u /\ p < r)
      /\ Before(s, p, p) <=> KeyLess(v, v) \/ (v = v /\ p < p)
  BY DEF Before
<1> HIDE DEF v, w, u
<1>3. ~Before(s, p, p)
  BY <1>1, <1>2, KeysAreIrreflexive
<1>4. ASSUME Before(s, p, q), Before(s, q, r)
      PROVE  Before(s, p, r)
  <2>1. CASE KeyLess(v, w) /\ KeyLess(w, u)
    BY <1>1, <1>2, <2>1, KeysAreTransitive
  <2>2. CASE v = w \/ w = u
    BY <1>1, <1>2, <1>4, <2>2
  <2> QED BY <1>2, <1>4, <2>1, <2>2
<1>5. ASSUME p # q
      PROVE  Before(s, p, q) \/ Before(s, q, p)
  <2>1. CASE v = w
    <3>1. p < q \/ q < p
      BY <1>1, <1>5
    <3> QED BY <1>2, <2>1, <3>1
  <2>2. CASE v # w
    BY <1>1, <1>2, <2>2, KeysAreTotal
  <2> QED BY <2>1, <2>2
<1> QED BY <1>3, <1>4, <1>5

\* So the first of some partitions is one of them.
LEMMA FirstIsThere ==
  ASSUME NEW s, PartitionsTyped(s.partitions), NEW rows, rows \subseteq DOMAIN s.partitions, rows # {}
  PROVE  /\ FirstOf(s, rows) \in rows
         /\ \A q \in rows \ {FirstOf(s, rows)} : Before(s, FirstOf(s, rows), q)
<1> DEFINE R == {pair \in rows \X rows : Before(s, pair[1], pair[2])}
<1>1. IsFiniteSet(rows)
  BY FS_Subset DEF PartitionsTyped
<1>2. ASSUME NEW p \in rows, NEW q \in rows
      PROVE  <<p, q>> \in R <=> Before(s, p, q)
  <2>1. <<p, q>> \in rows \X rows /\ <<p, q>>[1] = p /\ <<p, q>>[2] = q
    OBVIOUS
  <2> QED BY <2>1
<1> HIDE DEF R
<1>3. \A p \in rows : <<p, p>> \notin R
  BY <1>2, PartitionsAreOrdered
<1>4. ASSUME NEW p \in rows, NEW q \in rows, NEW r \in rows, <<p, q>> \in R, <<q, r>> \in R
      PROVE  <<p, r>> \in R
  BY <1>2, <1>4, PartitionsAreOrdered
<1>5. PICK p \in rows : \A q \in rows : <<q, p>> \notin R
  BY <1>1, <1>3, <1>4, MinimalElement
<1>6. \A q \in rows \ {p} : Before(s, p, q)
  BY <1>2, <1>5, PartitionsAreOrdered
<1> DEFINE first == CHOOSE k \in rows : \A q \in rows \ {k} : Before(s, k, q)
<1>7. first \in rows /\ \A q \in rows \ {first} : Before(s, first, q)
  BY <1>6
<1>8. FirstOf(s, rows) = first
  BY DEF FirstOf
<1> HIDE DEF first
<1> QED BY <1>7, <1>8

\* An issue names one of the rows it is about, and depends on these rows alone.
LEMMA IssueIsOfRows ==
  ASSUME NEW s, PartitionsTyped(s.partitions), NEW rows, rows \subseteq DOMAIN s.partitions
  PROVE  Issue(s, rows).row \in rows \cup {NoRow}
BY FirstIsThere DEF Issue, NoIssue

LEMMA IssueIsSame ==
  ASSUME NEW s, PartitionsTyped(s.partitions), NEW u, PartitionsTyped(u.partitions),
         NEW rows, rows \subseteq DOMAIN s.partitions, rows \subseteq DOMAIN u.partitions,
         \A p \in rows : u.partitions[p] = s.partitions[p]
  PROVE  Issue(u, rows) = Issue(s, rows)
<1>1. CASE rows = {}
  BY <1>1 DEF Issue
<1>2. CASE rows # {}
  <2> DEFINE p == FirstOf(s, rows)
             q == FirstOf(u, rows)
  <2>1. p \in rows /\ q \in rows
    BY <1>2, FirstIsThere
  <2>2. q = p
    <3> SUFFICES ASSUME p # q PROVE FALSE
      OBVIOUS
    <3>1. Before(s, p, q) /\ Before(u, q, p)
      BY <1>2, <2>1, FirstIsThere
    <3>2. Before(s, q, p)
      BY <2>1, <3>1 DEF Before
    <3> HIDE DEF p, q
    <3> QED BY <2>1, <3>1, <3>2, PartitionsAreOrdered
  <2> QED BY <1>2, <2>1, <2>2 DEF Issue
<1> QED BY <1>1, <1>2

\* The health of a table depends on its keys and on its own partitions and their facts.
LEMMA HealthIsSame ==
  ASSUME NEW s, PartitionsTyped(s.partitions), NEW u, PartitionsTyped(u.partitions), NEW t,
         PartitionsOf(u, {t}) = PartitionsOf(s, {t}),
         \A p \in PartitionsOf(s, {t}) : u.partitions[p] = s.partitions[p] /\ u.facts[p] = s.facts[p],
         u.tables[t].keys = s.tables[t].keys
  PROVE  HealthOf(u, t) = HealthOf(s, t)
<1> DEFINE rows == PartitionsOf(s, {t})
           keys == s.tables[t].keys
           Short(facts) == {p \in rows : DOMAIN facts[p].projections # DOMAIN keys}
           Wrong(facts, i) == {p \in rows : /\ i \in DOMAIN facts[p].projections
                                            /\ ~facts[p].projections[i].valid}
<1>1. rows \subseteq DOMAIN s.partitions /\ rows \subseteq DOMAIN u.partitions
  BY DEF PartitionsOf
<1>2. Short(u.facts) = Short(s.facts) /\ \A i : Wrong(u.facts, i) = Wrong(s.facts, i)
  OBVIOUS
<1>3. Short(s.facts) \subseteq rows /\ \A i : Wrong(s.facts, i) \subseteq rows
  OBVIOUS
<1>4. HealthOf(s, t) = [arity |-> Issue(s, Short(s.facts)),
                        conversion |-> [i \in DOMAIN keys |-> Issue(s, Wrong(s.facts, i))]]
  BY DEF HealthOf
<1>5. HealthOf(u, t) = [arity |-> Issue(u, Short(u.facts)),
                        conversion |-> [i \in DOMAIN keys |-> Issue(u, Wrong(u.facts, i))]]
  BY DEF HealthOf
<1> HIDE DEF Short, Wrong
<1>6. Issue(u, Short(s.facts)) = Issue(s, Short(s.facts))
  BY <1>1, <1>3, IssueIsSame
<1>7. \A i : Issue(u, Wrong(s.facts, i)) = Issue(s, Wrong(s.facts, i))
  BY <1>1, <1>3, IssueIsSame
<1> HIDE DEF rows, keys
<1> QED BY <1>2, <1>4, <1>5, <1>6, <1>7

\* Forgetting the issues of other tables' partitions leaves the health of a table as it is.
LEMMA HealthOfOthersStays ==
  ASSUME NEW s, PartitionsTyped(s.partitions), NEW health, NEW t \in DOMAIN health,
         health[t] = HealthOf(s, t),
         NEW gone, gone \cap PartitionsOf(s, {t}) = {}, NoRow \notin gone
  PROVE  ForgetIssues(health, gone)[t] = HealthOf(s, t)
<1> DEFINE rows == PartitionsOf(s, {t})
           kept(issue) == IF issue.row \in gone THEN NoIssue ELSE issue
<1>1. \A some : some \subseteq rows => kept(Issue(s, some)) = Issue(s, some)
  <2> SUFFICES ASSUME NEW some, some \subseteq rows PROVE kept(Issue(s, some)) = Issue(s, some)
    OBVIOUS
  <2>1. Issue(s, some).row \in some \cup {NoRow}
    BY IssueIsOfRows DEF PartitionsOf
  <2> QED BY <2>1
<1> DEFINE keys == s.tables[t].keys
           short == {p \in rows : DOMAIN s.facts[p].projections # DOMAIN keys}
           Wrong(i) == {p \in rows : /\ i \in DOMAIN s.facts[p].projections
                                     /\ ~s.facts[p].projections[i].valid}
<1>2. HealthOf(s, t) = [arity |-> Issue(s, short), conversion |-> [i \in DOMAIN keys |-> Issue(s, Wrong(i))]]
  BY DEF HealthOf
<1>3. short \subseteq rows /\ \A i : Wrong(i) \subseteq rows
  OBVIOUS
<1>4. kept(Issue(s, short)) = Issue(s, short) /\ \A i : kept(Issue(s, Wrong(i))) = Issue(s, Wrong(i))
  <2> HIDE DEF kept, short, Wrong
  <2> QED BY <1>1, <1>3
<1>5. ForgetIssues(health, gone)[t] =
        [arity |-> kept(health[t].arity),
         conversion |-> [i \in DOMAIN health[t].conversion |-> kept(health[t].conversion[i])]]
  BY DEF ForgetIssues
<1> HIDE DEF kept, short, Wrong, rows, keys
<1> QED BY <1>2, <1>4, <1>5

-----------------------------------------------------------------------------
(***************************************************************************)
(* A catalog in order                                                      *)
(***************************************************************************)
StoreShape(s) ==
  s = [databases |-> s.databases, tables |-> s.tables, partitions |-> s.partitions, facts |-> s.facts,
       health |-> s.health, running |-> s.running, revision |-> s.revision]

\* A table, and that its archived versions are older ones
TableTyped(table) ==
  /\ table = [database |-> table.database, name |-> table.name, keys |-> table.keys, columns |-> table.columns,
              location |-> table.location, previous |-> table.previous, version |-> table.version,
              archive |-> table.archive, created |-> table.created]
  /\ table.version \in Nat
  /\ table.archive \in Seq({table.archive[i] : i \in DOMAIN table.archive})
  /\ \A i \in DOMAIN table.archive :
       /\ table.archive[i].version \in Nat /\ table.archive[i].version < table.version
       /\ \A j \in 1 .. i - 1 : table.archive[j].version < table.archive[i].version

RowsTyped(s) ==
  /\ StoreShape(s)
  /\ IsFiniteSet(DOMAIN s.databases) /\ DOMAIN s.databases \subseteq Nat \ {NoRow}
  /\ IsFiniteSet(DOMAIN s.tables) /\ DOMAIN s.tables \subseteq Nat \ {NoRow}
  /\ \A t \in DOMAIN s.tables : TableTyped(s.tables[t])
  /\ PartitionsTyped(s.partitions) /\ DOMAIN s.facts = DOMAIN s.partitions

StoreTyped(s) == RowsTyped(s) /\ DOMAIN s.health = DOMAIN s.tables

Parents(s) ==
  /\ \A t \in DOMAIN s.tables : s.tables[t].database \in DOMAIN s.databases
  /\ \A p \in DOMAIN s.partitions : s.partitions[p].table \in DOMAIN s.tables

UniqueNames(s) ==
  /\ \A d, e \in DOMAIN s.databases : s.databases[d] = s.databases[e] => d = e
  /\ \A t, u \in DOMAIN s.tables :
       s.tables[t].database = s.tables[u].database /\ s.tables[t].name = s.tables[u].name => t = u
  /\ \A p, q \in DOMAIN s.partitions :
       s.partitions[p].table = s.partitions[q].table /\ s.partitions[p].values = s.partitions[q].values => p = q

FreshFacts(s) ==
  /\ \A p \in DOMAIN s.partitions :
       s.facts[p] = QueryFacts(s.tables[s.partitions[p].table].keys, s.partitions[p].values)
  /\ \A t \in DOMAIN s.tables : s.health[t] = HealthOf(s, t)

RunsAreNamed(s) ==
  \A t \in DOMAIN s.running :
    /\ t \in DOMAIN s.tables
    /\ s.running[t] = <<s.databases[s.tables[t].database], s.tables[t].name>>

StoreGood(s) == StoreTyped(s) /\ Parents(s) /\ UniqueNames(s) /\ FreshFacts(s) /\ RunsAreNamed(s)
-----------------------------------------------------------------------------
(***************************************************************************)
(* What the operations on rows make of the fields                          *)
(***************************************************************************)
LEMMA RowsWithout ==
  ASSUME NEW rows, NEW gone
  PROVE  /\ DOMAIN Without(rows, gone) = DOMAIN rows \ gone
         /\ \A r \in DOMAIN rows \ gone : Without(rows, gone)[r] = rows[r]
BY DEF Without

LEMMA RowsWith ==
  ASSUME NEW rows, NEW row, NEW value
  PROVE  /\ DOMAIN With(rows, row, value) = DOMAIN rows \cup {row}
         /\ With(rows, row, value)[row] = value
         /\ \A r \in DOMAIN rows \ {row} : With(rows, row, value)[r] = rows[r]
BY DEF With

LEMMA DroppedPartitions ==
  ASSUME NEW s, StoreShape(s), NEW gone
  PROVE  DropPartitions(s, gone) =
           [databases |-> s.databases, tables |-> s.tables, partitions |-> Without(s.partitions, gone),
            facts |-> Without(s.facts, gone), health |-> ForgetIssues(s.health, gone),
            running |-> s.running, revision |-> s.revision]
<1> DEFINE r0 == [databases |-> s.databases, tables |-> s.tables, partitions |-> s.partitions, facts |-> s.facts,
                  health |-> s.health, running |-> s.running, revision |-> s.revision]
<1>1. s = r0
  BY DEF StoreShape
<1>2. DropPartitions(s, gone) =
        [r0 EXCEPT !.partitions = Without(r0.partitions, gone), !.facts = Without(r0.facts, gone),
                   !.health = ForgetIssues(r0.health, gone)]
  BY <1>1 DEF DropPartitions
<1> QED BY <1>2

LEMMA DroppedTables ==
  ASSUME NEW s, StoreShape(s), NEW gone
  PROVE  LET rows == PartitionsOf(s, gone)
         IN DropTables(s, gone) =
              [databases |-> s.databases, tables |-> Without(s.tables, gone),
               partitions |-> Without(s.partitions, rows), facts |-> Without(s.facts, rows),
               health |-> Without(ForgetIssues(s.health, rows), gone),
               running |-> Without(s.running, gone), revision |-> s.revision]
<1> DEFINE rows == PartitionsOf(s, gone)
           partitions == Without(s.partitions, rows)
           facts == Without(s.facts, rows)
           health == ForgetIssues(s.health, rows)
           rest == [databases |-> s.databases, tables |-> s.tables, partitions |-> partitions, facts |-> facts,
                    health |-> health, running |-> s.running, revision |-> s.revision]
           a == Without(s.tables, gone)
           b == Without(health, gone)
           c == Without(s.running, gone)
<1>1. DropPartitions(s, rows) = rest
  BY DroppedPartitions
<1> HIDE DEF rows, partitions, facts, health
<1>2. rest.tables = s.tables /\ rest.health = health /\ rest.running = s.running
  OBVIOUS
<1>3. DropTables(s, gone) =
        [rest EXCEPT !.tables = Without(rest.tables, gone), !.health = Without(rest.health, gone),
                     !.running = Without(rest.running, gone)]
  <2> HIDE DEF rest
  <2> QED BY <1>1 DEF DropTables, rows
<1>4. DropTables(s, gone) = [rest EXCEPT !.tables = a, !.health = b, !.running = c]
  BY <1>2, <1>3
<1> HIDE DEF a, b, c
<1> DEFINE one == [databases |-> s.databases, tables |-> a, partitions |-> partitions, facts |-> facts,
                   health |-> health, running |-> s.running, revision |-> s.revision]
           two == [databases |-> s.databases, tables |-> a, partitions |-> partitions, facts |-> facts,
                   health |-> b, running |-> s.running, revision |-> s.revision]
<1>5. [rest EXCEPT !.tables = a, !.health = b, !.running = c] =
        [databases |-> s.databases, tables |-> a, partitions |-> partitions, facts |-> facts,
         health |-> b, running |-> c, revision |-> s.revision]
  <2>1. [rest EXCEPT !.tables = a] = one
    OBVIOUS
  <2>2. [one EXCEPT !.health = b] = two
    OBVIOUS
  <2>3. [two EXCEPT !.running = c] =
          [databases |-> s.databases, tables |-> a, partitions |-> partitions, facts |-> facts,
           health |-> b, running |-> c, revision |-> s.revision]
    OBVIOUS
  <2>4. [rest EXCEPT !.tables = a, !.health = b, !.running = c] =
          [[[rest EXCEPT !.tables = a] EXCEPT !.health = b] EXCEPT !.running = c]
    OBVIOUS
  <2> HIDE DEF rest, one, two
  <2> QED BY <2>1, <2>2, <2>3, <2>4
<1> HIDE DEF rest
<1>6. DropTables(s, gone) =
        [databases |-> s.databases, tables |-> a, partitions |-> partitions, facts |-> facts,
         health |-> b, running |-> c, revision |-> s.revision]
  BY <1>4, <1>5
<1> QED BY <1>6 DEF rows, partitions, facts, health, a, b, c

LEMMA HealthRefreshed ==
  ASSUME NEW s, StoreShape(s), NEW t
  PROVE  RefreshHealth(s, t) =
           [databases |-> s.databases, tables |-> s.tables, partitions |-> s.partitions, facts |-> s.facts,
            health |-> With(s.health, t, HealthOf(s, t)), running |-> s.running, revision |-> s.revision]
<1> DEFINE r0 == [databases |-> s.databases, tables |-> s.tables, partitions |-> s.partitions, facts |-> s.facts,
                  health |-> s.health, running |-> s.running, revision |-> s.revision]
           h == HealthOf(s, t)
<1>1. s = r0
  BY DEF StoreShape
<1>2. RefreshHealth(s, t) = [s EXCEPT !.health = With(s.health, t, h)]
  BY DEF RefreshHealth
<1> HIDE DEF h
<1>3. [r0 EXCEPT !.health = With(s.health, t, h)] =
        [databases |-> s.databases, tables |-> s.tables, partitions |-> s.partitions, facts |-> s.facts,
         health |-> With(s.health, t, h), running |-> s.running, revision |-> s.revision]
  OBVIOUS
<1> HIDE DEF r0
<1> QED BY <1>1, <1>2, <1>3 DEF h

LEMMA RunsCancelled ==
  ASSUME NEW s, StoreShape(s), NEW gone
  PROVE  CancelRuns(s, gone) =
           [databases |-> s.databases, tables |-> s.tables, partitions |-> s.partitions, facts |-> s.facts,
            health |-> s.health, running |-> Without(s.running, gone), revision |-> s.revision]
<1> DEFINE r0 == [databases |-> s.databases, tables |-> s.tables, partitions |-> s.partitions, facts |-> s.facts,
                  health |-> s.health, running |-> s.running, revision |-> s.revision]
           rest == Without(s.running, gone)
<1>1. s = r0 /\ CancelRuns(s, gone) = [s EXCEPT !.running = rest]
  BY DEF StoreShape, CancelRuns
<1> HIDE DEF rest
<1>2. [r0 EXCEPT !.running = rest] =
        [databases |-> s.databases, tables |-> s.tables, partitions |-> s.partitions, facts |-> s.facts,
         health |-> s.health, running |-> rest, revision |-> s.revision]
  OBVIOUS
<1> HIDE DEF r0
<1> QED BY <1>1, <1>2 DEF rest

LEMMA TableWritten ==
  ASSUME NEW s, StoreShape(s), NEW t, NEW table
  PROVE  WriteTable(s, t, table) =
           [databases |-> s.databases, tables |-> With(s.tables, t, table), partitions |-> s.partitions,
            facts |-> s.facts, health |-> s.health, running |-> s.running, revision |-> s.revision]
<1> DEFINE r0 == [databases |-> s.databases, tables |-> s.tables, partitions |-> s.partitions, facts |-> s.facts,
                  health |-> s.health, running |-> s.running, revision |-> s.revision]
           new == With(s.tables, t, table)
<1>1. s = r0 /\ WriteTable(s, t, table) = [s EXCEPT !.tables = new]
  BY DEF StoreShape, WriteTable
<1> HIDE DEF new
<1>2. [r0 EXCEPT !.tables = new] =
        [databases |-> s.databases, tables |-> new, partitions |-> s.partitions, facts |-> s.facts,
         health |-> s.health, running |-> s.running, revision |-> s.revision]
  OBVIOUS
<1> HIDE DEF r0
<1> QED BY <1>1, <1>2 DEF new

\* A subset of the partitions, and the partitions with one more or another one, are typed.
LEMMA PartitionsWithoutTyped ==
  ASSUME NEW partitions, PartitionsTyped(partitions), NEW gone
  PROVE  PartitionsTyped(Without(partitions, gone))
<1> DEFINE rest == Without(partitions, gone)
<1>1. /\ DOMAIN rest = DOMAIN partitions \ gone
      /\ \A r \in DOMAIN partitions \ gone : rest[r] = partitions[r]
  BY RowsWithout
<1> HIDE DEF rest
<1>2. IsFiniteSet(DOMAIN partitions) /\ DOMAIN rest \in SUBSET (DOMAIN partitions)
  BY <1>1 DEF PartitionsTyped
<1>3. IsFiniteSet(DOMAIN rest)
  BY <1>2, FS_Subset
<1>4. PartitionsTyped(rest)
  BY <1>1, <1>3 DEF PartitionsTyped
<1> QED BY <1>4 DEF rest

LEMMA PartitionsWithTyped ==
  ASSUME NEW partitions, PartitionsTyped(partitions), NEW p \in Nat \ {NoRow},
         NEW t, NEW values \in PartitionKey
  PROVE  PartitionsTyped(With(partitions, p, [table |-> t, values |-> values]))
<1> DEFINE row == [table |-> t, values |-> values]
           more == With(partitions, p, row)
<1>0. /\ DOMAIN With(partitions, p, row) = DOMAIN partitions \cup {p}
      /\ With(partitions, p, row)[p] = row
      /\ \A r \in DOMAIN partitions \ {p} : With(partitions, p, row)[r] = partitions[r]
  <2> HIDE DEF row
  <2> QED BY DEF With
<1>1. /\ DOMAIN more = DOMAIN partitions \cup {p} /\ more[p] = row
      /\ \A r \in DOMAIN partitions \ {p} : more[r] = partitions[r]
  BY <1>0
<1>2. row.table = t /\ row.values = values /\ row = [table |-> row.table, values |-> row.values]
  OBVIOUS
<1> HIDE DEF more, row
<1>3. IsFiniteSet(DOMAIN more)
  BY <1>1, FS_AddElement DEF PartitionsTyped
<1>4. PartitionsTyped(more)
  BY <1>1, <1>2, <1>3 DEF PartitionsTyped
<1> QED BY <1>4 DEF more, row

\* Dropping tables with all that is theirs leaves a catalog in order.
LEMMA DropTablesKeepsOrder ==
  ASSUME NEW s, StoreGood(s), NEW gone
  PROVE  StoreGood(DropTables(s, gone))
<1> DEFINE rows == PartitionsOf(s, gone)
           u == DropTables(s, gone)
<1>1. /\ u = [databases |-> s.databases, tables |-> Without(s.tables, gone),
              partitions |-> Without(s.partitions, rows), facts |-> Without(s.facts, rows),
              health |-> Without(ForgetIssues(s.health, rows), gone),
              running |-> Without(s.running, gone), revision |-> s.revision]
      /\ StoreTyped(s) /\ Parents(s) /\ UniqueNames(s) /\ FreshFacts(s) /\ RunsAreNamed(s)
  BY DroppedTables DEF StoreGood, StoreTyped, RowsTyped
<1>2. /\ u.databases = s.databases /\ u.tables = Without(s.tables, gone)
      /\ u.partitions = Without(s.partitions, rows) /\ u.facts = Without(s.facts, rows)
      /\ u.health = Without(ForgetIssues(s.health, rows), gone) /\ u.running = Without(s.running, gone)
      /\ StoreShape(u)
  BY <1>1 DEF StoreShape
<1>3. rows = {p \in DOMAIN s.partitions : s.partitions[p].table \in gone}
  BY DEF PartitionsOf
<1> HIDE DEF u, rows
<1>a. /\ DOMAIN u.tables = DOMAIN s.tables \ gone
      /\ \A t \in DOMAIN u.tables : u.tables[t] = s.tables[t]
  BY <1>2 DEF Without
<1>b. /\ DOMAIN u.partitions = DOMAIN s.partitions \ rows
      /\ \A p \in DOMAIN u.partitions : u.partitions[p] = s.partitions[p]
  BY <1>2 DEF Without
<1>c. /\ DOMAIN u.running = DOMAIN s.running \ gone
      /\ \A t \in DOMAIN u.running : u.running[t] = s.running[t]
  BY <1>2 DEF Without
<1>4. /\ DOMAIN u.tables = DOMAIN s.tables \ gone
      /\ \A t \in DOMAIN u.tables : u.tables[t] = s.tables[t]
      /\ DOMAIN u.partitions = DOMAIN s.partitions \ rows
      /\ \A p \in DOMAIN u.partitions : u.partitions[p] = s.partitions[p]
      /\ DOMAIN u.running = DOMAIN s.running \ gone
      /\ \A t \in DOMAIN u.running : u.running[t] = s.running[t]
  BY <1>a, <1>b, <1>c
<1>5. /\ DOMAIN u.facts = DOMAIN s.partitions \ rows
      /\ \A p \in DOMAIN u.partitions : u.facts[p] = s.facts[p]
      /\ DOMAIN u.health = DOMAIN s.tables \ gone
      /\ \A t \in DOMAIN u.health : u.health[t] = ForgetIssues(s.health, rows)[t]
  <2>1. DOMAIN s.facts = DOMAIN s.partitions /\ DOMAIN s.health = DOMAIN s.tables
    BY <1>1 DEF StoreTyped, RowsTyped
  <2>2. DOMAIN u.facts = DOMAIN s.partitions \ rows /\ \A p \in DOMAIN u.facts : u.facts[p] = s.facts[p]
    BY <1>2, <2>1 DEF Without
  <2>3. DOMAIN ForgetIssues(s.health, rows) = DOMAIN s.tables
    BY <2>1 DEF ForgetIssues
  <2>4. /\ DOMAIN u.health = DOMAIN s.tables \ gone
        /\ \A t \in DOMAIN u.health : u.health[t] = ForgetIssues(s.health, rows)[t]
    BY <1>2, <2>3 DEF Without
  <2> QED BY <1>b, <2>2, <2>4
<1>6. StoreTyped(u)
  BY <1>1, <1>2, <1>4, <1>5, FS_Subset, PartitionsWithoutTyped DEF StoreTyped, RowsTyped
<1>7. Parents(u) /\ UniqueNames(u) /\ RunsAreNamed(u)
  <2>1. Parents(u)
    BY <1>1, <1>2, <1>3, <1>4 DEF Parents
  <2>2. UniqueNames(u)
    <3>1. \A d, e \in DOMAIN u.databases : u.databases[d] = u.databases[e] => d = e
      BY <1>1, <1>2 DEF UniqueNames
    <3>2. ASSUME NEW t \in DOMAIN u.tables, NEW v \in DOMAIN u.tables,
                 u.tables[t].database = u.tables[v].database, u.tables[t].name = u.tables[v].name
          PROVE  t = v
      <4>1. t \in DOMAIN s.tables /\ v \in DOMAIN s.tables /\ u.tables[t] = s.tables[t] /\ u.tables[v] = s.tables[v]
        BY <1>4
      <4> QED BY <1>1, <3>2, <4>1 DEF UniqueNames
    <3>3. ASSUME NEW p \in DOMAIN u.partitions, NEW q \in DOMAIN u.partitions,
                 u.partitions[p].table = u.partitions[q].table, u.partitions[p].values = u.partitions[q].values
          PROVE  p = q
      <4>1. /\ p \in DOMAIN s.partitions /\ q \in DOMAIN s.partitions
            /\ u.partitions[p] = s.partitions[p] /\ u.partitions[q] = s.partitions[q]
        BY <1>4
      <4> QED BY <1>1, <3>3, <4>1 DEF UniqueNames
    <3> QED BY <3>1, <3>2, <3>3 DEF UniqueNames
  <2>3. ASSUME NEW t \in DOMAIN u.running
        PROVE  t \in DOMAIN u.tables /\ u.running[t] = <<u.databases[u.tables[t].database], u.tables[t].name>>
    <3>1. t \in DOMAIN s.running /\ t \notin gone /\ u.running[t] = s.running[t]
      BY <1>4
    <3>2. t \in DOMAIN s.tables /\ s.running[t] = <<s.databases[s.tables[t].database], s.tables[t].name>>
      BY <1>1, <3>1 DEF RunsAreNamed
    <3>3. t \in DOMAIN u.tables /\ u.tables[t] = s.tables[t]
      BY <1>4, <3>1, <3>2
    <3> QED BY <1>2, <3>1, <3>2, <3>3
  <2> QED BY <2>1, <2>2, <2>3 DEF RunsAreNamed
<1>8. \A p \in DOMAIN u.partitions :
        u.facts[p] = QueryFacts(u.tables[u.partitions[p].table].keys, u.partitions[p].values)
  BY <1>1, <1>3, <1>4, <1>5 DEF FreshFacts, Parents
<1>9. ASSUME NEW t \in DOMAIN u.tables
      PROVE  u.health[t] = HealthOf(u, t)
  <2>1. rows \cap PartitionsOf(s, {t}) = {} /\ NoRow \notin rows
    BY <1>1, <1>3, <1>4 DEF PartitionsOf, StoreTyped, RowsTyped, PartitionsTyped
  <2>2. ForgetIssues(s.health, rows)[t] = HealthOf(s, t)
    BY <1>1, <1>4, <2>1, HealthOfOthersStays DEF StoreTyped, RowsTyped, FreshFacts
  <2>3. PartitionsOf(u, {t}) = PartitionsOf(s, {t})
    BY <1>4, <2>1 DEF PartitionsOf
  <2>4. \A p \in PartitionsOf(s, {t}) : u.partitions[p] = s.partitions[p] /\ u.facts[p] = s.facts[p]
    BY <1>4, <1>5, <2>3 DEF PartitionsOf
  <2>5. HealthOf(u, t) = HealthOf(s, t)
    BY <1>1, <1>4, <1>6, <2>3, <2>4, HealthIsSame DEF StoreTyped, RowsTyped
  <2> QED BY <1>4, <1>5, <2>2, <2>5
<1> QED BY <1>6, <1>7, <1>8, <1>9 DEF StoreGood, FreshFacts, u

\* A change of databases, of names and versions of tables or of runs leaves partitions, facts and
\* health fresh.
LEMMA NamesMayChange ==
  ASSUME NEW s, StoreGood(s), NEW u, StoreShape(u),
         u.partitions = s.partitions, u.facts = s.facts, u.health = s.health,
         DOMAIN u.tables = DOMAIN s.tables,
         \A t \in DOMAIN u.tables : /\ TableTyped(u.tables[t]) /\ u.tables[t].keys = s.tables[t].keys
                                    /\ u.tables[t].database \in DOMAIN u.databases,
         IsFiniteSet(DOMAIN u.databases), DOMAIN u.databases \subseteq Nat \ {NoRow},
         \A d, e \in DOMAIN u.databases : u.databases[d] = u.databases[e] => d = e,
         \A t, v \in DOMAIN u.tables :
           u.tables[t].database = u.tables[v].database /\ u.tables[t].name = u.tables[v].name => t = v,
         RunsAreNamed(u)
  PROVE  StoreGood(u)
<1>1. StoreTyped(s) /\ Parents(s) /\ UniqueNames(s) /\ FreshFacts(s) /\ PartitionsTyped(s.partitions)
  BY DEF StoreGood, StoreTyped, RowsTyped
<1>2. StoreTyped(u)
  BY <1>1 DEF StoreTyped, RowsTyped
<1>3. Parents(u)
  BY <1>1 DEF Parents
<1>4. UniqueNames(u)
  BY <1>1 DEF UniqueNames
<1>5. ASSUME NEW p \in DOMAIN u.partitions
      PROVE  u.facts[p] = QueryFacts(u.tables[u.partitions[p].table].keys, u.partitions[p].values)
  <2>1. s.partitions[p].table \in DOMAIN s.tables
    BY <1>1 DEF Parents
  <2>2. s.facts[p] = QueryFacts(s.tables[s.partitions[p].table].keys, s.partitions[p].values)
    BY <1>1 DEF FreshFacts
  <2>3. u.tables[s.partitions[p].table].keys = s.tables[s.partitions[p].table].keys
    BY <2>1
  <2> QED BY <2>2, <2>3
<1>6. ASSUME NEW t \in DOMAIN u.tables
      PROVE  u.health[t] = HealthOf(u, t)
  <2>1. PartitionsOf(u, {t}) = PartitionsOf(s, {t})
    BY DEF PartitionsOf
  <2>2. u.tables[t].keys = s.tables[t].keys
    OBVIOUS
  <2>3. HealthOf(u, t) = HealthOf(s, t)
    BY <1>1, <2>1, <2>2, HealthIsSame
  <2>4. s.health[t] = HealthOf(s, t)
    BY <1>1 DEF FreshFacts
  <2> QED BY <2>3, <2>4
<1> QED BY <1>2, <1>3, <1>4, <1>5, <1>6 DEF StoreGood, FreshFacts

\* Refreshing the health of the one table whose health may be old puts the catalog in order.
LEMMA RefreshPutsInOrder ==
  ASSUME NEW w, RowsTyped(w), Parents(w), UniqueNames(w), RunsAreNamed(w), NEW t \in DOMAIN w.tables,
         DOMAIN w.health \cup {t} = DOMAIN w.tables,
         \A p \in DOMAIN w.partitions :
           w.facts[p] = QueryFacts(w.tables[w.partitions[p].table].keys, w.partitions[p].values),
         \A x \in DOMAIN w.tables \ {t} : w.health[x] = HealthOf(w, x)
  PROVE  StoreGood(RefreshHealth(w, t))
<1> DEFINE u == RefreshHealth(w, t)
           h == HealthOf(w, t)
<1>0. StoreShape(w) /\ PartitionsTyped(w.partitions)
  BY DEF RowsTyped
<1>1. u = [databases |-> w.databases, tables |-> w.tables, partitions |-> w.partitions, facts |-> w.facts,
           health |-> With(w.health, t, h), running |-> w.running, revision |-> w.revision]
  BY <1>0, HealthRefreshed
<1> HIDE DEF u, h
<1>2. /\ u.databases = w.databases /\ u.tables = w.tables /\ u.partitions = w.partitions /\ u.facts = w.facts
      /\ u.health = With(w.health, t, h) /\ u.running = w.running /\ StoreShape(u)
  BY <1>1 DEF StoreShape
<1>3. /\ DOMAIN u.health = DOMAIN w.tables /\ u.health[t] = h
      /\ \A x \in DOMAIN w.tables \ {t} : u.health[x] = w.health[x]
  BY <1>0, <1>2 DEF With
<1>4. StoreTyped(u)
  BY <1>2, <1>3 DEF StoreTyped, RowsTyped
<1>5. Parents(u) /\ UniqueNames(u) /\ RunsAreNamed(u)
  BY <1>2 DEF Parents, UniqueNames, RunsAreNamed
<1>6. ASSUME NEW x \in DOMAIN w.tables
      PROVE  HealthOf(u, x) = HealthOf(w, x)
  BY <1>0, <1>2, HealthIsSame DEF PartitionsOf
<1>7. \A x \in DOMAIN u.tables : u.health[x] = HealthOf(u, x)
  BY <1>2, <1>3, <1>6 DEF h
<1> QED BY <1>2, <1>4, <1>5, <1>7 DEF StoreGood, FreshFacts, u

-----------------------------------------------------------------------------
(***************************************************************************)
(* What a command finds                                                    *)
(***************************************************************************)
LEMMA OnlyIsFound ==
  ASSUME NEW found, found # {}
  PROVE  Only(found) \in found
BY DEF Only

\* A name finds one database, one table and one partition at most.
LEMMA FoundIsOne ==
  ASSUME NEW s, UniqueNames(s), NEW database, NEW name, NEW t, NEW values
  PROVE  /\ \A d, e \in FindDatabase(s, name) : d = e
         /\ \A v, u \in FindTable(s, database, name) : v = u
         /\ \A p, q \in FindPartition(s, t, values) : p = q
<1>1. \A any : \A d, e \in FindDatabase(s, any) : d = e
  BY DEF FindDatabase, UniqueNames
<1>2. ASSUME NEW v \in FindTable(s, database, name), NEW u \in FindTable(s, database, name)
      PROVE  v = u
  <2>1. /\ v \in DOMAIN s.tables /\ u \in DOMAIN s.tables /\ s.tables[v].name = s.tables[u].name
        /\ s.tables[v].database \in FindDatabase(s, database)
        /\ s.tables[u].database \in FindDatabase(s, database)
    BY DEF FindTable
  <2> QED BY <1>1, <2>1 DEF UniqueNames
<1>3. ASSUME NEW p \in FindPartition(s, t, values), NEW q \in FindPartition(s, t, values)
      PROVE  p = q
  BY DEF FindPartition, UniqueNames
<1> QED BY <1>1, <1>2, <1>3

-----------------------------------------------------------------------------
(***************************************************************************)
(* Databases                                                               *)
(***************************************************************************)
LEMMA DatabasesWritten ==
  ASSUME NEW s, StoreShape(s), NEW new
  PROVE  [s EXCEPT !.databases = new] =
           [databases |-> new, tables |-> s.tables, partitions |-> s.partitions, facts |-> s.facts,
            health |-> s.health, running |-> s.running, revision |-> s.revision]
<1> DEFINE r0 == [databases |-> s.databases, tables |-> s.tables, partitions |-> s.partitions, facts |-> s.facts,
                  health |-> s.health, running |-> s.running, revision |-> s.revision]
<1>1. s = r0
  BY DEF StoreShape
<1>2. [r0 EXCEPT !.databases = new] =
        [databases |-> new, tables |-> s.tables, partitions |-> s.partitions, facts |-> s.facts,
         health |-> s.health, running |-> s.running, revision |-> s.revision]
  OBVIOUS
<1> HIDE DEF r0
<1> QED BY <1>1, <1>2

LEMMA CreateDatabaseKeepsOrder ==
  ASSUME NEW s, StoreGood(s), NEW op, CreateDatabaseRefusal(s, op) = "ok"
  PROVE  StoreGood(CreateDatabase(s, op))
<1> DEFINE d == NewRow(s.databases)
           new == With(s.databases, d, op.name)
           u == CreateDatabase(s, op)
<1>1. StoreTyped(s) /\ Parents(s) /\ UniqueNames(s) /\ RunsAreNamed(s) /\ StoreShape(s)
  BY DEF StoreGood, StoreTyped, RowsTyped
<1>2. \A e \in DOMAIN s.databases : s.databases[e] # op.name
  BY DEF CreateDatabaseRefusal, FindDatabase
<1>3. IsFiniteSet(DOMAIN s.databases) /\ DOMAIN s.databases \subseteq Nat \ {NoRow}
  BY <1>1 DEF StoreTyped, RowsTyped
<1>4. d \in Nat \ {NoRow} /\ d \notin DOMAIN s.databases
  BY <1>3, NewRowIsNew
<1>5. u = [s EXCEPT !.databases = new]
  BY DEF CreateDatabase
<1> HIDE DEF u, d
<1>6. DOMAIN new = DOMAIN s.databases \cup {d} /\ new[d] = op.name /\ \A e \in DOMAIN s.databases : new[e] = s.databases[e]
  BY <1>4 DEF With
<1> HIDE DEF new
<1>7. u = [databases |-> new, tables |-> s.tables, partitions |-> s.partitions, facts |-> s.facts,
           health |-> s.health, running |-> s.running, revision |-> s.revision]
  BY <1>1, <1>5, DatabasesWritten
<1>8. /\ u.databases = new /\ u.tables = s.tables /\ u.partitions = s.partitions /\ u.facts = s.facts
      /\ u.health = s.health /\ u.running = s.running /\ StoreShape(u)
  BY <1>7 DEF StoreShape
<1>9. IsFiniteSet(DOMAIN new)
  BY <1>3, <1>6, FS_AddElement
<1>10. \A e, f \in DOMAIN new : new[e] = new[f] => e = f
  BY <1>1, <1>2, <1>6 DEF UniqueNames
<1>11. \A t \in DOMAIN s.tables : TableTyped(s.tables[t]) /\ s.tables[t].database \in DOMAIN s.databases
  BY <1>1 DEF StoreTyped, RowsTyped, Parents
<1>12. RunsAreNamed(u)
  BY <1>1, <1>6, <1>8, <1>11 DEF RunsAreNamed
<1>13. \A t, v \in DOMAIN s.tables :
         s.tables[t].database = s.tables[v].database /\ s.tables[t].name = s.tables[v].name => t = v
  BY <1>1 DEF UniqueNames
<1>14. StoreGood(u)
  BY <1>3, <1>4, <1>6, <1>8, <1>9, <1>10, <1>11, <1>12, <1>13, NamesMayChange
<1> QED BY <1>14 DEF u

\* The runs of the tables of a renamed database are cancelled, or their names would be old.
LEMMA UpdateDatabaseKeepsOrder ==
  ASSUME NEW s, StoreGood(s), NEW op, UpdateDatabaseRefusal(s, op) = "ok"
  PROVE  StoreGood(UpdateDatabase(s, op))
<1> DEFINE d == Only(FindDatabase(s, op.old))
           rest == IF op.name = op.old THEN s.running ELSE Without(s.running, TablesOf(s, {d}))
           ready == IF op.name = op.old THEN s ELSE CancelRuns(s, TablesOf(s, {d}))
           new == [s.databases EXCEPT ![d] = op.name]
           u == UpdateDatabase(s, op)
<1>1. StoreTyped(s) /\ Parents(s) /\ UniqueNames(s) /\ RunsAreNamed(s) /\ StoreShape(s)
  BY DEF StoreGood, StoreTyped, RowsTyped
<1>2. d \in FindDatabase(s, op.old)
  BY OnlyIsFound DEF UpdateDatabaseRefusal
<1>3. d \in DOMAIN s.databases /\ s.databases[d] = op.old
  BY <1>2 DEF FindDatabase
<1>4. \A e \in DOMAIN s.databases : op.name # op.old => s.databases[e] # op.name
  BY DEF UpdateDatabaseRefusal, FindDatabase
<1>5. ready = [databases |-> s.databases, tables |-> s.tables, partitions |-> s.partitions, facts |-> s.facts,
               health |-> s.health, running |-> rest, revision |-> s.revision]
  BY <1>1, RunsCancelled DEF StoreShape
<1>6. u = [ready EXCEPT !.databases[d] = op.name]
  BY DEF UpdateDatabase
<1>7. \A t \in DOMAIN s.tables : s.tables[t].database = d => t \in TablesOf(s, {d})
  BY DEF TablesOf
<1>8. /\ DOMAIN rest \subseteq DOMAIN s.running
      /\ \A t \in DOMAIN rest : rest[t] = s.running[t]
      /\ op.name # op.old => \A t \in DOMAIN rest : t \notin TablesOf(s, {d})
  BY DEF Without
<1> HIDE DEF d, rest, u, ready
<1>9. StoreShape(ready) /\ ready.databases = s.databases /\ ready.tables = s.tables /\ ready.running = rest
      /\ ready.partitions = s.partitions /\ ready.facts = s.facts /\ ready.health = s.health
  BY <1>5 DEF StoreShape
<1>10. DOMAIN new = DOMAIN s.databases /\ new[d] = op.name /\ \A e \in DOMAIN s.databases \ {d} : new[e] = s.databases[e]
  BY <1>3
<1>11. u = [ready EXCEPT !.databases = new]
  BY <1>6, <1>9
<1> HIDE DEF new
<1>12. u = [databases |-> new, tables |-> ready.tables, partitions |-> ready.partitions, facts |-> ready.facts,
            health |-> ready.health, running |-> ready.running, revision |-> ready.revision]
  BY <1>9, <1>11, DatabasesWritten
<1>13. /\ u.databases = new /\ u.tables = s.tables /\ u.partitions = s.partitions /\ u.facts = s.facts
       /\ u.health = s.health /\ u.running = rest /\ StoreShape(u)
  BY <1>9, <1>12 DEF StoreShape
<1>14. IsFiniteSet(DOMAIN new) /\ DOMAIN new \subseteq Nat \ {NoRow}
  BY <1>1, <1>10 DEF StoreTyped, RowsTyped
<1>15. \A e, f \in DOMAIN new : new[e] = new[f] => e = f
  <2> SUFFICES ASSUME NEW e \in DOMAIN new, NEW f \in DOMAIN new, new[e] = new[f], e # f PROVE FALSE
    OBVIOUS
  <2>1. s.databases[e] # s.databases[f]
    BY <1>1, <1>10 DEF UniqueNames
  <2>2. CASE op.name = op.old
    BY <1>3, <1>10, <2>1, <2>2
  <2>3. CASE op.name # op.old
    BY <1>4, <1>10, <2>1, <2>3
  <2> QED BY <2>2, <2>3
<1>16. \A t \in DOMAIN s.tables : TableTyped(s.tables[t]) /\ s.tables[t].database \in DOMAIN s.databases
  BY <1>1 DEF StoreTyped, RowsTyped, Parents
<1>17. ASSUME NEW t \in DOMAIN u.running
       PROVE  t \in DOMAIN u.tables /\ u.running[t] = <<u.databases[u.tables[t].database], u.tables[t].name>>
  <2>1. t \in DOMAIN s.running /\ rest[t] = s.running[t]
    BY <1>8, <1>13
  <2>2. t \in DOMAIN s.tables /\ s.running[t] = <<s.databases[s.tables[t].database], s.tables[t].name>>
    BY <1>1, <2>1 DEF RunsAreNamed
  <2>3. s.databases[s.tables[t].database] = new[s.tables[t].database]
    <3>1. CASE op.name = op.old
      BY <1>3, <1>10, <1>16, <2>2, <3>1
    <3>2. CASE op.name # op.old
      BY <1>7, <1>8, <1>10, <1>13, <1>16, <2>2, <3>2
    <3> QED BY <3>1, <3>2
  <2> QED BY <1>13, <2>1, <2>2, <2>3
<1>18. RunsAreNamed(u)
  BY <1>17 DEF RunsAreNamed
<1>19. \A t, v \in DOMAIN s.tables :
         s.tables[t].database = s.tables[v].database /\ s.tables[t].name = s.tables[v].name => t = v
  BY <1>1 DEF UniqueNames
<1>20. StoreGood(u)
  BY <1>10, <1>13, <1>14, <1>15, <1>16, <1>18, <1>19, NamesMayChange
<1> QED BY <1>20 DEF u

\* What dropping tables leaves of databases, tables and runs.
LEMMA DropTablesLeaves ==
  ASSUME NEW s, StoreShape(s), NEW gone
  PROVE  LET u == DropTables(s, gone)
         IN /\ u.databases = s.databases
            /\ DOMAIN u.tables = DOMAIN s.tables \ gone
            /\ \A t \in DOMAIN u.tables : u.tables[t] = s.tables[t]
<1> DEFINE u == DropTables(s, gone)
           rows == PartitionsOf(s, gone)
           facts == Without(s.facts, rows)
           health == Without(ForgetIssues(s.health, rows), gone)
           running == Without(s.running, gone)
           partitions == Without(s.partitions, rows)
           tables == Without(s.tables, gone)
<1>1. u = [databases |-> s.databases, tables |-> tables, partitions |-> partitions, facts |-> facts,
           health |-> health, running |-> running, revision |-> s.revision]
  BY DroppedTables
<1>2. DOMAIN tables = DOMAIN s.tables \ gone /\ \A t \in DOMAIN s.tables \ gone : tables[t] = s.tables[t]
  BY DEF Without
<1> HIDE DEF u, rows, facts, health, running, partitions, tables
<1>3. u.databases = s.databases /\ u.tables = tables
  BY <1>1
<1>4. u.databases = s.databases /\ DOMAIN u.tables = DOMAIN s.tables \ gone
      /\ \A t \in DOMAIN u.tables : u.tables[t] = s.tables[t]
  BY <1>2, <1>3
<1> QED BY <1>4 DEF u

LEMMA DeleteDatabaseKeepsOrder ==
  ASSUME NEW s, StoreGood(s), NEW op
  PROVE  StoreGood(DeleteDatabase(s, op))
<1> DEFINE found == FindDatabase(s, op.name)
           gone == TablesOf(s, found)
           v == DropTables(s, gone)
           new == Without(v.databases, found)
           u == DeleteDatabase(s, op)
<1>1. StoreTyped(s) /\ Parents(s) /\ UniqueNames(s) /\ StoreShape(s)
  BY DEF StoreGood, StoreTyped, RowsTyped
<1>2. StoreGood(v)
  BY DropTablesKeepsOrder
<1>3. /\ v.databases = s.databases /\ DOMAIN v.tables = DOMAIN s.tables \ gone
      /\ \A t \in DOMAIN v.tables : v.tables[t] = s.tables[t]
  BY <1>1, DropTablesLeaves
<1>4. u = [v EXCEPT !.databases = new]
  BY DEF DeleteDatabase
<1>5. \A t \in DOMAIN s.tables : s.tables[t].database \in found => t \in gone
  BY DEF TablesOf
<1>6. /\ DOMAIN new = DOMAIN s.databases \ found
      /\ \A d \in DOMAIN new : new[d] = s.databases[d]
  BY <1>3 DEF Without
<1> HIDE DEF found, gone, v, new, u
<1>7. StoreTyped(v) /\ Parents(v) /\ UniqueNames(v) /\ RunsAreNamed(v) /\ StoreShape(v)
  BY <1>2 DEF StoreGood, StoreTyped, RowsTyped
<1>8. u = [databases |-> new, tables |-> v.tables, partitions |-> v.partitions, facts |-> v.facts,
           health |-> v.health, running |-> v.running, revision |-> v.revision]
  BY <1>4, <1>7, DatabasesWritten
<1>9. /\ u.databases = new /\ u.tables = v.tables /\ u.partitions = v.partitions /\ u.facts = v.facts
      /\ u.health = v.health /\ u.running = v.running /\ StoreShape(u)
  BY <1>8 DEF StoreShape
<1>10. IsFiniteSet(DOMAIN new) /\ DOMAIN new \subseteq Nat \ {NoRow}
  <2>1. DOMAIN new \in SUBSET DOMAIN s.databases
    BY <1>6
  <2> QED BY <1>1, <2>1, FS_Subset DEF StoreTyped, RowsTyped
<1>11. \A d, e \in DOMAIN new : new[d] = new[e] => d = e
  BY <1>1, <1>6 DEF UniqueNames
<1>12. \A t \in DOMAIN v.tables : TableTyped(v.tables[t]) /\ v.tables[t].database \in DOMAIN new
  BY <1>1, <1>3, <1>5, <1>6 DEF StoreTyped, RowsTyped, Parents
<1>13. \A t, x \in DOMAIN v.tables :
         v.tables[t].database = v.tables[x].database /\ v.tables[t].name = v.tables[x].name => t = x
  BY <1>7 DEF UniqueNames
<1>14. ASSUME NEW t \in DOMAIN u.running
       PROVE  t \in DOMAIN u.tables /\ u.running[t] = <<u.databases[u.tables[t].database], u.tables[t].name>>
  <2>1. t \in DOMAIN v.tables /\ v.running[t] = <<v.databases[v.tables[t].database], v.tables[t].name>>
    BY <1>7, <1>9 DEF RunsAreNamed
  <2>2. v.databases[v.tables[t].database] = new[v.tables[t].database]
    BY <1>3, <1>6, <1>12, <2>1
  <2> QED BY <1>9, <2>1, <2>2
<1>15. RunsAreNamed(u)
  BY <1>14 DEF RunsAreNamed
<1>16. StoreGood(u)
  BY <1>2, <1>9, <1>10, <1>11, <1>12, <1>13, <1>15, NamesMayChange
<1> QED BY <1>16 DEF u

-----------------------------------------------------------------------------
(***************************************************************************)
(* Tables                                                                  *)
(***************************************************************************)
LEMMA HealthWritten ==
  ASSUME NEW s, StoreShape(s), NEW new
  PROVE  [s EXCEPT !.health = new] =
           [databases |-> s.databases, tables |-> s.tables, partitions |-> s.partitions, facts |-> s.facts,
            health |-> new, running |-> s.running, revision |-> s.revision]
<1> DEFINE r0 == [databases |-> s.databases, tables |-> s.tables, partitions |-> s.partitions, facts |-> s.facts,
                  health |-> s.health, running |-> s.running, revision |-> s.revision]
<1>1. s = r0
  BY DEF StoreShape
<1>2. [r0 EXCEPT !.health = new] =
        [databases |-> s.databases, tables |-> s.tables, partitions |-> s.partitions, facts |-> s.facts,
         health |-> new, running |-> s.running, revision |-> s.revision]
  OBVIOUS
<1> HIDE DEF r0
<1> QED BY <1>1, <1>2

LEMMA NewTableIsTyped ==
  ASSUME NEW database, NEW op, NEW now
  PROVE  LET table == NewTable(database, op, now)
         IN TableTyped(table) /\ table.database = database /\ table.name = op.name /\ table.keys = op.keys
<1> DEFINE table == NewTable(database, op, now)
<1>1. table = [database |-> database, name |-> op.name, keys |-> op.keys, columns |-> op.columns,
               location |-> op.location, previous |-> op.previous, version |-> 0, archive |-> << >>, created |-> now]
  BY DEF NewTable
<1>2. /\ table.database = database /\ table.name = op.name /\ table.keys = op.keys
      /\ table.version = 0 /\ table.archive = << >>
      /\ table = [database |-> table.database, name |-> table.name, keys |-> table.keys, columns |-> table.columns,
                  location |-> table.location, previous |-> table.previous, version |-> table.version,
                  archive |-> table.archive, created |-> table.created]
  BY <1>1
<1> HIDE DEF table
<1>3. /\ DOMAIN table.archive = {}
      /\ table.archive \in Seq({table.archive[i] : i \in DOMAIN table.archive})
  BY <1>2
<1> QED BY <1>2, <1>3 DEF TableTyped, table

LEMMA CreateTableKeepsOrder ==
  ASSUME NEW s, StoreGood(s), NEW op, CreateTableRefusal(s, op) = "ok"
  PROVE  StoreGood(CreateTable(s, op))
<1> DEFINE t == NewRow(s.tables)
           d == Only(FindDatabase(s, op.database))
           table == NewTable(d, op, s.revision)
           w == WriteTable(s, t, table)
           blank == [arity |-> NoIssue, conversion |-> [i \in DOMAIN op.keys |-> NoIssue]]
           u == CreateTable(s, op)
           more == With(s.tables, t, table)
<1>1. StoreTyped(s) /\ Parents(s) /\ UniqueNames(s) /\ FreshFacts(s) /\ RunsAreNamed(s) /\ StoreShape(s)
      /\ PartitionsTyped(s.partitions) /\ DOMAIN s.health = DOMAIN s.tables
  BY DEF StoreGood, StoreTyped, RowsTyped
<1>2. d \in FindDatabase(s, op.database) /\ FindTable(s, op.database, op.name) = {}
  BY OnlyIsFound DEF CreateTableRefusal
<1>3. d \in DOMAIN s.databases
  BY <1>2 DEF FindDatabase
<1>4. \A v \in DOMAIN s.tables : s.tables[v].database = d => s.tables[v].name # op.name
  BY <1>2 DEF FindTable
<1>5. IsFiniteSet(DOMAIN s.tables) /\ DOMAIN s.tables \subseteq Nat \ {NoRow}
  BY <1>1 DEF StoreTyped, RowsTyped
<1>6. t \in Nat \ {NoRow} /\ t \notin DOMAIN s.tables
  BY <1>5, NewRowIsNew
<1>7. TableTyped(table) /\ table.database = d /\ table.name = op.name /\ table.keys = op.keys
  BY NewTableIsTyped
<1>8. u = [w EXCEPT !.health = With(w.health, t, blank)]
  BY DEF CreateTable
<1> HIDE DEF u, t, d, table, blank
<1>9. w = [databases |-> s.databases, tables |-> more, partitions |-> s.partitions,
            facts |-> s.facts, health |-> s.health, running |-> s.running, revision |-> s.revision]
  BY <1>1, TableWritten
<1>10. /\ DOMAIN more = DOMAIN s.tables \cup {t} /\ more[t] = table
       /\ \A v \in DOMAIN s.tables : more[v] = s.tables[v]
  BY <1>6 DEF With
<1> HIDE DEF w, more
<1>11. /\ w.databases = s.databases /\ w.tables = more /\ w.partitions = s.partitions /\ w.facts = s.facts
       /\ w.health = s.health /\ w.running = s.running /\ StoreShape(w)
  BY <1>9 DEF StoreShape
<1>12. RowsTyped(w)
  <2>1. IsFiniteSet(DOMAIN more)
    BY <1>5, <1>10, FS_AddElement
  <2> QED BY <1>1, <1>5, <1>6, <1>7, <1>10, <1>11, <2>1 DEF StoreTyped, RowsTyped
<1>13. Parents(w)
  BY <1>1, <1>3, <1>7, <1>10, <1>11 DEF Parents
<1>14. UniqueNames(w)
  <2>1. \A a, b \in DOMAIN w.databases : w.databases[a] = w.databases[b] => a = b
    BY <1>1, <1>11 DEF UniqueNames
  <2>2. \A p, q \in DOMAIN w.partitions :
          w.partitions[p].table = w.partitions[q].table /\ w.partitions[p].values = w.partitions[q].values => p = q
    BY <1>1, <1>11 DEF UniqueNames
  <2>3. ASSUME NEW a \in DOMAIN more, NEW b \in DOMAIN more,
               more[a].database = more[b].database, more[a].name = more[b].name
        PROVE  a = b
    BY <1>1, <1>4, <1>7, <1>10, <2>3 DEF UniqueNames
  <2> QED BY <1>11, <2>1, <2>2, <2>3 DEF UniqueNames
<1>15. RunsAreNamed(w)
  BY <1>1, <1>10, <1>11 DEF RunsAreNamed
<1>16. \A p \in DOMAIN s.partitions : s.partitions[p].table \in DOMAIN s.tables
  BY <1>1 DEF Parents
<1>17. \A p \in DOMAIN w.partitions :
         w.facts[p] = QueryFacts(w.tables[w.partitions[p].table].keys, w.partitions[p].values)
  BY <1>1, <1>10, <1>11, <1>16 DEF FreshFacts
<1>18. ASSUME NEW v \in DOMAIN s.tables
       PROVE  w.health[v] = HealthOf(w, v)
  <2>1. PartitionsOf(w, {v}) = PartitionsOf(s, {v})
    BY <1>11 DEF PartitionsOf
  <2>2. w.tables[v].keys = s.tables[v].keys
    BY <1>10, <1>11
  <2>3. HealthOf(w, v) = HealthOf(s, v)
    BY <1>1, <1>11, <2>1, <2>2, HealthIsSame
  <2> QED BY <1>1, <1>11, <2>3 DEF FreshFacts
<1>19. HealthOf(w, t) = blank
  <2>1. PartitionsOf(w, {t}) = {}
    BY <1>6, <1>11, <1>16 DEF PartitionsOf
  <2>2. w.tables[t].keys = op.keys
    BY <1>7, <1>10, <1>11
  <2>3. Issue(w, {}) = NoIssue
    BY DEF Issue
  <2>4. HealthOf(w, t) =
          [arity |-> Issue(w, {p \in {} : DOMAIN w.facts[p].projections # DOMAIN op.keys}),
           conversion |-> [i \in DOMAIN op.keys |->
              Issue(w, {p \in {} : i \in DOMAIN w.facts[p].projections /\ ~w.facts[p].projections[i].valid})]]
    BY <2>1, <2>2 DEF HealthOf
  <2>5. /\ {p \in {} : DOMAIN w.facts[p].projections # DOMAIN op.keys} = {}
        /\ \A i : {p \in {} : i \in DOMAIN w.facts[p].projections /\ ~w.facts[p].projections[i].valid} = {}
    OBVIOUS
  <2> QED BY <2>3, <2>4, <2>5 DEF blank
<1>20. StoreGood(RefreshHealth(w, t))
  BY <1>1, <1>10, <1>11, <1>12, <1>13, <1>14, <1>15, <1>17, <1>18, RefreshPutsInOrder
<1>21. u = RefreshHealth(w, t)
  BY <1>8, <1>11, <1>19, HealthRefreshed, HealthWritten
<1> QED BY <1>20, <1>21 DEF u

LEMMA RevisedFields ==
  ASSUME NEW d, NEW n, NEW k, NEW c, NEW l, NEW p, NEW v, NEW a, NEW b,
         NEW n2, NEW k2, NEW c2, NEW l2, NEW p2, NEW v2, NEW a2
  PROVE  [[database |-> d, name |-> n, keys |-> k, columns |-> c, location |-> l, previous |-> p,
           version |-> v, archive |-> a, created |-> b]
          EXCEPT !.name = n2, !.keys = k2, !.columns = c2, !.location = l2, !.previous = p2,
                 !.version = v2, !.archive = a2] =
         [database |-> d, name |-> n2, keys |-> k2, columns |-> c2, location |-> l2, previous |-> p2,
          version |-> v2, archive |-> a2, created |-> b]
<1> DEFINE r0 == [database |-> d, name |-> n, keys |-> k, columns |-> c, location |-> l, previous |-> p,
                  version |-> v, archive |-> a, created |-> b]
           r1 == [database |-> d, name |-> n2, keys |-> k, columns |-> c, location |-> l, previous |-> p,
                  version |-> v, archive |-> a, created |-> b]
           r2 == [database |-> d, name |-> n2, keys |-> k2, columns |-> c, location |-> l, previous |-> p,
                  version |-> v, archive |-> a, created |-> b]
           r3 == [database |-> d, name |-> n2, keys |-> k2, columns |-> c2, location |-> l, previous |-> p,
                  version |-> v, archive |-> a, created |-> b]
           r4 == [database |-> d, name |-> n2, keys |-> k2, columns |-> c2, location |-> l2, previous |-> p,
                  version |-> v, archive |-> a, created |-> b]
           r5 == [database |-> d, name |-> n2, keys |-> k2, columns |-> c2, location |-> l2, previous |-> p2,
                  version |-> v, archive |-> a, created |-> b]
           r6 == [database |-> d, name |-> n2, keys |-> k2, columns |-> c2, location |-> l2, previous |-> p2,
                  version |-> v2, archive |-> a, created |-> b]
           r7 == [database |-> d, name |-> n2, keys |-> k2, columns |-> c2, location |-> l2, previous |-> p2,
                  version |-> v2, archive |-> a2, created |-> b]
<1>1. [r0 EXCEPT !.name = n2] = r1 /\ [r1 EXCEPT !.keys = k2] = r2
  OBVIOUS
<1>2. [r2 EXCEPT !.columns = c2] = r3 /\ [r3 EXCEPT !.location = l2] = r4
  OBVIOUS
<1>3. [r4 EXCEPT !.previous = p2] = r5 /\ [r5 EXCEPT !.version = v2] = r6
  OBVIOUS
<1>4. [r6 EXCEPT !.archive = a2] = r7
  OBVIOUS
<1> HIDE DEF r1, r2, r3, r4, r5, r6
<1>5. [r0 EXCEPT !.name = n2, !.keys = k2, !.columns = c2, !.location = l2, !.previous = p2,
                 !.version = v2, !.archive = a2] = r7
  <2> HIDE DEF r0, r7
  <2> QED BY <1>1, <1>2, <1>3, <1>4
<1> QED BY <1>5

\* A revised table is typed: the version it had is archived, and its own is greater.
LEMMA RevisedIsTyped ==
  ASSUME NEW table, TableTyped(table), NEW op
  PROVE  LET new == Revise(table, op)
         IN TableTyped(new) /\ new.database = table.database /\ new.name = op.name /\ new.keys = op.keys
<1> DEFINE new == Revise(table, op)
           r0 == [database |-> table.database, name |-> table.name, keys |-> table.keys, columns |-> table.columns,
                  location |-> table.location, previous |-> table.previous, version |-> table.version,
                  archive |-> table.archive, created |-> table.created]
           entry == [version |-> table.version, location |-> table.location]
           archive == IF op.skipArchive THEN table.archive ELSE Append(table.archive, entry)
           version == table.version + 1
<1>1. table = r0
  BY DEF TableTyped
<1>2. new = [table EXCEPT !.name = op.name, !.keys = op.keys, !.columns = op.columns, !.location = op.location,
                          !.previous = op.previous, !.version = version, !.archive = archive]
  BY DEF Revise
<1>3. entry.version = table.version
  OBVIOUS
<1> HIDE DEF new, entry, archive, version, r0
<1>4. new = [r0 EXCEPT !.name = op.name, !.keys = op.keys, !.columns = op.columns, !.location = op.location,
                       !.previous = op.previous, !.version = version, !.archive = archive]
  BY <1>1, <1>2
<1>5. new = [database |-> table.database, name |-> op.name, keys |-> op.keys, columns |-> op.columns,
             location |-> op.location, previous |-> op.previous, version |-> version, archive |-> archive,
             created |-> table.created]
  BY <1>4, RevisedFields DEF r0
<1>6. /\ new.database = table.database /\ new.name = op.name /\ new.keys = op.keys
      /\ new.version = version /\ new.archive = archive
      /\ new = [database |-> new.database, name |-> new.name, keys |-> new.keys, columns |-> new.columns,
                location |-> new.location, previous |-> new.previous, version |-> new.version,
                archive |-> new.archive, created |-> new.created]
  BY <1>5
<1> DEFINE a == table.archive
           S == {a[i] : i \in DOMAIN a}
<1>7. table.version \in Nat /\ a \in Seq(S) /\ version = table.version + 1
  BY DEF TableTyped, version
<1>8. \A i \in DOMAIN a :
        /\ a[i].version \in Nat /\ a[i].version < table.version
        /\ \A j \in 1 .. i - 1 : a[j].version < a[i].version
  BY DEF TableTyped
<1> HIDE DEF a, S
<1>9. /\ archive \in Seq({archive[i] : i \in DOMAIN archive})
      /\ \A i \in DOMAIN archive :
           /\ archive[i].version \in Nat /\ archive[i].version < version
           /\ \A j \in 1 .. i - 1 : archive[j].version < archive[i].version
  <2>1. CASE archive = a
    <3>1. archive \in Seq({archive[i] : i \in DOMAIN archive})
      BY <1>7, <2>1 DEF S
    <3>2. \A i \in DOMAIN archive : archive[i].version \in Nat /\ archive[i].version < version
      BY <1>7, <1>8, <2>1
    <3> QED BY <1>8, <2>1, <3>1, <3>2
  <2>2. CASE archive = Append(a, entry)
    <3> DEFINE n == Len(a)
    <3>1. n \in Nat /\ DOMAIN a = 1 .. n /\ a \in Seq(S \cup {entry}) /\ entry \in S \cup {entry}
      BY <1>7
    <3>2. /\ archive \in Seq(S \cup {entry}) /\ Len(archive) = n + 1 /\ DOMAIN archive = 1 .. n + 1
          /\ archive[n + 1] = entry /\ \A i \in 1 .. n : archive[i] = a[i]
      BY <2>2, <3>1
    <3> HIDE DEF n
    <3>3. archive \in Seq({archive[i] : i \in DOMAIN archive})
      <4> DEFINE T == {archive[i] : i \in DOMAIN archive}
      <4>1. \A i \in 1 .. Len(archive) : archive[i] \in T
        BY <3>2
      <4> HIDE DEF T
      <4>2. archive = [i \in 1 .. Len(archive) |-> archive[i]] /\ Len(archive) \in Nat
        BY <3>1, <3>2
      <4>3. archive \in Seq(T)
        BY <4>1, <4>2
      <4> QED BY <4>3 DEF T
    <3>4. ASSUME NEW i \in DOMAIN archive
          PROVE  /\ archive[i].version \in Nat /\ archive[i].version < version
                 /\ \A j \in 1 .. i - 1 : archive[j].version < archive[i].version
      <4>1. CASE i = n + 1
        <5>1. archive[i].version = table.version
          BY <1>3, <3>2, <4>1
        <5>2. \A j \in 1 .. i - 1 : archive[j] = a[j] /\ j \in DOMAIN a
          BY <3>1, <3>2, <4>1
        <5> QED BY <1>7, <1>8, <5>1, <5>2
      <4>2. CASE i \in 1 .. n
        <5>1. archive[i] = a[i] /\ i \in DOMAIN a
          BY <3>1, <3>2, <4>2
        <5>2. \A j \in 1 .. i - 1 : archive[j] = a[j]
          BY <3>1, <3>2, <4>2
        <5> QED BY <1>7, <1>8, <5>1, <5>2
      <4> QED BY <3>1, <3>2, <4>1, <4>2
    <3> QED BY <3>3, <3>4
  <2> QED BY <2>1, <2>2 DEF archive, a
<1>10. TableTyped(new)
  BY <1>6, <1>7, <1>9 DEF TableTyped
<1> QED BY <1>6, <1>10 DEF new

LEMMA FactsWritten ==
  ASSUME NEW s, StoreShape(s), NEW new
  PROVE  [s EXCEPT !.facts = new] =
           [databases |-> s.databases, tables |-> s.tables, partitions |-> s.partitions, facts |-> new,
            health |-> s.health, running |-> s.running, revision |-> s.revision]
<1> DEFINE r0 == [databases |-> s.databases, tables |-> s.tables, partitions |-> s.partitions, facts |-> s.facts,
                  health |-> s.health, running |-> s.running, revision |-> s.revision]
<1>1. s = r0
  BY DEF StoreShape
<1>2. [r0 EXCEPT !.facts = new] =
        [databases |-> s.databases, tables |-> s.tables, partitions |-> s.partitions, facts |-> new,
         health |-> s.health, running |-> s.running, revision |-> s.revision]
  OBVIOUS
<1> HIDE DEF r0
<1> QED BY <1>1, <1>2

\* After a change of the partition keys of a table the facts of its partitions are written anew.
LEMMA RefreshFactsPutsInOrder ==
  ASSUME NEW w, StoreTyped(w), Parents(w), UniqueNames(w), RunsAreNamed(w), NEW t \in DOMAIN w.tables,
         \A p \in DOMAIN w.partitions : w.partitions[p].table # t =>
           w.facts[p] = QueryFacts(w.tables[w.partitions[p].table].keys, w.partitions[p].values),
         \A x \in DOMAIN w.tables \ {t} : w.health[x] = HealthOf(w, x)
  PROVE  StoreGood(RefreshFacts(w, t))
<1> DEFINE rows == PartitionsOf(w, {t})
           facts == [p \in DOMAIN w.facts |->
                       IF p \in rows THEN QueryFacts(w.tables[t].keys, w.partitions[p].values) ELSE w.facts[p]]
           v == [w EXCEPT !.facts = facts]
<1>1. StoreShape(w) /\ PartitionsTyped(w.partitions) /\ DOMAIN w.facts = DOMAIN w.partitions
      /\ DOMAIN w.health = DOMAIN w.tables
  BY DEF StoreTyped, RowsTyped
<1>2. RefreshFacts(w, t) = RefreshHealth(v, t)
  BY DEF RefreshFacts
<1>3. /\ DOMAIN facts = DOMAIN w.partitions
      /\ \A p \in DOMAIN w.partitions :
           /\ p \in rows => facts[p] = QueryFacts(w.tables[t].keys, w.partitions[p].values)
           /\ p \notin rows => facts[p] = w.facts[p]
  BY <1>1
<1>4. \A p \in DOMAIN w.partitions : p \in rows <=> w.partitions[p].table = t
  BY DEF PartitionsOf
<1> HIDE DEF rows, facts
<1>5. v = [databases |-> w.databases, tables |-> w.tables, partitions |-> w.partitions, facts |-> facts,
           health |-> w.health, running |-> w.running, revision |-> w.revision]
  BY <1>1, FactsWritten
<1> HIDE DEF v
<1>6. /\ v.databases = w.databases /\ v.tables = w.tables /\ v.partitions = w.partitions /\ v.facts = facts
      /\ v.health = w.health /\ v.running = w.running /\ StoreShape(v)
  BY <1>5 DEF StoreShape
<1>7. RowsTyped(v)
  BY <1>3, <1>6 DEF StoreTyped, RowsTyped
<1>8. Parents(v) /\ UniqueNames(v) /\ RunsAreNamed(v)
  BY <1>6 DEF Parents, UniqueNames, RunsAreNamed
<1>9. \A p \in DOMAIN v.partitions :
        v.facts[p] = QueryFacts(v.tables[v.partitions[p].table].keys, v.partitions[p].values)
  BY <1>3, <1>4, <1>6
<1>10. ASSUME NEW x \in DOMAIN w.tables \ {t}
       PROVE  v.health[x] = HealthOf(v, x)
  <2>1. PartitionsOf(v, {x}) = PartitionsOf(w, {x})
    BY <1>6 DEF PartitionsOf
  <2>2. \A p \in PartitionsOf(w, {x}) : v.partitions[p] = w.partitions[p] /\ v.facts[p] = w.facts[p]
    BY <1>3, <1>4, <1>6 DEF PartitionsOf
  <2>3. HealthOf(v, x) = HealthOf(w, x)
    BY <1>1, <1>6, <2>1, <2>2, HealthIsSame
  <2> QED BY <1>6, <2>3
<1>11. StoreGood(RefreshHealth(v, t))
  BY <1>1, <1>6, <1>7, <1>8, <1>9, <1>10, RefreshPutsInOrder
<1> QED BY <1>2, <1>11

\* A renamed table loses its run in the same transaction, and changed keys have the facts rewritten.
LEMMA UpdateTableKeepsOrder ==
  ASSUME NEW s, StoreGood(s), NEW op, UpdateTableRefusal(s, op) = "ok"
  PROVE  StoreGood(UpdateTable(s, op))
<1> DEFINE found == FindTable(s, op.database, op.old)
           t == Only(found)
           rest == IF op.name = op.old THEN s.running ELSE Without(s.running, {t})
           ready == IF op.name = op.old THEN s ELSE CancelRuns(s, {t})
           table == Revise(ready.tables[t], op)
           more == With(s.tables, t, table)
           w == WriteTable(ready, t, table)
           u == UpdateTable(s, op)
<1>1. StoreTyped(s) /\ Parents(s) /\ UniqueNames(s) /\ FreshFacts(s) /\ RunsAreNamed(s) /\ StoreShape(s)
      /\ PartitionsTyped(s.partitions)
  BY DEF StoreGood, StoreTyped, RowsTyped
<1>2. found # {} /\ (op.name # op.old => FindTable(s, op.database, op.name) = {})
  BY DEF UpdateTableRefusal
<1>3. t \in found
  BY <1>2, OnlyIsFound
<1>4. t \in DOMAIN s.tables /\ s.tables[t].name = op.old /\ s.tables[t].database \in FindDatabase(s, op.database)
  BY <1>3 DEF FindTable
<1>5. \A v \in DOMAIN s.tables :
        op.name # op.old /\ s.tables[v].database = s.tables[t].database => s.tables[v].name # op.name
  BY <1>2, <1>4 DEF FindTable
<1>6. ready = [databases |-> s.databases, tables |-> s.tables, partitions |-> s.partitions, facts |-> s.facts,
               health |-> s.health, running |-> rest, revision |-> s.revision]
  BY <1>1, RunsCancelled DEF StoreShape
<1>7. u = IF s.tables[t].keys = op.keys THEN w ELSE RefreshFacts(w, t)
  BY DEF UpdateTable
<1>8. /\ DOMAIN rest \subseteq DOMAIN s.running /\ \A x \in DOMAIN rest : rest[x] = s.running[x]
      /\ op.name # op.old => t \notin DOMAIN rest
  BY DEF Without
<1> HIDE DEF found, t, rest, ready, u
<1>9. StoreShape(ready) /\ ready.databases = s.databases /\ ready.tables = s.tables /\ ready.running = rest
      /\ ready.partitions = s.partitions /\ ready.facts = s.facts /\ ready.health = s.health
  BY <1>6 DEF StoreShape
<1>10. TableTyped(table) /\ table.database = s.tables[t].database /\ table.name = op.name /\ table.keys = op.keys
  BY <1>1, <1>4, <1>9, RevisedIsTyped DEF StoreTyped, RowsTyped
<1>11. /\ DOMAIN more = DOMAIN s.tables /\ more[t] = table
       /\ \A x \in DOMAIN s.tables \ {t} : more[x] = s.tables[x]
  BY <1>4 DEF With
<1> HIDE DEF table
<1>12. w = [databases |-> ready.databases, tables |-> With(ready.tables, t, table), partitions |-> ready.partitions,
            facts |-> ready.facts, health |-> ready.health, running |-> ready.running, revision |-> ready.revision]
  BY <1>9, TableWritten
<1> HIDE DEF w
<1>13. w.tables = more
  BY <1>9, <1>12
<1> HIDE DEF more
<1>14. /\ w.databases = s.databases /\ w.partitions = s.partitions /\ w.facts = s.facts
       /\ w.health = s.health /\ w.running = rest /\ StoreShape(w)
  BY <1>9, <1>12 DEF StoreShape
<1>15. \A x, y \in DOMAIN more : more[x].database = more[y].database /\ more[x].name = more[y].name => x = y
  <2> SUFFICES ASSUME NEW x \in DOMAIN more, NEW y \in DOMAIN more, more[x].database = more[y].database,
                      more[x].name = more[y].name, x # y
               PROVE  FALSE
    OBVIOUS
  <2>1. \/ s.tables[x].database # s.tables[y].database
        \/ s.tables[x].name # s.tables[y].name
    BY <1>1, <1>11 DEF UniqueNames
  <2>2. CASE x = t
    BY <1>4, <1>5, <1>10, <1>11, <2>1, <2>2
  <2>3. CASE y = t
    BY <1>4, <1>5, <1>10, <1>11, <2>1, <2>3
  <2>4. CASE x # t /\ y # t
    BY <1>11, <2>1, <2>4
  <2> QED BY <2>2, <2>3, <2>4
<1>16. ASSUME NEW x \in DOMAIN w.running
       PROVE  x \in DOMAIN w.tables /\ w.running[x] = <<w.databases[w.tables[x].database], w.tables[x].name>>
  <2>1. x \in DOMAIN s.running /\ rest[x] = s.running[x]
    BY <1>8, <1>14
  <2>2. x \in DOMAIN s.tables /\ s.running[x] = <<s.databases[s.tables[x].database], s.tables[x].name>>
    BY <1>1, <2>1 DEF RunsAreNamed
  <2>3. more[x].database = s.tables[x].database /\ more[x].name = s.tables[x].name
    <3>1. CASE x = t
      BY <1>4, <1>8, <1>10, <1>11, <1>14, <3>1
    <3>2. CASE x # t
      BY <1>11, <2>2, <3>2
    <3> QED BY <3>1, <3>2
  <2> QED BY <1>11, <1>13, <1>14, <2>1, <2>2, <2>3
<1>17. RunsAreNamed(w)
  BY <1>16 DEF RunsAreNamed
<1>18. \A x \in DOMAIN more : TableTyped(more[x]) /\ more[x].database \in DOMAIN s.databases
  BY <1>1, <1>4, <1>10, <1>11 DEF StoreTyped, RowsTyped, Parents
<1>19. IsFiniteSet(DOMAIN s.databases) /\ DOMAIN s.databases \subseteq Nat \ {NoRow}
       /\ \A d, e \in DOMAIN s.databases : s.databases[d] = s.databases[e] => d = e
  BY <1>1 DEF StoreTyped, RowsTyped, UniqueNames
<1>20. CASE s.tables[t].keys = op.keys
  <2>1. \A x \in DOMAIN more : more[x].keys = s.tables[x].keys
    BY <1>10, <1>11, <1>20
  <2>2. StoreGood(w)
    BY <1>11, <1>13, <1>14, <1>15, <1>17, <1>18, <1>19, <2>1, NamesMayChange
  <2> QED BY <1>7, <1>20, <2>2 DEF u
<1>21. CASE s.tables[t].keys # op.keys
  <2>1. StoreTyped(w)
    BY <1>1, <1>11, <1>13, <1>14, <1>18 DEF StoreTyped, RowsTyped
  <2>2. Parents(w)
    BY <1>1, <1>11, <1>13, <1>14, <1>18 DEF Parents
  <2>3. UniqueNames(w)
    BY <1>1, <1>13, <1>14, <1>15 DEF UniqueNames
  <2>4. ASSUME NEW p \in DOMAIN w.partitions, w.partitions[p].table # t
        PROVE  w.facts[p] = QueryFacts(w.tables[w.partitions[p].table].keys, w.partitions[p].values)
    BY <1>1, <1>11, <1>13, <1>14, <2>4 DEF FreshFacts, Parents
  <2>5. ASSUME NEW x \in DOMAIN w.tables \ {t}
        PROVE  w.health[x] = HealthOf(w, x)
    <3>1. PartitionsOf(w, {x}) = PartitionsOf(s, {x})
      BY <1>14 DEF PartitionsOf
    <3>2. w.tables[x].keys = s.tables[x].keys
      BY <1>11, <1>13
    <3>3. HealthOf(w, x) = HealthOf(s, x)
      BY <1>1, <1>14, <3>1, <3>2, HealthIsSame
    <3> QED BY <1>1, <1>11, <1>13, <1>14, <3>3 DEF FreshFacts
  <2>6. StoreGood(RefreshFacts(w, t))
    BY <1>4, <1>11, <1>13, <1>17, <2>1, <2>2, <2>3, <2>4, <2>5, RefreshFactsPutsInOrder
  <2> QED BY <1>7, <1>21, <2>6 DEF u
<1> QED BY <1>20, <1>21 DEF u

LEMMA DeleteTableKeepsOrder ==
  ASSUME NEW s, StoreGood(s), NEW op
  PROVE  StoreGood(DeleteTable(s, op))
BY DropTablesKeepsOrder DEF DeleteTable

-----------------------------------------------------------------------------
(***************************************************************************)
(* Partitions                                                              *)
(***************************************************************************)
LEMMA PartitionsWritten ==
  ASSUME NEW s, StoreShape(s), NEW new, NEW facts
  PROVE  [s EXCEPT !.partitions = new, !.facts = facts] =
           [databases |-> s.databases, tables |-> s.tables, partitions |-> new, facts |-> facts,
            health |-> s.health, running |-> s.running, revision |-> s.revision]
<1> DEFINE r0 == [databases |-> s.databases, tables |-> s.tables, partitions |-> s.partitions, facts |-> s.facts,
                  health |-> s.health, running |-> s.running, revision |-> s.revision]
           r1 == [databases |-> s.databases, tables |-> s.tables, partitions |-> new, facts |-> s.facts,
                  health |-> s.health, running |-> s.running, revision |-> s.revision]
           r2 == [databases |-> s.databases, tables |-> s.tables, partitions |-> new, facts |-> facts,
                  health |-> s.health, running |-> s.running, revision |-> s.revision]
<1>1. s = r0
  BY DEF StoreShape
<1>2. [r0 EXCEPT !.partitions = new] = r1
  OBVIOUS
<1>3. [r1 EXCEPT !.facts = facts] = r2
  OBVIOUS
<1> HIDE DEF r0, r1
<1>4. [r0 EXCEPT !.partitions = new, !.facts = facts] = r2
  <2> HIDE DEF r2
  <2> QED BY <1>2, <1>3
<1> QED BY <1>1, <1>4

\* A partition whose values no other one of its table has may be written, with its facts.
LEMMA WritePartitionKeepsOrder ==
  ASSUME NEW s, StoreGood(s), NEW p \in Nat \ {NoRow}, NEW t \in DOMAIN s.tables, NEW values \in PartitionKey,
         p \in DOMAIN s.partitions => s.partitions[p].table = t,
         \A q \in DOMAIN s.partitions \ {p} : ~(s.partitions[q].table = t /\ s.partitions[q].values = values)
  PROVE  StoreGood(WritePartition(s, p, [table |-> t, values |-> values]))
<1> DEFINE row == [table |-> t, values |-> values]
           fact == QueryFacts(s.tables[t].keys, values)
           partitions == With(s.partitions, p, row)
           facts == With(s.facts, p, fact)
           w == [s EXCEPT !.partitions = partitions, !.facts = facts]
           u == WritePartition(s, p, row)
<1>1. StoreTyped(s) /\ Parents(s) /\ UniqueNames(s) /\ FreshFacts(s) /\ RunsAreNamed(s) /\ StoreShape(s)
      /\ PartitionsTyped(s.partitions) /\ DOMAIN s.facts = DOMAIN s.partitions /\ DOMAIN s.health = DOMAIN s.tables
  BY DEF StoreGood, StoreTyped, RowsTyped
<1>2. row.table = t /\ row.values = values
  OBVIOUS
<1>3. u = RefreshHealth(w, t)
  <2> HIDE DEF row
  <2> QED BY <1>2 DEF WritePartition
<1>4. PartitionsTyped(partitions)
  BY <1>1, PartitionsWithTyped
<1> HIDE DEF row, fact, u
<1>5. /\ DOMAIN partitions = DOMAIN s.partitions \cup {p} /\ partitions[p] = row
      /\ \A q \in DOMAIN s.partitions \ {p} : partitions[q] = s.partitions[q]
  BY DEF With
<1>6. /\ DOMAIN facts = DOMAIN s.partitions \cup {p} /\ facts[p] = fact
      /\ \A q \in DOMAIN s.partitions \ {p} : facts[q] = s.facts[q]
  BY <1>1 DEF With
<1> HIDE DEF partitions, facts
<1>7. w = [databases |-> s.databases, tables |-> s.tables, partitions |-> partitions, facts |-> facts,
           health |-> s.health, running |-> s.running, revision |-> s.revision]
  BY <1>1, PartitionsWritten
<1> HIDE DEF w
<1>8. /\ w.databases = s.databases /\ w.tables = s.tables /\ w.partitions = partitions /\ w.facts = facts
      /\ w.health = s.health /\ w.running = s.running /\ StoreShape(w)
  BY <1>7 DEF StoreShape
<1>9. RowsTyped(w)
  BY <1>1, <1>4, <1>5, <1>6, <1>8 DEF StoreTyped, RowsTyped
<1>10. Parents(w)
  BY <1>1, <1>2, <1>5, <1>8 DEF Parents
<1>11. UniqueNames(w)
  <2>1. ASSUME NEW a \in DOMAIN partitions, NEW b \in DOMAIN partitions,
               partitions[a].table = partitions[b].table, partitions[a].values = partitions[b].values, a # b
        PROVE  FALSE
    <3>1. CASE a = p
      BY <1>2, <1>5, <2>1, <3>1
    <3>2. CASE b = p
      BY <1>2, <1>5, <2>1, <3>2
    <3>3. CASE a # p /\ b # p
      BY <1>1, <1>5, <2>1, <3>3 DEF UniqueNames
    <3> QED BY <3>1, <3>2, <3>3
  <2>2. /\ \A d, e \in DOMAIN w.databases : w.databases[d] = w.databases[e] => d = e
        /\ \A x, y \in DOMAIN w.tables :
             w.tables[x].database = w.tables[y].database /\ w.tables[x].name = w.tables[y].name => x = y
    BY <1>1, <1>8 DEF UniqueNames
  <2> QED BY <1>8, <2>1, <2>2 DEF UniqueNames
<1>12. RunsAreNamed(w)
  BY <1>1, <1>8 DEF RunsAreNamed
<1>13. ASSUME NEW q \in DOMAIN w.partitions
       PROVE  w.facts[q] = QueryFacts(w.tables[w.partitions[q].table].keys, w.partitions[q].values)
  <2>1. CASE q = p
    BY <1>2, <1>5, <1>6, <1>8, <2>1 DEF fact
  <2>2. CASE q # p
    BY <1>1, <1>5, <1>6, <1>8, <2>2 DEF FreshFacts
  <2> QED BY <2>1, <2>2
<1>14. ASSUME NEW x \in DOMAIN w.tables \ {t}
       PROVE  w.health[x] = HealthOf(w, x)
  <2>1. PartitionsOf(w, {x}) = PartitionsOf(s, {x}) /\ p \notin PartitionsOf(s, {x})
    BY <1>2, <1>5, <1>8 DEF PartitionsOf
  <2>2. \A q \in PartitionsOf(s, {x}) : w.partitions[q] = s.partitions[q] /\ w.facts[q] = s.facts[q]
    BY <1>5, <1>6, <1>8, <2>1 DEF PartitionsOf
  <2>3. HealthOf(w, x) = HealthOf(s, x)
    BY <1>1, <1>4, <1>8, <2>1, <2>2, HealthIsSame
  <2> QED BY <1>1, <1>8, <2>3 DEF FreshFacts
<1>15. StoreGood(RefreshHealth(w, t))
  BY <1>1, <1>8, <1>9, <1>10, <1>11, <1>12, <1>13, <1>14, RefreshPutsInOrder
<1> QED BY <1>3, <1>15 DEF u, row

LEMMA CreatePartitionKeepsOrder ==
  ASSUME NEW s, StoreGood(s), NEW op, op.values \in PartitionKey, CreatePartitionRefusal(s, op) = "ok"
  PROVE  StoreGood(CreatePartition(s, op))
<1> DEFINE found == FindTable(s, op.database, op.table)
           t == Only(found)
           p == NewRow(s.partitions)
           values == op.values
<1>1. StoreTyped(s) /\ IsFiniteSet(DOMAIN s.partitions) /\ DOMAIN s.partitions \subseteq Nat \ {NoRow}
  BY DEF StoreGood, StoreTyped, RowsTyped, PartitionsTyped
<1>2. PartitionRefusal(s, op, values) = "ok" /\ ~Exists(s, op, values)
  BY DEF CreatePartitionRefusal
<1>3. found # {}
  BY <1>2 DEF PartitionRefusal
<1>4. t \in DOMAIN s.tables
  BY <1>3, OnlyIsFound DEF FindTable
<1>5. \A q \in DOMAIN s.partitions : ~(s.partitions[q].table = t /\ s.partitions[q].values = values)
  BY <1>2 DEF Exists, FindPartition
<1>6. p \in Nat \ {NoRow} /\ p \notin DOMAIN s.partitions
  BY <1>1, NewRowIsNew
<1>7. CreatePartition(s, op) = WritePartition(s, p, [table |-> t, values |-> values])
  BY DEF CreatePartition, NewPartition
<1>8. values \in PartitionKey
  OBVIOUS
<1> HIDE DEF found, t, p, values
<1>9. StoreGood(WritePartition(s, p, [table |-> t, values |-> values]))
  BY <1>4, <1>5, <1>6, <1>8, WritePartitionKeepsOrder
<1> QED BY <1>7, <1>9

LEMMA UpdatePartitionKeepsOrder ==
  ASSUME NEW s, StoreGood(s), NEW op, op.values \in PartitionKey, UpdatePartitionRefusal(s, op) = "ok"
  PROVE  StoreGood(UpdatePartition(s, op))
<1> DEFINE found == FindTable(s, op.database, op.table)
           t == Only(found)
           old == FindPartition(s, t, op.old)
           p == Only(old)
           values == op.values
<1>1. StoreTyped(s) /\ UniqueNames(s) /\ PartitionsTyped(s.partitions) /\ DOMAIN s.partitions \subseteq Nat \ {NoRow}
  BY DEF StoreGood, StoreTyped, RowsTyped, PartitionsTyped
<1>2. /\ PartitionRefusal(s, op, op.old) = "ok" /\ Exists(s, op, op.old)
      /\ op.values # op.old => ~Exists(s, op, op.values)
  BY DEF UpdatePartitionRefusal
<1>3. found # {}
  BY <1>2 DEF PartitionRefusal
<1>4. t \in DOMAIN s.tables
  BY <1>3, OnlyIsFound DEF FindTable
<1>5. p \in old
  BY <1>2, OnlyIsFound DEF Exists
<1>6. p \in DOMAIN s.partitions /\ s.partitions[p].table = t /\ s.partitions[p].values = op.old
  BY <1>5 DEF FindPartition
<1>7. \A q \in DOMAIN s.partitions :
        values # op.old => ~(s.partitions[q].table = t /\ s.partitions[q].values = values)
  BY <1>2 DEF Exists, FindPartition
<1>8. UpdatePartition(s, op) = WritePartition(s, p, [s.partitions[p] EXCEPT !.values = values])
  BY DEF UpdatePartition, RevisePartition
<1>9. values \in PartitionKey
  OBVIOUS
<1> HIDE DEF found, t, old, p, values
<1>10. s.partitions[p] = [table |-> t, values |-> op.old]
  BY <1>1, <1>6 DEF PartitionsTyped
<1>11. [s.partitions[p] EXCEPT !.values = values] = [table |-> t, values |-> values]
  BY <1>10
<1>12. ASSUME NEW q \in DOMAIN s.partitions \ {p}, s.partitions[q].table = t, s.partitions[q].values = values
       PROVE  FALSE
  <2>1. CASE values = op.old
    BY <1>1, <1>6, <1>12, <2>1 DEF UniqueNames
  <2>2. CASE values # op.old
    BY <1>7, <1>12, <2>2
  <2> QED BY <2>1, <2>2
<1>13. StoreGood(WritePartition(s, p, [table |-> t, values |-> values]))
  BY <1>1, <1>4, <1>6, <1>9, <1>12, WritePartitionKeepsOrder
<1> QED BY <1>8, <1>11, <1>13

LEMMA DeletePartitionKeepsOrder ==
  ASSUME NEW s, StoreGood(s), NEW op, DeletePartitionRefusal(s, op) = "ok"
  PROVE  StoreGood(DeletePartition(s, op))
<1> DEFINE found == FindTable(s, op.database, op.table)
           t == Only(found)
           gone == FindPartition(s, t, op.values)
           partitions == Without(s.partitions, gone)
           facts == Without(s.facts, gone)
           health == ForgetIssues(s.health, gone)
           w == DropPartitions(s, gone)
<1>1. StoreTyped(s) /\ Parents(s) /\ UniqueNames(s) /\ FreshFacts(s) /\ RunsAreNamed(s) /\ StoreShape(s)
      /\ PartitionsTyped(s.partitions) /\ DOMAIN s.facts = DOMAIN s.partitions /\ DOMAIN s.health = DOMAIN s.tables
  BY DEF StoreGood, StoreTyped, RowsTyped
<1>2. PartitionRefusal(s, op, op.values) = "ok"
  BY DEF DeletePartitionRefusal
<1>3. found # {}
  BY <1>2 DEF PartitionRefusal
<1>4. t \in DOMAIN s.tables
  BY <1>3, OnlyIsFound DEF FindTable
<1>5. \A p \in gone : p \in DOMAIN s.partitions /\ s.partitions[p].table = t
  BY DEF FindPartition
<1>6. DeletePartition(s, op) = RefreshHealth(w, t)
  BY DEF DeletePartition
<1>7. PartitionsTyped(partitions)
  BY <1>1, PartitionsWithoutTyped
<1>8. w = [databases |-> s.databases, tables |-> s.tables, partitions |-> partitions, facts |-> facts,
           health |-> health, running |-> s.running, revision |-> s.revision]
  BY <1>1, DroppedPartitions
<1>9. /\ DOMAIN partitions = DOMAIN s.partitions \ gone
      /\ \A q \in DOMAIN partitions : partitions[q] = s.partitions[q]
  BY DEF Without
<1>10. DOMAIN facts = DOMAIN s.partitions \ gone /\ \A q \in DOMAIN facts : facts[q] = s.facts[q]
  BY <1>1 DEF Without
<1>11. DOMAIN health = DOMAIN s.tables
  BY <1>1 DEF ForgetIssues
<1> HIDE DEF found, t, gone, partitions, facts, w
<1>12. w.health = health /\ w.databases = s.databases /\ w.tables = s.tables /\ w.partitions = partitions
       /\ w.facts = facts /\ w.running = s.running /\ StoreShape(w)
  <2> HIDE DEF health
  <2> QED BY <1>8 DEF StoreShape
<1>13. RowsTyped(w)
  BY <1>1, <1>7, <1>9, <1>10, <1>12 DEF StoreTyped, RowsTyped
<1>14. Parents(w) /\ RunsAreNamed(w)
  BY <1>1, <1>9, <1>12 DEF Parents, RunsAreNamed
<1>15. UniqueNames(w)
  <2>1. ASSUME NEW a \in DOMAIN partitions, NEW b \in DOMAIN partitions,
               partitions[a].table = partitions[b].table, partitions[a].values = partitions[b].values
        PROVE  a = b
    BY <1>1, <1>9, <2>1 DEF UniqueNames
  <2>2. /\ \A d, e \in DOMAIN w.databases : w.databases[d] = w.databases[e] => d = e
        /\ \A x, y \in DOMAIN w.tables :
             w.tables[x].database = w.tables[y].database /\ w.tables[x].name = w.tables[y].name => x = y
    BY <1>1, <1>12 DEF UniqueNames
  <2> QED BY <1>12, <2>1, <2>2 DEF UniqueNames
<1>16. \A q \in DOMAIN w.partitions :
         w.facts[q] = QueryFacts(w.tables[w.partitions[q].table].keys, w.partitions[q].values)
  BY <1>1, <1>9, <1>10, <1>12 DEF FreshFacts
<1>17. ASSUME NEW x \in DOMAIN w.tables \ {t}
       PROVE  w.health[x] = HealthOf(w, x)
  <2>1. PartitionsOf(w, {x}) = PartitionsOf(s, {x}) /\ gone \cap PartitionsOf(s, {x}) = {}
    BY <1>5, <1>9, <1>12 DEF PartitionsOf
  <2>2. \A q \in PartitionsOf(s, {x}) : w.partitions[q] = s.partitions[q] /\ w.facts[q] = s.facts[q]
    BY <1>9, <1>10, <1>12, <2>1 DEF PartitionsOf
  <2>3. HealthOf(w, x) = HealthOf(s, x)
    BY <1>1, <1>7, <1>12, <2>1, <2>2, HealthIsSame
  <2>4. NoRow \notin gone
    BY <1>1, <1>5 DEF PartitionsTyped
  <2>5. x \in DOMAIN s.health /\ s.health[x] = HealthOf(s, x)
    BY <1>1, <1>12 DEF FreshFacts
  <2>6. ForgetIssues(s.health, gone)[x] = HealthOf(s, x)
    BY <1>1, <2>1, <2>4, <2>5, HealthOfOthersStays
  <2> QED BY <1>12, <2>3, <2>6
<1>18. StoreGood(RefreshHealth(w, t))
  <2> HIDE DEF health
  <2> QED BY <1>4, <1>11, <1>12, <1>13, <1>14, <1>15, <1>16, <1>17, RefreshPutsInOrder
<1> QED BY <1>6, <1>18

-----------------------------------------------------------------------------
(***************************************************************************)
(* Commands, commits and runs; the catalog a behaviour starts from         *)
(***************************************************************************)
\* Every command that is not refused leaves the catalog in order.
LEMMA EffectKeepsOrder ==
  ASSUME NEW s, StoreGood(s), NEW op, IsCommand(op), Refusal(s, op) = "ok"
  PROVE  StoreGood(Effect(s, op))
<1>1. CASE op.kind = "CreateDatabase"
  <2>1. CreateDatabaseRefusal(s, op) = "ok" /\ Effect(s, op) = CreateDatabase(s, op)
    BY <1>1 DEF Refusal, Effect
  <2> QED BY <2>1, CreateDatabaseKeepsOrder
<1>2. CASE op.kind = "UpdateDatabase"
  <2>1. UpdateDatabaseRefusal(s, op) = "ok" /\ Effect(s, op) = UpdateDatabase(s, op)
    BY <1>2 DEF Refusal, Effect
  <2> QED BY <2>1, UpdateDatabaseKeepsOrder
<1>3. CASE op.kind = "DeleteDatabase"
  <2>1. Effect(s, op) = DeleteDatabase(s, op)
    BY <1>3 DEF Effect
  <2> QED BY <2>1, DeleteDatabaseKeepsOrder
<1>4. CASE op.kind = "CreateTable"
  <2>1. CreateTableRefusal(s, op) = "ok" /\ Effect(s, op) = CreateTable(s, op)
    BY <1>4 DEF Refusal, Effect
  <2> QED BY <2>1, CreateTableKeepsOrder
<1>5. CASE op.kind = "UpdateTable"
  <2>1. UpdateTableRefusal(s, op) = "ok" /\ Effect(s, op) = UpdateTable(s, op)
    BY <1>5 DEF Refusal, Effect
  <2> QED BY <2>1, UpdateTableKeepsOrder
<1>6. CASE op.kind = "DeleteTable"
  <2>1. Effect(s, op) = DeleteTable(s, op)
    BY <1>6 DEF Effect
  <2> QED BY <2>1, DeleteTableKeepsOrder
<1>7. CASE op.kind = "CreatePartition"
  <2>1. CreatePartitionRefusal(s, op) = "ok" /\ Effect(s, op) = CreatePartition(s, op)
    BY <1>7 DEF Refusal, Effect
  <2>2. op.values \in PartitionKey
    BY <1>7 DEF IsCommand, PartitionKey
  <2> QED BY <2>1, <2>2, CreatePartitionKeepsOrder
<1>8. CASE op.kind = "UpdatePartition"
  <2>1. UpdatePartitionRefusal(s, op) = "ok" /\ Effect(s, op) = UpdatePartition(s, op)
    BY <1>8 DEF Refusal, Effect
  <2>2. op.values \in PartitionKey
    BY <1>8 DEF IsCommand, PartitionKey
  <2> QED BY <2>1, <2>2, UpdatePartitionKeepsOrder
<1>9. CASE op.kind = "DeletePartition"
  <2>1. DeletePartitionRefusal(s, op) = "ok" /\ Effect(s, op) = DeletePartition(s, op)
    BY <1>9 DEF Refusal, Effect
  <2> QED BY <2>1, DeletePartitionKeepsOrder
<1> QED BY <1>1, <1>2, <1>3, <1>4, <1>5, <1>6, <1>7, <1>8, <1>9 DEF IsCommand

LEMMA CommittedKeepsOrder ==
  ASSUME NEW s, StoreGood(s)
  PROVE  StoreGood(Committed(s))
<1> DEFINE r0 == [databases |-> s.databases, tables |-> s.tables, partitions |-> s.partitions, facts |-> s.facts,
                  health |-> s.health, running |-> s.running, revision |-> s.revision]
           revision == s.revision + 1
           u == Committed(s)
<1>1. StoreTyped(s) /\ Parents(s) /\ UniqueNames(s) /\ RunsAreNamed(s) /\ StoreShape(s)
  BY DEF StoreGood, StoreTyped, RowsTyped
<1>2. s = r0 /\ u = [s EXCEPT !.revision = revision]
  BY <1>1 DEF StoreShape, Committed
<1> HIDE DEF u, revision
<1>3. [r0 EXCEPT !.revision = revision] =
        [databases |-> s.databases, tables |-> s.tables, partitions |-> s.partitions, facts |-> s.facts,
         health |-> s.health, running |-> s.running, revision |-> revision]
  OBVIOUS
<1> HIDE DEF r0
<1>4. /\ u.databases = s.databases /\ u.tables = s.tables /\ u.partitions = s.partitions /\ u.facts = s.facts
      /\ u.health = s.health /\ u.running = s.running /\ StoreShape(u)
  BY <1>2, <1>3 DEF StoreShape
<1>5. /\ \A t \in DOMAIN s.tables : TableTyped(s.tables[t]) /\ s.tables[t].database \in DOMAIN s.databases
      /\ IsFiniteSet(DOMAIN s.databases) /\ DOMAIN s.databases \subseteq Nat \ {NoRow}
      /\ \A d, e \in DOMAIN s.databases : s.databases[d] = s.databases[e] => d = e
      /\ \A t, v \in DOMAIN s.tables :
           s.tables[t].database = s.tables[v].database /\ s.tables[t].name = s.tables[v].name => t = v
  BY <1>1 DEF StoreTyped, RowsTyped, Parents, UniqueNames
<1>6. RunsAreNamed(u)
  BY <1>1, <1>4 DEF RunsAreNamed
<1>7. StoreGood(u)
  BY <1>4, <1>5, <1>6, NamesMayChange
<1> QED BY <1>7 DEF u

\* A run that starts is named as its table is; one that ends is forgotten.
LEMMA RunsKeepOrder ==
  ASSUME NEW s, StoreGood(s), NEW t \in DOMAIN s.tables
  PROVE  StoreGood([s EXCEPT !.running =
           IF t \in DOMAIN @ THEN Without(@, {t})
           ELSE With(@, t, <<s.databases[s.tables[t].database], s.tables[t].name>>)])
<1> DEFINE r0 == [databases |-> s.databases, tables |-> s.tables, partitions |-> s.partitions, facts |-> s.facts,
                  health |-> s.health, running |-> s.running, revision |-> s.revision]
           name == <<s.databases[s.tables[t].database], s.tables[t].name>>
           running == IF t \in DOMAIN s.running THEN Without(s.running, {t}) ELSE With(s.running, t, name)
           u == [s EXCEPT !.running = running]
<1>1. StoreTyped(s) /\ Parents(s) /\ UniqueNames(s) /\ RunsAreNamed(s) /\ StoreShape(s)
  BY DEF StoreGood, StoreTyped, RowsTyped
<1>2. s = r0
  BY <1>1 DEF StoreShape
<1>3. ASSUME NEW x \in DOMAIN running
      PROVE  (x \in DOMAIN s.running /\ running[x] = s.running[x]) \/ (x = t /\ running[x] = name)
  BY DEF Without, With
<1> HIDE DEF running, name
<1>4. [r0 EXCEPT !.running = running] =
        [databases |-> s.databases, tables |-> s.tables, partitions |-> s.partitions, facts |-> s.facts,
         health |-> s.health, running |-> running, revision |-> s.revision]
  OBVIOUS
<1> HIDE DEF r0
<1>5. u = [databases |-> s.databases, tables |-> s.tables, partitions |-> s.partitions, facts |-> s.facts,
           health |-> s.health, running |-> running, revision |-> s.revision]
  BY <1>2, <1>4
<1> HIDE DEF u
<1>6. /\ u.databases = s.databases /\ u.tables = s.tables /\ u.partitions = s.partitions /\ u.facts = s.facts
      /\ u.health = s.health /\ u.running = running /\ StoreShape(u)
  BY <1>5 DEF StoreShape
<1>7. /\ \A x \in DOMAIN s.tables : TableTyped(s.tables[x]) /\ s.tables[x].database \in DOMAIN s.databases
      /\ IsFiniteSet(DOMAIN s.databases) /\ DOMAIN s.databases \subseteq Nat \ {NoRow}
      /\ \A d, e \in DOMAIN s.databases : s.databases[d] = s.databases[e] => d = e
      /\ \A x, v \in DOMAIN s.tables :
           s.tables[x].database = s.tables[v].database /\ s.tables[x].name = s.tables[v].name => x = v
  BY <1>1 DEF StoreTyped, RowsTyped, Parents, UniqueNames
<1>8. ASSUME NEW x \in DOMAIN u.running
      PROVE  x \in DOMAIN u.tables /\ u.running[x] = <<u.databases[u.tables[x].database], u.tables[x].name>>
  <2>1. CASE x \in DOMAIN s.running /\ running[x] = s.running[x]
    BY <1>1, <1>6, <2>1 DEF RunsAreNamed
  <2>2. CASE x = t /\ running[x] = name
    BY <1>6, <2>2 DEF name
  <2> QED BY <1>3, <1>6, <2>1, <2>2
<1>9. RunsAreNamed(u)
  BY <1>8 DEF RunsAreNamed
<1>10. StoreGood(u)
  BY <1>6, <1>7, <1>9, NamesMayChange
<1> QED BY <1>10 DEF u, running, name

LEMMA EmptyIsInOrder == StoreGood(Empty)
<1>1. /\ Empty.databases = << >> /\ Empty.tables = << >> /\ Empty.partitions = << >> /\ Empty.facts = << >>
      /\ Empty.health = << >> /\ Empty.running = << >> /\ StoreShape(Empty)
  BY DEF Empty, StoreShape
<1>2. DOMAIN << >> = {} /\ IsFiniteSet({})
  BY FS_EmptySet
<1>3. StoreTyped(Empty)
  BY <1>1, <1>2 DEF StoreTyped, RowsTyped, PartitionsTyped
<1> QED BY <1>1, <1>2, <1>3 DEF StoreGood, Parents, UniqueNames, FreshFacts, RunsAreNamed

\* The stores after each of some commands exist, and each follows from the one before.
LEMMA StoresAreMade ==
  ASSUME NEW ops, Len(ops) \in Nat
  PROVE  LET stores == StoresAfter(ops)
         IN stores = [i \in 0 .. Len(ops) |->
                        IF i = 0 THEN Empty ELSE Committed(Effect(stores[i - 1], ops[i]))]
<1> DEFINE n == Len(ops)
           Made(f, k) == f = [i \in 0 .. k |-> IF i = 0 THEN Empty ELSE Committed(Effect(f[i - 1], ops[i]))]
           Missing == {k \in 0 .. n : ~\E f : Made(f, k)}
<1>1. Missing = {}
  <2> SUFFICES ASSUME Missing # {} PROVE FALSE
    OBVIOUS
  <2>1. Missing \subseteq Nat
    OBVIOUS
  <2> HIDE DEF Missing
  <2>2. PICK k \in Missing : \A m \in Missing : k <= m
    BY <2>1, LeastNumber
  <2>3. k \in 0 .. n /\ k \in Nat
    BY DEF Missing
  <2>4. ~\E f : Made(f, k)
    BY DEF Missing
  <2>5. CASE k = 0
    <3> DEFINE g == [i \in 0 .. 0 |-> Empty]
    <3>1. Made(g, k)
      BY <2>5
    <3> HIDE DEF Made, g
    <3> QED BY <2>4, <3>1
  <2>6. CASE k # 0
    <3>1. k - 1 \in 0 .. n /\ k - 1 \notin Missing
      BY <2>2, <2>3, <2>6
    <3>2. \E f : Made(f, k - 1)
      <4> HIDE DEF Made
      <4> QED BY <3>1 DEF Missing
    <3> HIDE DEF Made
    <3>3. PICK f : Made(f, k - 1)
      BY <3>2
    <3>4. f = [i \in 0 .. k - 1 |-> IF i = 0 THEN Empty ELSE Committed(Effect(f[i - 1], ops[i]))]
      BY <3>3 DEF Made
    <3> DEFINE g == [i \in 0 .. k |-> IF i = k THEN Committed(Effect(f[k - 1], ops[k])) ELSE f[i]]
    <3>5. \A i \in 0 .. k : g[i] = IF i = 0 THEN Empty ELSE Committed(Effect(g[i - 1], ops[i]))
      <4> TAKE i \in 0 .. k
      <4>1. CASE i = k
        <5>1. g[i - 1] = f[k - 1] /\ i # 0
          BY <2>3, <2>6, <4>1
        <5> QED BY <4>1, <5>1
      <4>2. CASE i # k
        <5>1. i \in 0 .. k - 1 /\ g[i] = f[i]
          BY <2>3, <4>2
        <5>2. CASE i = 0
          BY <2>3, <3>4, <5>1, <5>2
        <5>3. CASE i # 0
          <6>1. i - 1 \in 0 .. k /\ i - 1 # k
            BY <2>3, <5>1, <5>3
          <6>2. g[i - 1] = f[i - 1]
            BY <6>1
          <6>3. f[i] = Committed(Effect(f[i - 1], ops[i]))
            BY <3>4, <5>1, <5>3
          <6> HIDE DEF g
          <6> QED BY <5>1, <5>3, <6>2, <6>3
        <5> QED BY <5>2, <5>3
      <4> QED BY <4>1, <4>2
    <3>6. g = [i \in 0 .. k |-> g[i]]
      OBVIOUS
    <3> HIDE DEF g
    <3>7. Made(g, k)
      BY <3>5, <3>6 DEF Made
    <3> QED BY <2>4, <3>7
  <2> QED BY <2>5, <2>6
<1>2. \E f : Made(f, n)
  <2> HIDE DEF Made
  <2> QED BY <1>1
<1> DEFINE h == CHOOSE f : f = [i \in 0 .. Len(ops) |->
                                  IF i = 0 THEN Empty ELSE Committed(Effect(f[i - 1], ops[i]))]
<1>3. h = [i \in 0 .. Len(ops) |-> IF i = 0 THEN Empty ELSE Committed(Effect(h[i - 1], ops[i]))]
  BY <1>2
<1>4. StoresAfter(ops) = h
  BY DEF StoresAfter
<1> HIDE DEF h
<1> QED BY <1>3, <1>4

LEMMA SetupIsInOrder ==
  ASSUME NEW ops, Len(ops) \in Nat,
         \A i \in 1 .. Len(ops) : IsCommand(ops[i]) /\ Refusal(StoresAfter(ops)[i - 1], ops[i]) = "ok"
  PROVE  StoreGood(StoresAfter(ops)[Len(ops)])
<1> DEFINE n == Len(ops)
           stores == StoresAfter(ops)
           Bad == {k \in 0 .. n : ~StoreGood(stores[k])}
<1>1. stores = [i \in 0 .. n |-> IF i = 0 THEN Empty ELSE Committed(Effect(stores[i - 1], ops[i]))]
  BY StoresAreMade
<1>2. n \in Nat /\ \A i \in 1 .. n : IsCommand(ops[i]) /\ Refusal(stores[i - 1], ops[i]) = "ok"
  OBVIOUS
<1> HIDE DEF n, stores
<1>3. Bad = {}
  <2> SUFFICES ASSUME Bad # {} PROVE FALSE
    OBVIOUS
  <2>1. Bad \subseteq Nat
    BY <1>2
  <2>2. PICK k \in Bad : \A m \in Bad : k <= m
    <3> HIDE DEF Bad
    <3> QED BY <2>1, LeastNumber
  <2>3. k \in 0 .. n /\ ~StoreGood(stores[k])
    OBVIOUS
  <2>4. CASE k = 0
    <3>1. stores[k] = Empty
      BY <1>1, <1>2, <2>4
    <3> QED BY <2>3, <3>1, EmptyIsInOrder
  <2>5. CASE k # 0
    <3>1. k - 1 \in 0 .. n /\ k \in 1 .. n /\ k - 1 \notin Bad
      BY <1>2, <2>2, <2>3, <2>5
    <3>2. StoreGood(stores[k - 1])
      BY <3>1
    <3>3. stores[k] = Committed(Effect(stores[k - 1], ops[k]))
      BY <1>1, <2>3, <2>5
    <3>4. StoreGood(Effect(stores[k - 1], ops[k]))
      BY <1>2, <3>1, <3>2, EffectKeepsOrder
    <3> QED BY <2>3, <3>3, <3>4, CommittedKeepsOrder
  <2> QED BY <2>4, <2>5
<1>4. n \in 0 .. n
  BY <1>2
<1> QED BY <1>3, <1>4 DEF n, stores

-----------------------------------------------------------------------------
(***************************************************************************)
(* Requests and their transactions                                         *)
(***************************************************************************)
WorkRecord(pc, kind, ops, index, failures, attempts, cancelled, outcome) ==
  [pc |-> pc, kind |-> kind, ops |-> ops, index |-> index, failures |-> failures,
   attempts |-> attempts, cancelled |-> cancelled, outcome |-> outcome]

\* What a request that is not idle works on: commands, one of which is next.
HasCommands(w) ==
  /\ Len(w.ops) \in Nat /\ w.index \in 1 .. Len(w.ops)
  /\ \A i \in 1 .. Len(w.ops) : IsCommand(w.ops[i])

WorkShape(w) ==
  w = WorkRecord(w.pc, w.kind, w.ops, w.index, w.failures, w.attempts, w.cancelled, w.outcome)

WorkTyped(w) ==
  /\ WorkShape(w)
  /\ w.outcome \in Outcomes
  /\ w.pc # "idle" => HasCommands(w)
  /\ w.pc = "read" => \E op : w.ops = <<op>> /\ {"kind", "name"} \subseteq DOMAIN op /\ op.kind = "UpdateTable"

\* The inductive invariant: the committed store and the draft of an open transaction are in order,
\* and the transaction is that of the one client that is about to commit.
WorkInOrder == work = [c \in Clients |-> work[c]] /\ \A c \in Clients : WorkTyped(work[c])

LockInOrder ==
  /\ writer \in Clients \cup {NoWriter}
  /\ writer # NoWriter => At(writer, "commit") /\ StoreGood(draft)
  /\ \A c \in Clients : At(c, "commit") => writer = c

CatalogInOrder ==
  catalogSession \in DOMAIN CatalogSessions /\ StoreGood(store) /\ WorkInOrder /\ LockInOrder

\* A change of one field of a request.
LEMMA WorkFieldSet ==
  ASSUME NEW w, WorkShape(w), NEW x
  PROVE  /\ [w EXCEPT !.pc = x] =
              WorkRecord(x, w.kind, w.ops, w.index, w.failures, w.attempts, w.cancelled, w.outcome)
         /\ [w EXCEPT !.kind = x] =
              WorkRecord(w.pc, x, w.ops, w.index, w.failures, w.attempts, w.cancelled, w.outcome)
         /\ [w EXCEPT !.ops = x] =
              WorkRecord(w.pc, w.kind, x, w.index, w.failures, w.attempts, w.cancelled, w.outcome)
         /\ [w EXCEPT !.index = x] =
              WorkRecord(w.pc, w.kind, w.ops, x, w.failures, w.attempts, w.cancelled, w.outcome)
         /\ [w EXCEPT !.failures = x] =
              WorkRecord(w.pc, w.kind, w.ops, w.index, x, w.attempts, w.cancelled, w.outcome)
         /\ [w EXCEPT !.attempts = x] =
              WorkRecord(w.pc, w.kind, w.ops, w.index, w.failures, x, w.cancelled, w.outcome)
         /\ [w EXCEPT !.cancelled = x] =
              WorkRecord(w.pc, w.kind, w.ops, w.index, w.failures, w.attempts, x, w.outcome)
         /\ [w EXCEPT !.outcome = x] =
              WorkRecord(w.pc, w.kind, w.ops, w.index, w.failures, w.attempts, w.cancelled, x)
<1> DEFINE a == w.pc
           b == w.kind
           c == w.ops
           d == w.index
           e == w.failures
           f == w.attempts
           g == w.cancelled
           h == w.outcome
           v == WorkRecord(a, b, c, d, e, f, g, h)
<1>1. w = v
  BY DEF WorkShape
<1> HIDE DEF a, b, c, d, e, f, g, h
<1>2. /\ [v EXCEPT !.pc = x] = WorkRecord(x, b, c, d, e, f, g, h)
      /\ [v EXCEPT !.kind = x] = WorkRecord(a, x, c, d, e, f, g, h)
  BY DEF WorkRecord
<1>3. /\ [v EXCEPT !.ops = x] = WorkRecord(a, b, x, d, e, f, g, h)
      /\ [v EXCEPT !.index = x] = WorkRecord(a, b, c, x, e, f, g, h)
  BY DEF WorkRecord
<1>4. /\ [v EXCEPT !.failures = x] = WorkRecord(a, b, c, d, x, f, g, h)
      /\ [v EXCEPT !.attempts = x] = WorkRecord(a, b, c, d, e, x, g, h)
  BY DEF WorkRecord
<1>5. /\ [v EXCEPT !.cancelled = x] = WorkRecord(a, b, c, d, e, f, x, h)
      /\ [v EXCEPT !.outcome = x] = WorkRecord(a, b, c, d, e, f, g, x)
  BY DEF WorkRecord
<1> HIDE DEF v
<1> QED BY <1>1, <1>2, <1>3, <1>4, <1>5 DEF a, b, c, d, e, f, g, h

\* Changes of one field, by name
SetPc(w, x) == [w EXCEPT !.pc = x]
SetOutcome(w, x) == [w EXCEPT !.outcome = x]
SetAttempts(w, x) == [w EXCEPT !.attempts = x]
SetCancelled(w, x) == [w EXCEPT !.cancelled = x]
SetKind(w, x) == [w EXCEPT !.kind = x]
SetOps(w, x) == [w EXCEPT !.ops = x]
SetIndex(w, x) == [w EXCEPT !.index = x]
SetFailures(w, x) == [w EXCEPT !.failures = x]

\* Each leaves the other fields as they are.
LEMMA PcStays ==
  ASSUME NEW w, WorkShape(w), NEW x
  PROVE  LET v == SetPc(w, x) IN WorkShape(v) /\ v.pc = x /\ v.kind = w.kind /\ v.ops = w.ops /\ v.index = w.index /\ v.outcome = w.outcome
<1> DEFINE v == SetPc(w, x)
<1>1. v = WorkRecord(x, w.kind, w.ops, w.index, w.failures, w.attempts, w.cancelled, w.outcome)
  BY WorkFieldSet DEF SetPc
<1> HIDE DEF v
<1>2. /\ v.pc = x /\ v.kind = w.kind /\ v.ops = w.ops /\ v.index = w.index /\ v.failures = w.failures
      /\ v.attempts = w.attempts /\ v.cancelled = w.cancelled /\ v.outcome = w.outcome
  BY <1>1 DEF WorkRecord
<1>3. WorkShape(v)
  BY <1>1, <1>2 DEF WorkShape
<1> QED BY <1>2, <1>3 DEF v

LEMMA OutcomeStays ==
  ASSUME NEW w, WorkShape(w), NEW x
  PROVE  LET v == SetOutcome(w, x) IN WorkShape(v) /\ v.pc = w.pc /\ v.kind = w.kind /\ v.ops = w.ops /\ v.index = w.index /\ v.outcome = x
<1> DEFINE v == SetOutcome(w, x)
<1>1. v = WorkRecord(w.pc, w.kind, w.ops, w.index, w.failures, w.attempts, w.cancelled, x)
  BY WorkFieldSet DEF SetOutcome
<1> HIDE DEF v
<1>2. /\ v.pc = w.pc /\ v.kind = w.kind /\ v.ops = w.ops /\ v.index = w.index /\ v.failures = w.failures
      /\ v.attempts = w.attempts /\ v.cancelled = w.cancelled /\ v.outcome = x
  BY <1>1 DEF WorkRecord
<1>3. WorkShape(v)
  BY <1>1, <1>2 DEF WorkShape
<1> QED BY <1>2, <1>3 DEF v

LEMMA AttemptsStays ==
  ASSUME NEW w, WorkShape(w), NEW x
  PROVE  LET v == SetAttempts(w, x) IN WorkShape(v) /\ v.pc = w.pc /\ v.kind = w.kind /\ v.ops = w.ops /\ v.index = w.index /\ v.outcome = w.outcome
<1> DEFINE v == SetAttempts(w, x)
<1>1. v = WorkRecord(w.pc, w.kind, w.ops, w.index, w.failures, x, w.cancelled, w.outcome)
  BY WorkFieldSet DEF SetAttempts
<1> HIDE DEF v
<1>2. /\ v.pc = w.pc /\ v.kind = w.kind /\ v.ops = w.ops /\ v.index = w.index /\ v.failures = w.failures
      /\ v.attempts = x /\ v.cancelled = w.cancelled /\ v.outcome = w.outcome
  BY <1>1 DEF WorkRecord
<1>3. WorkShape(v)
  BY <1>1, <1>2 DEF WorkShape
<1> QED BY <1>2, <1>3 DEF v

LEMMA CancelledStays ==
  ASSUME NEW w, WorkShape(w), NEW x
  PROVE  LET v == SetCancelled(w, x) IN WorkShape(v) /\ v.pc = w.pc /\ v.kind = w.kind /\ v.ops = w.ops /\ v.index = w.index /\ v.outcome = w.outcome
<1> DEFINE v == SetCancelled(w, x)
<1>1. v = WorkRecord(w.pc, w.kind, w.ops, w.index, w.failures, w.attempts, x, w.outcome)
  BY WorkFieldSet DEF SetCancelled
<1> HIDE DEF v
<1>2. /\ v.pc = w.pc /\ v.kind = w.kind /\ v.ops = w.ops /\ v.index = w.index /\ v.failures = w.failures
      /\ v.attempts = w.attempts /\ v.cancelled = x /\ v.outcome = w.outcome
  BY <1>1 DEF WorkRecord
<1>3. WorkShape(v)
  BY <1>1, <1>2 DEF WorkShape
<1> QED BY <1>2, <1>3 DEF v

LEMMA KindStays ==
  ASSUME NEW w, WorkShape(w), NEW x
  PROVE  LET v == SetKind(w, x) IN WorkShape(v) /\ v.pc = w.pc /\ v.kind = x /\ v.ops = w.ops /\ v.index = w.index /\ v.outcome = w.outcome
<1> DEFINE v == SetKind(w, x)
<1>1. v = WorkRecord(w.pc, x, w.ops, w.index, w.failures, w.attempts, w.cancelled, w.outcome)
  BY WorkFieldSet DEF SetKind
<1> HIDE DEF v
<1>2. /\ v.pc = w.pc /\ v.kind = x /\ v.ops = w.ops /\ v.index = w.index /\ v.failures = w.failures
      /\ v.attempts = w.attempts /\ v.cancelled = w.cancelled /\ v.outcome = w.outcome
  BY <1>1 DEF WorkRecord
<1>3. WorkShape(v)
  BY <1>1, <1>2 DEF WorkShape
<1> QED BY <1>2, <1>3 DEF v

LEMMA OpsStays ==
  ASSUME NEW w, WorkShape(w), NEW x
  PROVE  LET v == SetOps(w, x) IN WorkShape(v) /\ v.pc = w.pc /\ v.kind = w.kind /\ v.ops = x /\ v.index = w.index /\ v.outcome = w.outcome
<1> DEFINE v == SetOps(w, x)
<1>1. v = WorkRecord(w.pc, w.kind, x, w.index, w.failures, w.attempts, w.cancelled, w.outcome)
  BY WorkFieldSet DEF SetOps
<1> HIDE DEF v
<1>2. /\ v.pc = w.pc /\ v.kind = w.kind /\ v.ops = x /\ v.index = w.index /\ v.failures = w.failures
      /\ v.attempts = w.attempts /\ v.cancelled = w.cancelled /\ v.outcome = w.outcome
  BY <1>1 DEF WorkRecord
<1>3. WorkShape(v)
  BY <1>1, <1>2 DEF WorkShape
<1> QED BY <1>2, <1>3 DEF v

LEMMA IndexStays ==
  ASSUME NEW w, WorkShape(w), NEW x
  PROVE  LET v == SetIndex(w, x) IN WorkShape(v) /\ v.pc = w.pc /\ v.kind = w.kind /\ v.ops = w.ops /\ v.index = x /\ v.outcome = w.outcome
<1> DEFINE v == SetIndex(w, x)
<1>1. v = WorkRecord(w.pc, w.kind, w.ops, x, w.failures, w.attempts, w.cancelled, w.outcome)
  BY WorkFieldSet DEF SetIndex
<1> HIDE DEF v
<1>2. /\ v.pc = w.pc /\ v.kind = w.kind /\ v.ops = w.ops /\ v.index = x /\ v.failures = w.failures
      /\ v.attempts = w.attempts /\ v.cancelled = w.cancelled /\ v.outcome = w.outcome
  BY <1>1 DEF WorkRecord
<1>3. WorkShape(v)
  BY <1>1, <1>2 DEF WorkShape
<1> QED BY <1>2, <1>3 DEF v

LEMMA FailuresStays ==
  ASSUME NEW w, WorkShape(w), NEW x
  PROVE  LET v == SetFailures(w, x) IN WorkShape(v) /\ v.pc = w.pc /\ v.kind = w.kind /\ v.ops = w.ops /\ v.index = w.index /\ v.outcome = w.outcome
<1> DEFINE v == SetFailures(w, x)
<1>1. v = WorkRecord(w.pc, w.kind, w.ops, w.index, x, w.attempts, w.cancelled, w.outcome)
  BY WorkFieldSet DEF SetFailures
<1> HIDE DEF v
<1>2. /\ v.pc = w.pc /\ v.kind = w.kind /\ v.ops = w.ops /\ v.index = w.index /\ v.failures = x
      /\ v.attempts = w.attempts /\ v.cancelled = w.cancelled /\ v.outcome = w.outcome
  BY <1>1 DEF WorkRecord
<1>3. WorkShape(v)
  BY <1>1, <1>2 DEF WorkShape
<1> QED BY <1>2, <1>3 DEF v

LEMMA IdleIsTyped ==
  WorkShape(Idle) /\ Idle.pc = "idle" /\ Idle.index = 1 /\ Idle.outcome = "none" /\ WorkTyped(Idle)
<1>1. /\ Idle.pc = "idle" /\ Idle.index = 1 /\ Idle.outcome = "none" /\ Idle.kind = "none" /\ Idle.ops = << >>
      /\ Idle.failures = {} /\ Idle.attempts = 0 /\ Idle.cancelled = FALSE
  BY DEF Idle
<1>2. Idle = WorkRecord("idle", "none", << >>, 1, {}, 0, FALSE, "none")
  BY DEF Idle, WorkRecord
<1>3. WorkShape(Idle)
  BY <1>1, <1>2 DEF WorkShape
<1>4. "none" \in Outcomes
  BY DEF Outcomes
<1> QED BY <1>1, <1>3, <1>4 DEF WorkTyped

\* What a request with commands goes on to is typed again.
LEMMA EndedIsTyped ==
  ASSUME NEW w, WorkTyped(w), w.pc # "idle", NEW x \in Outcomes
  PROVE  WorkTyped(Ended(w, x)) /\ Ended(w, x).pc = "ended"
<1> DEFINE v == SetPc(w, "ended")
           u == SetOutcome(v, x)
<1>1. WorkShape(v) /\ v.pc = "ended" /\ v.ops = w.ops /\ v.index = w.index
  BY PcStays DEF WorkTyped
<1>2. Ended(w, x) = u
  BY DEF Ended, SetPc, SetOutcome
<1> HIDE DEF v
<1>3. WorkShape(u) /\ u.pc = v.pc /\ u.ops = v.ops /\ u.index = v.index /\ u.outcome = x
  BY <1>1, OutcomeStays
<1> HIDE DEF u
<1>4. HasCommands(u)
  BY <1>1, <1>3 DEF WorkTyped, HasCommands
<1> QED BY <1>1, <1>2, <1>3, <1>4 DEF WorkTyped

LEMMA WaitingIsTyped ==
  ASSUME NEW w, WorkShape(w), HasCommands(w)
  PROVE  WorkTyped(Waiting(w)) /\ Waiting(w).pc = "begin"
<1> DEFINE a == SetPc(w, "begin")
           b == SetAttempts(a, 0)
           c == SetCancelled(b, FALSE)
           d == SetOutcome(c, "none")
<1>1. Waiting(w) = d
  BY DEF Waiting, SetPc, SetAttempts, SetCancelled, SetOutcome
<1>2. WorkShape(a) /\ a.pc = "begin" /\ a.ops = w.ops /\ a.index = w.index
  BY PcStays
<1> HIDE DEF a
<1>3. WorkShape(b) /\ b.pc = a.pc /\ b.ops = a.ops /\ b.index = a.index
  BY <1>2, AttemptsStays
<1> HIDE DEF b
<1>4. WorkShape(c) /\ c.pc = b.pc /\ c.ops = b.ops /\ c.index = b.index
  BY <1>3, CancelledStays
<1> HIDE DEF c
<1>5. WorkShape(d) /\ d.pc = c.pc /\ d.ops = c.ops /\ d.index = c.index /\ d.outcome = "none"
  BY <1>4, OutcomeStays
<1> HIDE DEF d
<1>6. HasCommands(d) /\ "none" \in Outcomes
  BY <1>2, <1>3, <1>4, <1>5 DEF HasCommands, Outcomes
<1> QED BY <1>1, <1>2, <1>3, <1>4, <1>5, <1>6 DEF WorkTyped

LEMMA MovedIsTyped ==
  ASSUME NEW w, WorkTyped(w), w.pc # "idle", NEW pc, pc # "read"
  PROVE  LET v == SetPc(w, pc) IN WorkTyped(v) /\ v.pc = pc /\ v.outcome = w.outcome
<1> DEFINE v == SetPc(w, pc)
<1>1. WorkShape(v) /\ v.pc = pc /\ v.ops = w.ops /\ v.index = w.index /\ v.outcome = w.outcome
  BY PcStays DEF WorkTyped
<1> HIDE DEF v
<1>2. HasCommands(v)
  BY <1>1 DEF WorkTyped, HasCommands
<1>3. WorkTyped(v) /\ v.pc = pc /\ v.outcome = w.outcome
  BY <1>1, <1>2 DEF WorkTyped
<1> QED BY <1>3 DEF v

LEMMA SleepingIsTyped ==
  ASSUME NEW w, WorkTyped(w), NEW x
  PROVE  /\ LET v == SetAttempts(w, x) IN WorkTyped(v) /\ v.pc = w.pc
         /\ LET v == SetCancelled(w, x) IN WorkTyped(v) /\ v.pc = w.pc
<1> DEFINE a == SetAttempts(w, x)
           b == SetCancelled(w, x)
<1>1. WorkShape(a) /\ a.pc = w.pc /\ a.ops = w.ops /\ a.index = w.index /\ a.outcome = w.outcome
  BY AttemptsStays DEF WorkTyped
<1>2. WorkShape(b) /\ b.pc = w.pc /\ b.ops = w.ops /\ b.index = w.index /\ b.outcome = w.outcome
  BY CancelledStays DEF WorkTyped
<1> HIDE DEF a, b
<1>3. WorkTyped(a) /\ a.pc = w.pc
  BY <1>1 DEF WorkTyped, HasCommands
<1>4. WorkTyped(b) /\ b.pc = w.pc
  BY <1>2 DEF WorkTyped, HasCommands
<1> QED BY <1>3, <1>4 DEF a, b

\* A new request: what Idle becomes with a kind and commands.
LEMMA NewWaitIsTyped ==
  ASSUME NEW kind, NEW ops, Len(ops) \in Nat \ {0}, \A i \in 1 .. Len(ops) : IsCommand(ops[i])
  PROVE  LET w == Waiting([Idle EXCEPT !.kind = kind, !.ops = ops]) IN WorkTyped(w) /\ w.pc = "begin"
<1> DEFINE a == SetKind(Idle, kind)
           b == SetOps(a, ops)
<1>1. WorkShape(a) /\ a.index = 1
  BY IdleIsTyped, KindStays
<1>2. [Idle EXCEPT !.kind = kind, !.ops = ops] = b
  BY DEF SetKind, SetOps
<1> HIDE DEF a
<1>3. WorkShape(b) /\ b.ops = ops /\ b.index = a.index
  BY <1>1, OpsStays
<1> HIDE DEF b
<1>4. HasCommands(b)
  BY <1>1, <1>3 DEF HasCommands
<1>5. WorkTyped(Waiting(b)) /\ Waiting(b).pc = "begin"
  BY <1>3, <1>4, WaitingIsTyped
<1> QED BY <1>2, <1>5

LEMMA NewRequestIsTyped ==
  ASSUME NEW pc, pc # "idle", NEW kind, NEW ops, Len(ops) \in Nat \ {0},
         \A i \in 1 .. Len(ops) : IsCommand(ops[i]),
         pc = "read" => \E op : ops = <<op>> /\ {"kind", "name"} \subseteq DOMAIN op /\ op.kind = "UpdateTable"
  PROVE  LET w == [Idle EXCEPT !.pc = pc, !.kind = kind, !.ops = ops] IN WorkTyped(w) /\ w.pc = pc
<1> DEFINE a == SetPc(Idle, pc)
           b == SetKind(a, kind)
           c == SetOps(b, ops)
<1>1. WorkShape(a) /\ a.pc = pc /\ a.index = 1 /\ a.outcome = "none"
  BY IdleIsTyped, PcStays
<1>2. [Idle EXCEPT !.pc = pc, !.kind = kind, !.ops = ops] = c
  BY DEF SetPc, SetKind, SetOps
<1> HIDE DEF a
<1>3. WorkShape(b) /\ b.pc = a.pc /\ b.index = a.index /\ b.outcome = a.outcome
  BY <1>1, KindStays
<1> HIDE DEF b
<1>4. WorkShape(c) /\ c.pc = b.pc /\ c.ops = ops /\ c.index = b.index /\ c.outcome = b.outcome
  BY <1>3, OpsStays
<1> HIDE DEF c
<1>5. HasCommands(c) /\ "none" \in Outcomes
  BY <1>1, <1>3, <1>4 DEF HasCommands, Outcomes
<1>6. WorkTyped(c) /\ c.pc = pc
  BY <1>1, <1>3, <1>4, <1>5 DEF WorkTyped
<1> QED BY <1>2, <1>6

\* A command is accepted, or refused with an error of the domain.
LEMMA RefusalsAreErrors ==
  ASSUME NEW s, NEW op, IsCommand(op)
  PROVE  Refusal(s, op) \in DomainErrors \cup {"ok"}
<1>1. \A values : PartitionRefusal(s, op, values) \in DomainErrors \cup {"ok"}
  BY DEF PartitionRefusal, DomainErrors
<1>2. /\ CreateDatabaseRefusal(s, op) \in DomainErrors \cup {"ok"}
      /\ UpdateDatabaseRefusal(s, op) \in DomainErrors \cup {"ok"}
      /\ DeleteDatabaseRefusal(s, op) \in DomainErrors \cup {"ok"}
  BY DEF CreateDatabaseRefusal, UpdateDatabaseRefusal, DeleteDatabaseRefusal, DomainErrors
<1>3. /\ CreateTableRefusal(s, op) \in DomainErrors \cup {"ok"}
      /\ UpdateTableRefusal(s, op) \in DomainErrors \cup {"ok"}
      /\ DeleteTableRefusal(s, op) \in DomainErrors \cup {"ok"}
  BY DEF CreateTableRefusal, UpdateTableRefusal, DeleteTableRefusal, DomainErrors
<1>4. CreatePartitionRefusal(s, op) \in DomainErrors \cup {"ok"}
  BY <1>1 DEF CreatePartitionRefusal, DomainErrors
<1>5. UpdatePartitionRefusal(s, op) \in DomainErrors \cup {"ok"}
  BY <1>1 DEF UpdatePartitionRefusal, DomainErrors
<1>6. DeletePartitionRefusal(s, op) \in DomainErrors \cup {"ok"}
  BY <1>1 DEF DeletePartitionRefusal, DomainErrors
<1> QED BY <1>2, <1>3, <1>4, <1>5, <1>6 DEF Refusal, IsCommand

\* A step of one client's request, and what it may do to the lock.
LEMMA StepKeepsOrder ==
  ASSUME CatalogInOrder, NEW c \in Clients, NEW w, WorkTyped(w), work' = [work EXCEPT ![c] = w],
         catalogSession' = catalogSession, StoreGood(store'),
         \/ writer # c /\ writer' = writer /\ draft' = draft /\ w.pc # "commit"
         \/ writer = c /\ writer' = c /\ draft' = draft /\ w.pc = "commit"
         \/ writer = c /\ writer' = NoWriter /\ w.pc # "commit"
         \/ writer = NoWriter /\ writer' = c /\ StoreGood(draft') /\ w.pc = "commit"
  PROVE  CatalogInOrder'
<1>1. /\ catalogSession \in DOMAIN CatalogSessions /\ WorkInOrder /\ NoWriter \notin Clients
      /\ writer \in Clients \cup {NoWriter}
      /\ writer # NoWriter => At(writer, "commit") /\ StoreGood(draft)
      /\ \A x \in Clients : At(x, "commit") => writer = x
  BY CatalogAssumption DEF CatalogInOrder, LockInOrder
<1>2. work'[c] = w /\ \A x \in Clients \ {c} : work'[x] = work[x]
  BY <1>1 DEF WorkInOrder
<1>3. WorkInOrder'
  BY <1>1, <1>2 DEF WorkInOrder
<1>4. LockInOrder'
  BY <1>1, <1>2 DEF LockInOrder, At
<1> QED BY <1>1, <1>3, <1>4 DEF CatalogInOrder

\* What the invariant says of a request at a place of its own.
LEMMA RequestInOrder ==
  ASSUME CatalogInOrder, NEW c \in Clients
  PROVE  /\ WorkTyped(work[c]) /\ WorkShape(work[c]) /\ StoreGood(store) /\ NoWriter \notin Clients
         /\ writer = c => work[c].pc = "commit" /\ StoreGood(draft)
         /\ work[c].pc = "commit" => writer = c
         /\ work[c].pc # "idle" => HasCommands(work[c]) /\ IsCommand(Op(c))
<1>1. work[c].pc # "idle" => HasCommands(work[c])
  BY DEF CatalogInOrder, WorkInOrder, WorkTyped
<1>2. HasCommands(work[c]) => IsCommand(Op(c))
  BY DEF HasCommands, Op
<1> QED BY <1>1, <1>2, CatalogAssumption DEF CatalogInOrder, WorkInOrder, LockInOrder, WorkTyped, At

-----------------------------------------------------------------------------
(***************************************************************************)
(* Every step keeps the catalog in order                                   *)
(***************************************************************************)
LEMMA BeginKeepsOrder ==
  ASSUME CatalogInOrder, NEW c \in Clients, Begin(c)
  PROVE  CatalogInOrder'
<1> DEFINE w == work[c]
           refusal == Refusal(store, Op(c))
<1>1. WorkTyped(w) /\ StoreGood(store) /\ w.pc = "begin" /\ IsCommand(Op(c)) /\ writer = NoWriter /\ writer # c
      /\ catalogSession' = catalogSession /\ store' = store
  BY RequestInOrder DEF Begin, At
<1>2. CASE refusal = "ok"
  <2>1. writer' = c /\ draft' = Effect(store, Op(c)) /\ work' = [work EXCEPT ![c] = SetPc(w, "commit")]
    BY <1>2 DEF Begin, SetPc
  <2>2. StoreGood(draft')
    BY <1>1, <1>2, <2>1, EffectKeepsOrder
  <2>3. WorkTyped(SetPc(w, "commit")) /\ SetPc(w, "commit").pc = "commit"
    BY <1>1, MovedIsTyped
  <2> QED BY <1>1, <2>1, <2>2, <2>3, StepKeepsOrder
<1>3. CASE refusal # "ok"
  <2>1. writer' = writer /\ draft' = draft /\ work' = [work EXCEPT ![c] = Ended(w, refusal)]
    BY <1>3 DEF Begin
  <2>2. refusal \in Outcomes
    BY <1>1, <1>3, RefusalsAreErrors DEF Outcomes
  <2>3. WorkTyped(Ended(w, refusal)) /\ Ended(w, refusal).pc = "ended"
    BY <1>1, <2>2, EndedIsTyped
  <2> QED BY <1>1, <2>1, <2>3, StepKeepsOrder
<1> QED BY <1>2, <1>3

LEMMA BusyKeepsOrder ==
  ASSUME CatalogInOrder, NEW c \in Clients, Busy(c)
  PROVE  CatalogInOrder'
<1> DEFINE w == work[c]
           next == IF w.attempts < RetryLimit THEN SetAttempts(w, w.attempts + 1) ELSE Ended(w, "busy")
<1>1. WorkTyped(w) /\ StoreGood(store) /\ w.pc = "begin" /\ writer # c
      /\ catalogSession' = catalogSession /\ store' = store /\ writer' = writer /\ draft' = draft
  BY RequestInOrder DEF Busy, At
<1>2. work' = [work EXCEPT ![c] = next]
  <2>1. work' = [work EXCEPT ![c] =
          IF w.attempts < RetryLimit THEN [w EXCEPT !.attempts = w.attempts + 1] ELSE Ended(w, "busy")]
    BY DEF Busy
  <2>2. [w EXCEPT !.attempts = w.attempts + 1] = SetAttempts(w, w.attempts + 1)
    BY DEF SetAttempts
  <2> QED BY <2>1, <2>2
<1>3. "busy" \in Outcomes
  BY DEF Outcomes
<1>4. WorkTyped(next) /\ next.pc # "commit"
  <2>1. WorkTyped(SetAttempts(w, w.attempts + 1)) /\ SetAttempts(w, w.attempts + 1).pc = "begin"
    BY <1>1, SleepingIsTyped
  <2>2. WorkTyped(Ended(w, "busy")) /\ Ended(w, "busy").pc = "ended"
    BY <1>1, <1>3, EndedIsTyped
  <2> QED BY <2>1, <2>2
<1> HIDE DEF next
<1> QED BY <1>1, <1>2, <1>4, StepKeepsOrder

LEMMA CommitKeepsOrder ==
  ASSUME CatalogInOrder, NEW c \in Clients, Commit(c)
  PROVE  CatalogInOrder'
<1> DEFINE w == work[c]
           outcome == IF w.cancelled THEN "cancelled" ELSE "ok"
<1>1. WorkTyped(w) /\ w.pc = "commit" /\ writer = c /\ StoreGood(draft) /\ writer' = NoWriter
      /\ catalogSession' = catalogSession /\ store' = Committed(draft)
  BY RequestInOrder DEF Commit
<1>2. work' = [work EXCEPT ![c] = Ended(w, outcome)]
  BY DEF Commit
<1>3. outcome \in Outcomes
  BY DEF Outcomes
<1> HIDE DEF outcome
<1>4. WorkTyped(Ended(w, outcome)) /\ Ended(w, outcome).pc = "ended"
  BY <1>1, <1>3, EndedIsTyped
<1>5. StoreGood(store')
  BY <1>1, CommittedKeepsOrder
<1> QED BY <1>1, <1>2, <1>4, <1>5, StepKeepsOrder

LEMMA CommitFailsKeepsOrder ==
  ASSUME CatalogInOrder, NEW c \in Clients, CommitFails(c)
  PROVE  CatalogInOrder'
<1> DEFINE w == work[c]
<1>1. WorkTyped(w) /\ w.pc = "commit" /\ writer = c /\ StoreGood(store) /\ writer' = NoWriter
      /\ catalogSession' = catalogSession /\ store' = store
      /\ work' = [work EXCEPT ![c] = Ended(w, "failed")] /\ "failed" \in Outcomes
  BY RequestInOrder DEF CommitFails, Outcomes
<1>2. WorkTyped(Ended(w, "failed")) /\ Ended(w, "failed").pc = "ended"
  BY <1>1, EndedIsTyped
<1> QED BY <1>1, <1>2, StepKeepsOrder

LEMMA CancelKeepsOrder ==
  ASSUME CatalogInOrder, NEW c \in Clients, CancelRequest(c)
  PROVE  CatalogInOrder'
<1> DEFINE w == work[c]
<1>1. WorkTyped(w) /\ StoreGood(store) /\ (writer = c => w.pc = "commit") /\ (w.pc = "commit" => writer = c)
      /\ catalogSession' = catalogSession /\ store' = store /\ "cancelled" \in Outcomes
  BY RequestInOrder DEF CancelRequest, Outcomes
<1>2. ASSUME w.pc # "idle"
      PROVE  WorkTyped(Ended(w, "cancelled")) /\ Ended(w, "cancelled").pc = "ended"
  BY <1>1, <1>2, EndedIsTyped
<1>3. CASE w.pc = "begin" /\ work' = [work EXCEPT ![c] = Ended(w, "cancelled")] /\ writer' = writer /\ draft' = draft
  BY <1>1, <1>2, <1>3, StepKeepsOrder
<1>4. CASE writer = c /\ work' = [work EXCEPT ![c] = SetCancelled(w, TRUE)] /\ writer' = writer /\ draft' = draft
  <2>1. WorkTyped(SetCancelled(w, TRUE)) /\ SetCancelled(w, TRUE).pc = "commit"
    BY <1>1, <1>4, SleepingIsTyped
  <2> QED BY <1>1, <1>4, <2>1, StepKeepsOrder
<1>5. CASE writer = c /\ work' = [work EXCEPT ![c] = Ended(w, "cancelled")] /\ writer' = NoWriter
  BY <1>1, <1>2, <1>5, StepKeepsOrder
<1> QED BY <1>3, <1>4, <1>5 DEF CancelRequest, At, SetCancelled

LEMMA SubmitKeepsOrder ==
  ASSUME CatalogInOrder, NEW c \in Clients, NEW request \in Scenario.requests, Submit(c, request)
  PROVE  CatalogInOrder'
<1> DEFINE kind == request.kind
           ops == request.ops
           w == Waiting([Idle EXCEPT !.kind = kind, !.ops = ops])
<1>1. work[c].pc = "idle" /\ writer # c /\ StoreGood(store) /\ catalogSession \in DOMAIN CatalogSessions
      /\ catalogSession' = catalogSession /\ store' = store /\ writer' = writer /\ draft' = draft
      /\ kind \in {"single", "batch"} /\ work' = [work EXCEPT ![c] = w]
  BY RequestInOrder DEF Submit, Accepts, At, CatalogInOrder
<1>2. Len(ops) \in Nat \ {0} /\ \A i \in 1 .. Len(ops) : IsCommand(ops[i])
  BY <1>1, CatalogAssumption DEF Scenario
<1> HIDE DEF kind, ops
<1>3. WorkTyped(w) /\ w.pc = "begin"
  BY <1>2, NewWaitIsTyped
<1> HIDE DEF w
<1> QED BY <1>1, <1>3, StepKeepsOrder

LEMMA ItemEndsKeepsOrder ==
  ASSUME CatalogInOrder, NEW c \in Clients, ItemEnds(c)
  PROVE  CatalogInOrder'
<1> DEFINE w == work[c]
           collected == w.kind = "batch" /\ w.outcome \in DomainErrors
           failures == w.failures \cup IF collected THEN {w.index} ELSE {}
           v == SetFailures(SetIndex(w, w.index + 1), failures)
<1>1. WorkTyped(w) /\ WorkShape(w) /\ w.pc = "ended" /\ HasCommands(w) /\ writer # c /\ StoreGood(store)
      /\ catalogSession' = catalogSession /\ store' = store /\ writer' = writer /\ draft' = draft
  BY RequestInOrder DEF ItemEnds, At
<1>2. \/ w.index < Len(w.ops) /\ work' = [work EXCEPT ![c] = Waiting(v)]
      \/ work' = [work EXCEPT ![c] = Idle]
  <2>1. work' = [work EXCEPT ![c] =
          IF w.index < Len(w.ops) /\ (collected \/ w.outcome = "ok")
          THEN Waiting([w EXCEPT !.index = w.index + 1, !.failures = failures]) ELSE Idle]
    BY DEF ItemEnds
  <2>2. [w EXCEPT !.index = w.index + 1, !.failures = failures] = v
    BY DEF SetIndex, SetFailures
  <2> HIDE DEF v, failures, collected
  <2> QED BY <2>1, <2>2
<1>3. CASE w.index < Len(w.ops) /\ work' = [work EXCEPT ![c] = Waiting(v)]
  <2> DEFINE u == SetIndex(w, w.index + 1)
  <2>1. WorkShape(u) /\ u.ops = w.ops /\ u.index = w.index + 1
    BY <1>1, IndexStays
  <2> HIDE DEF u, failures
  <2>2. WorkShape(v) /\ v.ops = u.ops /\ v.index = u.index
    BY <2>1, FailuresStays DEF u
  <2> HIDE DEF v
  <2>3. HasCommands(v)
    BY <1>1, <1>3, <2>1, <2>2 DEF HasCommands
  <2>4. WorkTyped(Waiting(v)) /\ Waiting(v).pc = "begin"
    BY <2>2, <2>3, WaitingIsTyped
  <2> QED BY <1>1, <1>3, <2>4, StepKeepsOrder
<1>4. CASE work' = [work EXCEPT ![c] = Idle]
  BY <1>1, <1>4, IdleIsTyped, StepKeepsOrder
<1> QED BY <1>2, <1>3, <1>4

LEMMA OptimizerRunsKeepsOrder ==
  ASSUME CatalogInOrder, OptimizerRuns
  PROVE  CatalogInOrder'
<1>1. PICK t \in Scenario.optimized \cap DOMAIN store.tables :
        store' = [store EXCEPT !.running =
          IF t \in DOMAIN @ THEN Without(@, {t})
          ELSE With(@, t, <<store.databases[store.tables[t].database], store.tables[t].name>>)]
  BY DEF OptimizerRuns
<1>2. StoreGood(store')
  BY <1>1, RunsKeepOrder DEF CatalogInOrder
<1>3. catalogSession' = catalogSession /\ draft' = draft /\ writer' = writer /\ work' = work
  BY DEF OptimizerRuns
<1> QED BY <1>2, <1>3 DEF CatalogInOrder, WorkInOrder, LockInOrder, At

LEMMA SubmitCreateKeepsOrder ==
  ASSUME CatalogInOrder, NEW c \in Clients, NEW request \in Scenario.requests, SubmitCreate(c, request)
  PROVE  CatalogInOrder'
<1> DEFINE op == Definition(request, lastLocation + 1, CreateDocument(request.input))
           ops == <<op>>
           w == [Idle EXCEPT !.pc = "write", !.kind = "publish", !.ops = ops]
<1>1. writer # c /\ StoreGood(store)
      /\ catalogSession' = catalogSession /\ store' = store /\ writer' = writer /\ draft' = draft
      /\ work' = [work EXCEPT ![c] = w]
  BY RequestInOrder DEF SubmitCreate, Accepts, At
<1>2. op.kind = "CreateTable" /\ op.name \in RawValues
  <2>1. request.kind = "create" /\ catalogSession \in DOMAIN CatalogSessions
    BY DEF SubmitCreate, CatalogInOrder
  <2>2. request.name \in RawValues
    BY <2>1, FormatAssumption DEF Scenario
  <2> QED BY <2>2 DEF Definition
<1> HIDE DEF op
<1>3. Len(ops) \in Nat \ {0} /\ \A i \in 1 .. Len(ops) : IsCommand(ops[i])
  BY <1>2 DEF IsCommand
<1> HIDE DEF ops
<1>4. WorkTyped(w) /\ w.pc = "write"
  BY <1>3, NewRequestIsTyped
<1> HIDE DEF w
<1> QED BY <1>1, <1>4, StepKeepsOrder

LEMMA SubmitUpdateKeepsOrder ==
  ASSUME CatalogInOrder, NEW c \in Clients, NEW request \in Scenario.requests, SubmitUpdate(c, request)
  PROVE  CatalogInOrder'
<1>1. writer # c /\ StoreGood(store)
      /\ catalogSession' = catalogSession /\ store' = store /\ writer' = writer /\ draft' = draft
  BY RequestInOrder DEF SubmitUpdate, Accepts, At
<1>2. PICK t \in FindTable(store, request.database, request.name) :
        work' = [work EXCEPT ![c] = [Idle EXCEPT !.pc = "read", !.kind = "publish",
          !.ops = <<[kind |-> "UpdateTable", database |-> request.database, old |-> request.name,
                     name |-> request.name, keys |-> << >>, columns |-> store.tables[t].columns,
                     location |-> NoFile, previous |-> store.tables[t].location,
                     skipArchive |-> request.skipArchive,
                     version |-> IF request.version = AnyVersion THEN store.tables[t].version
                                 ELSE request.version]>>]]
  BY DEF SubmitUpdate
<1> DEFINE op == [kind |-> "UpdateTable", database |-> request.database, old |-> request.name,
                  name |-> request.name, keys |-> << >>, columns |-> store.tables[t].columns,
                  location |-> NoFile, previous |-> store.tables[t].location,
                  skipArchive |-> request.skipArchive,
                  version |-> IF request.version = AnyVersion THEN store.tables[t].version ELSE request.version]
           ops == <<op>>
           w == [Idle EXCEPT !.pc = "read", !.kind = "publish", !.ops = ops]
<1>3. work' = [work EXCEPT ![c] = w]
  BY <1>2
<1>4. op.kind = "UpdateTable" /\ {"kind", "name"} \subseteq DOMAIN op /\ op.name \in RawValues
  <2>1. request.kind = "update" /\ catalogSession \in DOMAIN CatalogSessions
    BY DEF SubmitUpdate, CatalogInOrder
  <2>2. request.name \in RawValues
    BY <2>1, FormatAssumption DEF Scenario
  <2> QED BY <2>2
<1> HIDE DEF op
<1>5. Len(ops) \in Nat \ {0} /\ \A i \in 1 .. Len(ops) : IsCommand(ops[i])
  BY <1>4 DEF IsCommand
<1>6. \E x : ops = <<x>> /\ {"kind", "name"} \subseteq DOMAIN x /\ x.kind = "UpdateTable"
  BY <1>4
<1> HIDE DEF ops
<1>7. WorkTyped(w) /\ w.pc = "read"
  BY <1>5, <1>6, NewRequestIsTyped
<1> HIDE DEF w
<1> QED BY <1>1, <1>3, <1>7, StepKeepsOrder

\* A publication plans its command anew once it has read the metadata.
LEMMA ReadMetadataKeepsOrder ==
  ASSUME CatalogInOrder, NEW c \in Clients, ReadMetadata(c)
  PROVE  CatalogInOrder'
<1> DEFINE w == work[c]
           doc == UpdateDocument(files[plan[c].base], plan[c].base, plan[c].request.updates)
           location == lastLocation + 1
           columns == GlueColumns(CurrentSchema(doc))
           a == SetPc(w, "write")
           b == SetOps(a, [a.ops EXCEPT ![1] = [a.ops[1] EXCEPT !.location = location]])
           v == SetOps(b, [b.ops EXCEPT ![1] = [b.ops[1] EXCEPT !.columns = columns]])
<1>1. WorkTyped(w) /\ WorkShape(w) /\ w.pc = "read" /\ HasCommands(w) /\ writer # c /\ StoreGood(store)
      /\ catalogSession' = catalogSession /\ store' = store /\ writer' = writer /\ draft' = draft
  BY RequestInOrder DEF ReadMetadata, At
<1>2. work' = [work EXCEPT ![c] = [w EXCEPT !.pc = "write", !.ops[1].location = location,
                                            !.ops[1].columns = columns]]
  BY DEF ReadMetadata
<1> HIDE DEF doc, location, columns
<1>3. [w EXCEPT !.pc = "write", !.ops[1].location = location, !.ops[1].columns = columns] = v
  BY DEF SetPc, SetOps
<1>4. PICK op : w.ops = <<op>> /\ {"kind", "name"} \subseteq DOMAIN op /\ op.kind = "UpdateTable"
  BY <1>1 DEF WorkTyped
<1>5. WorkShape(a) /\ a.pc = "write" /\ a.ops = w.ops /\ a.index = w.index /\ a.outcome = w.outcome
  BY <1>1, PcStays
<1> DEFINE located == [op EXCEPT !.location = location]
           planned == [located EXCEPT !.columns = columns]
<1>6. planned.kind = "UpdateTable" /\ planned.name \in RawValues
  <2>1. op.name \in RawValues
    BY <1>1, <1>4 DEF HasCommands, IsCommand
  <2>2. {"kind", "name"} \subseteq DOMAIN located /\ located.kind = "UpdateTable" /\ located.name = op.name
    BY <1>4
  <2> QED BY <2>1, <2>2
<1> HIDE DEF a
<1>7. [a.ops EXCEPT ![1] = [a.ops[1] EXCEPT !.location = location]] = <<located>>
  <2>1. a.ops[1] = op
    BY <1>4, <1>5
  <2> HIDE DEF located
  <2>2. [<<op>> EXCEPT ![1] = located] = <<located>>
    OBVIOUS
  <2> QED BY <1>4, <1>5, <2>1, <2>2 DEF located
<1>8. WorkShape(b) /\ b.pc = "write" /\ b.ops = <<located>> /\ b.index = w.index /\ b.outcome = w.outcome
  BY <1>5, <1>7, OpsStays
<1> HIDE DEF b, located
<1>9. [b.ops EXCEPT ![1] = [b.ops[1] EXCEPT !.columns = columns]] = <<planned>>
  <2>1. b.ops[1] = located
    BY <1>8
  <2> HIDE DEF planned
  <2>2. [<<located>> EXCEPT ![1] = planned] = <<planned>>
    OBVIOUS
  <2> QED BY <1>8, <2>1, <2>2 DEF planned
<1>10. WorkShape(v) /\ v.pc = "write" /\ v.ops = <<planned>> /\ v.index = w.index /\ v.outcome = w.outcome
  BY <1>8, <1>9, OpsStays
<1> HIDE DEF v, planned
<1>11. HasCommands(v)
  BY <1>1, <1>4, <1>6, <1>10 DEF HasCommands, IsCommand
<1>12. WorkTyped(v)
  BY <1>1, <1>10, <1>11 DEF WorkTyped
<1> QED BY <1>1, <1>2, <1>3, <1>10, <1>12, StepKeepsOrder

LEMMA PublicationKeepsOrder ==
  ASSUME CatalogInOrder, NEW c \in Clients, PublicationStep(c)
  PROVE  CatalogInOrder'
<1> DEFINE w == work[c]
<1>1. WorkTyped(w) /\ WorkShape(w) /\ StoreGood(store) /\ (writer = c => w.pc = "commit")
      /\ (w.pc # "idle" => HasCommands(w))
  BY RequestInOrder
<1>2. ASSUME ReadFails(c) \/ WriteCandidate(c) \/ WriteFails(c) \/ PublicationEnds(c) \/ Compensate(c)
      PROVE  catalogSession' = catalogSession /\ store' = store /\ writer' = writer /\ draft' = draft
  BY <1>2 DEF ReadFails, WriteCandidate, WriteFails, PublicationEnds, Compensate
<1>3. CASE ReadFails(c)
  <2>1. w.pc = "read" /\ work' = [work EXCEPT ![c] = Idle]
    BY <1>3 DEF ReadFails, At
  <2> QED BY <1>1, <1>2, <1>3, <2>1, IdleIsTyped, StepKeepsOrder
<1>4. CASE ReadMetadata(c)
  BY <1>4, ReadMetadataKeepsOrder
<1>5. CASE WriteCandidate(c)
  <2>1. w.pc = "write" /\ work' = [work EXCEPT ![c] = Waiting(w)]
    BY <1>5 DEF WriteCandidate, At
  <2>2. WorkTyped(Waiting(w)) /\ Waiting(w).pc = "begin"
    BY <1>1, <2>1, WaitingIsTyped
  <2> QED BY <1>1, <1>2, <1>5, <2>1, <2>2, StepKeepsOrder
<1>6. CASE WriteFails(c)
  <2>1. w.pc = "write" /\ work' = [work EXCEPT ![c] = SetPc(w, "compensate")]
    BY <1>6 DEF WriteFails, At, Step, SetPc
  <2>2. WorkTyped(SetPc(w, "compensate")) /\ SetPc(w, "compensate").pc = "compensate"
    BY <1>1, <2>1, MovedIsTyped
  <2> QED BY <1>1, <1>2, <1>6, <2>1, <2>2, StepKeepsOrder
<1>7. CASE Publish(c)
  BY <1>7, CommitKeepsOrder DEF Publish
<1>8. CASE PublicationEnds(c)
  <2>1. w.pc = "ended"
        /\ \/ work' = [work EXCEPT ![c] = Idle]
           \/ work' = [work EXCEPT ![c] = SetPc(w, "compensate")]
    BY <1>8 DEF PublicationEnds, At, Step, SetPc
  <2>2. WorkTyped(SetPc(w, "compensate")) /\ SetPc(w, "compensate").pc = "compensate"
    BY <1>1, <2>1, MovedIsTyped
  <2> QED BY <1>1, <1>2, <1>8, <2>1, <2>2, IdleIsTyped, StepKeepsOrder
<1>9. CASE Compensate(c)
  <2>1. w.pc = "compensate" /\ work' = [work EXCEPT ![c] = Idle]
    BY <1>9 DEF Compensate, At
  <2> QED BY <1>1, <1>2, <1>9, <2>1, IdleIsTyped, StepKeepsOrder
<1> QED BY <1>3, <1>4, <1>5, <1>6, <1>7, <1>8, <1>9 DEF PublicationStep

LEMMA InitIsInOrder ==
  ASSUME FormatInit
  PROVE  CatalogInOrder
<1> DEFINE setup == Scenario.setup
<1>1. catalogSession \in DOMAIN CatalogSessions /\ store = StoresAfter(setup)[Len(setup)] /\ writer = NoWriter
      /\ work = [c \in Clients |-> Idle]
  BY DEF FormatInit, CatalogInit
<1>2. Len(setup) \in Nat
      /\ \A i \in 1 .. Len(setup) :
           IsCommand(setup[i]) /\ Refusal(StoresAfter(setup)[i - 1], setup[i]) = "ok"
  BY <1>1, CatalogAssumption DEF Scenario
<1> HIDE DEF setup
<1>3. StoreGood(store)
  BY <1>1, <1>2, SetupIsInOrder
<1>4. \A c \in Clients : work[c] = Idle
  BY <1>1
<1>5. WorkInOrder
  BY <1>1, <1>4, IdleIsTyped DEF WorkInOrder
<1>6. LockInOrder
  BY <1>1, <1>4, IdleIsTyped DEF LockInOrder, At
<1> QED BY <1>1, <1>3, <1>5, <1>6 DEF CatalogInOrder

LEMMA NextKeepsOrder ==
  ASSUME CatalogInOrder, [FormatNext]_<<catalogVars, formatVars>>
  PROVE  CatalogInOrder'
<1>1. CASE UNCHANGED <<catalogVars, formatVars>>
  BY <1>1 DEF catalogVars, CatalogInOrder, WorkInOrder, LockInOrder, At
<1>2. CASE CatalogStep
  <2>1. ASSUME NEW c \in Clients, Begin(c) PROVE CatalogInOrder'
    BY <2>1, BeginKeepsOrder
  <2>2. ASSUME NEW c \in Clients, Busy(c) PROVE CatalogInOrder'
    BY <2>2, BusyKeepsOrder
  <2>3. ASSUME NEW c \in Clients, Commit(c) PROVE CatalogInOrder'
    BY <2>3, CommitKeepsOrder
  <2>4. ASSUME NEW c \in Clients, CommitFails(c) PROVE CatalogInOrder'
    BY <2>4, CommitFailsKeepsOrder
  <2>5. ASSUME NEW c \in Clients, CancelRequest(c) PROVE CatalogInOrder'
    BY <2>5, CancelKeepsOrder
  <2>6. ASSUME NEW c \in Clients, ItemEnds(c) PROVE CatalogInOrder'
    BY <2>6, ItemEndsKeepsOrder
  <2>7. ASSUME NEW c \in Clients, NEW request \in Scenario.requests, Submit(c, request) PROVE CatalogInOrder'
    BY <2>7, SubmitKeepsOrder
  <2>8. CASE OptimizerRuns
    BY <2>8, OptimizerRunsKeepsOrder
  <2> QED BY <1>2, <2>1, <2>2, <2>3, <2>4, <2>5, <2>6, <2>7, <2>8 DEF CatalogStep
<1>3. ASSUME NEW c \in Clients, PublicationStep(c) PROVE CatalogInOrder'
  BY <1>3, PublicationKeepsOrder
<1>4. ASSUME NEW c \in Clients, NEW request \in Scenario.requests, SubmitCreate(c, request) PROVE CatalogInOrder'
  BY <1>4, SubmitCreateKeepsOrder
<1>5. ASSUME NEW c \in Clients, NEW request \in Scenario.requests, SubmitUpdate(c, request) PROVE CatalogInOrder'
  BY <1>5, SubmitUpdateKeepsOrder
<1>6. CASE LateWrite
  BY <1>6 DEF LateWrite, catalogVars, CatalogInOrder, WorkInOrder, LockInOrder, At
<1> QED BY <1>1, <1>2, <1>3, <1>4, <1>5, <1>6 DEF FormatNext

LEMMA OrderIsConsistency ==
  ASSUME CatalogInOrder
  PROVE  CatalogIsConsistent
<1>1. StoreTyped(store) /\ Parents(store) /\ UniqueNames(store) /\ FreshFacts(store) /\ RunsAreNamed(store)
      /\ PartitionsTyped(store.partitions)
  BY DEF CatalogInOrder, StoreGood, StoreTyped, RowsTyped
<1>2. StoreIsTyped
  BY <1>1 DEF CatalogInOrder, WorkInOrder, LockInOrder, WorkTyped, StoreIsTyped, StoreTyped, RowsTyped
<1>3. RowsHaveParents
  <2>1. ASSUME NEW t \in DOMAIN store.tables, NEW u \in DOMAIN store.tables \ {t}
        PROVE  <<store.tables[t].database, store.tables[t].name>> # <<store.tables[u].database, store.tables[u].name>>
    BY <1>1 DEF UniqueNames
  <2>2. ASSUME NEW p \in DOMAIN store.partitions, NEW q \in DOMAIN store.partitions \ {p}
        PROVE  store.partitions[p] # store.partitions[q]
    BY <1>1 DEF UniqueNames
  <2> QED BY <1>1, <2>1, <2>2 DEF RowsHaveParents, Parents, UniqueNames
<1>4. FactsAreFresh
  BY <1>1 DEF FactsAreFresh, FreshFacts
<1>5. VersionsGrow
  BY <1>1 DEF VersionsGrow, StoreTyped, RowsTyped, TableTyped
<1>6. RunsKnowTheirTable
  BY <1>1 DEF RunsKnowTheirTable, RunsAreNamed
<1> QED BY <1>2, <1>3, <1>4, <1>5, <1>6 DEF CatalogIsConsistent

-----------------------------------------------------------------------------
\* The inductive invariant: the committed catalog and the draft of the open transaction are in
\* order, and only the client that is about to commit holds the lock.
THEOREM CatalogStaysInOrder == FormatSpec => []CatalogInOrder
<1>1. FormatInit => CatalogInOrder
  BY InitIsInOrder
<1>2. CatalogInOrder /\ [FormatNext]_<<catalogVars, formatVars>> => CatalogInOrder'
  BY NextKeepsOrder
<1> QED BY <1>1, <1>2, PTL DEF FormatSpec

\* Whatever commands of how many clients commit, fail, are cancelled or wait for the lock, the
\* committed catalog is one whole.
THEOREM CatalogIsAlwaysConsistent == FormatSpec => []CatalogIsConsistent
<1>1. CatalogInOrder => CatalogIsConsistent
  BY OrderIsConsistency
<1> QED BY <1>1, CatalogStaysInOrder, PTL
==============================================================================
