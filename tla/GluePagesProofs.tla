-------------------------- MODULE GluePagesProofs --------------------------
(***************************************************************************)
(* Proofs about the listings of GluePages, for any tables, expressions,    *)
(* segments and page sizes, whatever other requests do between the pages.  *)
(***************************************************************************)
EXTENDS GluePages, GlueFormatProofs

-----------------------------------------------------------------------------
(***************************************************************************)
(* Entries in order                                                        *)
(***************************************************************************)
\* What orders an entry: its key is text, and its row tells apart those of one key.
IsEntry(e) == e.key \in PartitionKey /\ e.row \in Int

\* Entries of which no two are of one row
EntriesTyped(entries) ==
  /\ IsFiniteSet(entries) /\ \A e \in entries : IsEntry(e)
  /\ \A a, b \in entries : a.row = b.row => a = b

LEMMA EntriesAreOrdered ==
  ASSUME NEW a, IsEntry(a), NEW b, IsEntry(b), NEW c, IsEntry(c)
  PROVE  /\ ~EntryLess(a, a)
         /\ EntryLess(a, b) /\ EntryLess(b, c) => EntryLess(a, c)
         /\ a.row # b.row => EntryLess(a, b) \/ EntryLess(b, a)
<1> DEFINE v == a.key
           w == b.key
           u == c.key
<1>1. v \in PartitionKey /\ w \in PartitionKey /\ u \in PartitionKey /\ {a.row, b.row, c.row} \subseteq Int
  BY DEF IsEntry
<1>2. /\ EntryLess(a, b) <=> KeyLess(v, w) \/ (v = w /\ a.row < b.row)
      /\ EntryLess(b, a) <=> KeyLess(w, v) \/ (w = v /\ b.row < a.row)
      /\ EntryLess(b, c) <=> KeyLess(w, u) \/ (w = u /\ b.row < c.row)
      /\ EntryLess(a, c) <=> KeyLess(v, u) \/ (v = u /\ a.row < c.row)
      /\ EntryLess(a, a) <=> KeyLess(v, v) \/ a.row < a.row
  BY DEF EntryLess
<1> HIDE DEF v, w, u
<1>3. ~KeyLess(v, v)
  BY <1>1, KeysAreIrreflexive
<1>4. KeyLess(v, w) /\ KeyLess(w, u) => KeyLess(v, u)
  BY <1>1, KeysAreTransitive
<1>5. v # w => KeyLess(v, w) \/ KeyLess(w, v)
  BY <1>1, KeysAreTotal
<1> QED BY <1>1, <1>2, <1>3, <1>4, <1>5

LEMMA UpToNumber ==
  ASSUME NEW n \in Nat
  PROVE  IsFiniteSet(1..n) /\ Cardinality(1..n) = n
<1> DEFINE one == 1
<1>1. one \in Int /\ one = 1
  OBVIOUS
<1> HIDE DEF one
<1>2. IsFiniteSet(one..n) /\ Cardinality(one..n) = IF one > n THEN 0 ELSE n - one + 1
  BY <1>1, FS_Interval
<1>3. (IF one > n THEN 0 ELSE n - one + 1) = n
  BY <1>1
<1> QED BY <1>1, <1>2, <1>3

\* The list in order has each entry once, each behind those before it.
LEMMA InOrderIsSorted ==
  ASSUME NEW S, EntriesTyped(S)
  PROVE  LET s == InOrder(S)
             n == Cardinality(S)
         IN /\ n \in Nat /\ s \in [1..n -> S] /\ Len(s) = n
            /\ \A x \in S : \E i \in 1..n : s[i] = x
            /\ \A i, j \in 1..n : i < j <=> EntryLess(s[i], s[j])
<1> DEFINE n == Cardinality(S)
           Ahead(x) == {y \in S : EntryLess(y, x)}
           rank == [x \in S |-> Cardinality(Ahead(x))]
           s == InOrder(S)
<1>0. IsFiniteSet(S)
  BY DEF EntriesTyped
<1>a. /\ \A x \in S : ~EntryLess(x, x)
      /\ \A x, y, z \in S : EntryLess(x, y) /\ EntryLess(y, z) => EntryLess(x, z)
      /\ \A x, y \in S : x = y \/ EntryLess(x, y) \/ EntryLess(y, x)
  <2>1. \A x \in S : IsEntry(x)
    BY DEF EntriesTyped
  <2>2. \A x, y \in S : x # y => x.row # y.row
    BY DEF EntriesTyped
  <2>3. ASSUME NEW x \in S, NEW y \in S, NEW z \in S
        PROVE  /\ ~EntryLess(x, x)
               /\ EntryLess(x, y) /\ EntryLess(y, z) => EntryLess(x, z)
               /\ x = y \/ EntryLess(x, y) \/ EntryLess(y, x)
    BY <2>1, <2>2, EntriesAreOrdered
  <2> QED BY <2>3
<1>1. n \in Nat
  BY <1>0, FS_CardinalityType
<1>2. ASSUME NEW x \in S
      PROVE  rank[x] \in 0 .. n - 1 /\ IsFiniteSet(Ahead(x)) /\ rank[x] = Cardinality(Ahead(x))
  <2>1. Ahead(x) \in SUBSET S /\ x \notin Ahead(x) /\ rank[x] = Cardinality(Ahead(x))
    BY <1>a
  <2> DEFINE A == Ahead(x)
  <2> HIDE DEF A
  <2>2. A \in SUBSET S /\ x \notin A
    BY <2>1 DEF A
  <2>3. IsFiniteSet(A) /\ Cardinality(A) <= n /\ Cardinality(A) # n
    BY <1>0, <2>2, FS_Subset
  <2>4. Cardinality(A) \in Nat
    BY <2>3, FS_CardinalityType
  <2>5. Cardinality(A) \in 0 .. n - 1
    <3> HIDE DEF n
    <3> QED BY <1>1, <2>3, <2>4
  <2> HIDE DEF rank, n
  <2> QED BY <2>1, <2>3, <2>5 DEF A
<1>3. ASSUME NEW x \in S, NEW y \in S, EntryLess(x, y)
      PROVE  rank[x] < rank[y]
  <2> DEFINE A == Ahead(x)
             B == Ahead(y)
  <2>1. A \in SUBSET B /\ x \in B /\ x \notin A
    BY <1>a, <1>3
  <2>2. /\ IsFiniteSet(B) /\ rank[x] = Cardinality(A) /\ rank[y] = Cardinality(B)
        /\ rank[x] \in 0 .. n - 1 /\ rank[y] \in 0 .. n - 1
    <3> HIDE DEF rank, n
    <3> QED BY <1>2
  <2> HIDE DEF A, B, rank, n
  <2>3. Cardinality(A) <= Cardinality(B) /\ Cardinality(A) # Cardinality(B)
    BY <2>1, <2>2, FS_Subset
  <2> QED BY <1>1, <2>2, <2>3
<1>4. s = [i \in 1..n |-> CHOOSE x \in S : rank[x] = i - 1]
  <2>1. s = [i \in 1..n |-> CHOOSE x \in S : Cardinality(Ahead(x)) = i - 1]
    BY DEF InOrder
  <2>2. \A i \in 1..n : (CHOOSE x \in S : Cardinality(Ahead(x)) = i - 1) = (CHOOSE x \in S : rank[x] = i - 1)
    <3> TAKE i \in 1..n
    <3> DEFINE b == i - 1
    <3> HIDE DEF b
    <3>1. \A x \in S : rank[x] = b <=> Cardinality(Ahead(x)) = b
      OBVIOUS
    <3>2. (CHOOSE x \in S : Cardinality(Ahead(x)) = b) = (CHOOSE x \in S : rank[x] = b)
      BY <3>1
    <3> QED BY <3>2 DEF b
  <2> HIDE DEF rank
  <2> QED BY <2>1, <2>2
<1>5. \A x \in S : rank[x] \in 0 .. n - 1
  BY <1>2
<1> HIDE DEF rank, s, n
<1>6. ASSUME NEW x \in S, NEW y \in S, rank[x] = rank[y]
      PROVE  x = y
  <2>1. ~EntryLess(x, y)
    BY <1>1, <1>3, <1>5, <1>6
  <2>2. ~EntryLess(y, x)
    BY <1>1, <1>3, <1>5, <1>6
  <2> QED BY <1>a, <2>1, <2>2
<1>7. ASSUME NEW i \in 1..n
      PROVE  \E x \in S : rank[x] = i - 1
  <2> DEFINE f == [x \in S |-> rank[x] + 1]
  <2>1. f \in [S -> 1..n]
    BY <1>1, <1>5
  <2>2. \A x, y \in S : f[x] = f[y] => x = y
    <3> TAKE x, y \in S
    <3>1. f[x] = rank[x] + 1 /\ f[y] = rank[y] + 1 /\ rank[x] \in Int /\ rank[y] \in Int
      BY <1>1, <1>5
    <3> HIDE DEF f
    <3> QED BY <1>6, <3>1
  <2>3. IsFiniteSet(1..n) /\ Cardinality(1..n) = n
    BY <1>1, UpToNumber
  <2>4. \A x \in S : f[x] = rank[x] + 1
    OBVIOUS
  <2> HIDE DEF f
  <2> DEFINE to == 1..n
  <2>5. f \in Injection(S, to)
    BY <2>1, <2>2 DEF Injection, IsInjective
  <2>6. Cardinality(S) = Cardinality(to) /\ IsFiniteSet(to)
    BY <2>3 DEF n
  <2>7. f \in Surjection(S, to)
    <3> HIDE DEF to
    <3> QED BY <2>5, <2>6, FS_Injection
  <2>8. PICK x \in S : f[x] = i
    BY <2>7 DEF Surjection
  <2>9. rank[x] + 1 = i /\ rank[x] \in Int
    BY <1>1, <1>5, <2>4, <2>8
  <2> QED BY <2>9
<1>8. ASSUME NEW i \in 1..n
      PROVE  s[i] \in S /\ rank[s[i]] = i - 1
  <2>1. s[i] = CHOOSE x \in S : rank[x] = i - 1
    BY <1>4
  <2> QED BY <1>7, <2>1
<1>9. s \in [1..n -> S] /\ Len(s) = n
  <2>1. \A i \in 1..n : s[i] \in S
    BY <1>8
  <2> QED BY <1>1, <1>4, <2>1
<1>10. ASSUME NEW x \in S
       PROVE  \E i \in 1..n : s[i] = x
  <2> DEFINE i == rank[x] + 1
  <2>1. i \in 1..n /\ i - 1 = rank[x]
    BY <1>1, <1>5
  <2> HIDE DEF i
  <2>2. s[i] \in S /\ rank[s[i]] = rank[x]
    BY <1>8, <2>1
  <2> QED BY <1>6, <2>1, <2>2
<1>11. ASSUME NEW i \in 1..n, NEW j \in 1..n
       PROVE  i < j <=> EntryLess(s[i], s[j])
  <2>1. s[i] \in S /\ s[j] \in S /\ rank[s[i]] = i - 1 /\ rank[s[j]] = j - 1 /\ i \in Int /\ j \in Int
    BY <1>1, <1>8
  <2>2. EntryLess(s[i], s[j]) => i < j
    BY <1>3, <2>1
  <2>3. EntryLess(s[j], s[i]) => j < i
    BY <1>3, <2>1
  <2>4. s[i] = s[j] => i = j
    BY <2>1
  <2> QED BY <1>a, <2>1, <2>2, <2>3, <2>4
<1> QED BY <1>1, <1>9, <1>10, <1>11 DEF s, n

-----------------------------------------------------------------------------
(***************************************************************************)
(* A page of a keyset listing                                              *)
(***************************************************************************)
IsList(list) == list \in Seq({list[i] : i \in 1 .. Len(list)})
Ascending(list) == \A i, j \in 1 .. Len(list) : i < j => EntryLess(list[i], list[j])
Among(e, list) == \E i \in 1 .. Len(list) : list[i] = e

LEMMA SequenceIsList ==
  ASSUME NEW S, NEW list \in Seq(S)
  PROVE  IsList(list) /\ Len(list) \in Nat /\ DOMAIN list = 1 .. Len(list)
         /\ \A i \in 1 .. Len(list) : list[i] \in S
<1>1. Len(list) \in Nat /\ list \in [1 .. Len(list) -> {list[i] : i \in 1 .. Len(list)}] /\ DOMAIN list = 1 .. Len(list)
      /\ \A i \in 1 .. Len(list) : list[i] \in S
  OBVIOUS
<1> QED BY <1>1 DEF IsList

LEMMA ListsJoin ==
  ASSUME NEW a, IsList(a), NEW b, IsList(b)
  PROVE  LET c == a \o b
         IN /\ IsList(c) /\ Len(c) = Len(a) + Len(b) /\ Len(a) \in Nat /\ Len(b) \in Nat
            /\ \A i \in 1 .. Len(a) : c[i] = a[i]
            /\ \A i \in 1 .. Len(b) : c[Len(a) + i] = b[i]
<1> DEFINE A == {a[i] : i \in 1 .. Len(a)}
           B == {b[i] : i \in 1 .. Len(b)}
           S == A \cup B
           c == a \o b
<1>1. a \in Seq(A) /\ b \in Seq(B)
  BY DEF IsList
<1>2. a \in Seq(S) /\ b \in Seq(S)
  <2>1. A \subseteq S /\ B \subseteq S
    OBVIOUS
  <2> HIDE DEF A, B, S
  <2> QED BY <1>1, <2>1
<1> HIDE DEF S
<1>3. /\ c \in Seq(S) /\ Len(c) = Len(a) + Len(b) /\ Len(a) \in Nat /\ Len(b) \in Nat
      /\ \A i \in 1 .. Len(a) + Len(b) : c[i] = IF i <= Len(a) THEN a[i] ELSE b[i - Len(a)]
  BY <1>2, ConcatProperties
<1> HIDE DEF c
<1>4. IsList(c)
  BY <1>3, SequenceIsList
<1>5. \A i \in 1 .. Len(a) : c[i] = a[i]
  BY <1>3
<1>6. \A i \in 1 .. Len(b) : c[Len(a) + i] = b[i]
  <2> TAKE i \in 1 .. Len(b)
  <2>1. Len(a) + i \in 1 .. Len(a) + Len(b) /\ ~(Len(a) + i <= Len(a)) /\ Len(a) + i - Len(a) = i
    BY <1>3
  <2> QED BY <1>3, <2>1
<1> QED BY <1>3, <1>4, <1>5, <1>6 DEF c

\* The first m of a list
LEMMA FrontOfList ==
  ASSUME NEW list, NEW n \in Nat, NEW S, list \in [1 .. n -> S], NEW m \in 0 .. n
  PROVE  LET front == SubSeq(list, 1, m)
         IN IsList(front) /\ Len(front) = m /\ \A i \in 1 .. m : front[i] = list[i]
<1> DEFINE front == SubSeq(list, 1, m)
           one == 1
<1>1. one \in Int /\ m \in Int /\ \A i \in one .. m : list[i] \in S
  OBVIOUS
<1> HIDE DEF one
<1>2. /\ SubSeq(list, one, m) \in Seq(S)
      /\ Len(SubSeq(list, one, m)) = IF one <= m THEN m - one + 1 ELSE 0
      /\ \A i \in 1 .. m - one + 1 : SubSeq(list, one, m)[i] = list[one + i - 1]
  BY <1>1, SubSeqProperties
<1>3. /\ front \in Seq(S) /\ Len(front) = IF 1 <= m THEN m - 1 + 1 ELSE 0
      /\ \A i \in 1 .. m - 1 + 1 : front[i] = list[1 + i - 1]
  BY <1>2 DEF one
<1> HIDE DEF front
<1>4. Len(front) = m /\ \A i \in 1 .. m : front[i] = list[i]
  BY <1>3
<1>5. IsList(front)
  BY <1>3, SequenceIsList
<1> QED BY <1>4, <1>5 DEF front

\* What a page is of the rows it may hold: their beginning, in order, and when there are more of
\* them a token for the row it ends with.
IsPageOf(page, after) ==
  LET list == page.entries
      n == Len(list)
  IN /\ IsList(list) /\ Ascending(list) /\ \A i \in 1 .. n : list[i] \in after
     /\ \/ page.token = NoToken /\ \A e \in after : Among(e, list)
        \/ /\ page.token # NoToken /\ n > 0 /\ page.token.row = list[n].row
           /\ \A e \in after : Among(e, list) \/ EntryLess(list[n], e)

After(selected, scope, row) ==
  {e \in selected : row # NoRow => \A b \in scope : b.row = row => EntryLess(b, e)}

LEMMA KeysetPageIsNext ==
  ASSUME NEW scope, EntriesTyped(scope), \A e \in scope : e.row # NoRow, NEW selected \in SUBSET scope,
         NEW size \in Nat \ {0}, NEW token, KeysetPage(selected, scope, size, token).outcome = "ok"
  PROVE  /\ IsPageOf(KeysetPage(selected, scope, size, token), After(selected, scope, token.row))
         /\ token.row # NoRow => \E b \in scope : b.row = token.row
<1> DEFINE cursor == {e \in scope : e.row = token.row}
           after == {e \in selected : token.row # NoRow => \A b \in cursor : Beyond(e, b)}
           rows == InOrder(after)
           n == Cardinality(after)
           m == IF Len(rows) < size THEN Len(rows) ELSE size
           list == SubSeq(rows, 1, m)
           following == [offset |-> 0, row |-> list[Len(list)].row]
           page == KeysetPage(selected, scope, size, token)
<1>1. page = IF token.row # NoRow /\ cursor = {} THEN InvalidInput
             ELSE IF Len(rows) <= size THEN LastPage(list)
             ELSE [outcome |-> "ok", entries |-> list, token |-> following]
  BY DEF KeysetPage
<1>2. after = After(selected, scope, token.row)
  BY DEF After, Beyond
<1>3. EntriesTyped(after)
  <2>1. after \subseteq scope
    OBVIOUS
  <2> HIDE DEF after
  <2> QED BY <2>1, FS_Subset DEF EntriesTyped
<1> HIDE DEF after
<1>4. /\ n \in Nat /\ rows \in [1 .. n -> after] /\ Len(rows) = n
      /\ \A x \in after : \E i \in 1 .. n : rows[i] = x
      /\ \A i, j \in 1 .. n : i < j <=> EntryLess(rows[i], rows[j])
  BY <1>3, InOrderIsSorted
<1> HIDE DEF rows, n
<1>5. m \in 0 .. n /\ (n <= size => m = n) /\ (n > size => m = size /\ m < n) /\ size \in Nat /\ size > 0
  BY <1>4
<1> HIDE DEF m
<1>6. IsList(list) /\ Len(list) = m /\ \A i \in 1 .. m : list[i] = rows[i]
  BY <1>4, <1>5, FrontOfList
<1> HIDE DEF list
<1>7. Ascending(list) /\ \A i \in 1 .. m : list[i] \in after
  BY <1>4, <1>5, <1>6 DEF Ascending
<1>8. token.row # NoRow => \E b \in scope : b.row = token.row
  BY <1>1 DEF InvalidInput
<1>9. CASE n <= size
  <2>1. page.entries = list /\ page.token = NoToken
    BY <1>1, <1>4, <1>9 DEF InvalidInput, LastPage
  <2>2. \A e \in after : Among(e, list)
    BY <1>4, <1>5, <1>6, <1>9 DEF Among
  <2> HIDE DEF page
  <2> QED BY <1>2, <1>6, <1>7, <1>8, <2>1, <2>2 DEF IsPageOf, page
<1>10. CASE n > size
  <2>1. page = [outcome |-> "ok", entries |-> list, token |-> following]
    BY <1>1, <1>4, <1>5, <1>10 DEF InvalidInput
  <2>2. page.entries = list /\ page.token = following /\ following.row = list[m].row
    BY <1>6, <2>1
  <2>3. list[m] \in after /\ m \in 1 .. n
    BY <1>5, <1>7, <1>10
  <2>4. following # NoToken
    <3>1. list[m] \in scope
      BY <2>3 DEF after
    <3> QED BY <2>2, <3>1 DEF NoToken
  <2>5. ASSUME NEW e \in after PROVE Among(e, list) \/ EntryLess(list[m], e)
    <3>1. PICK i \in 1 .. n : rows[i] = e
      BY <1>4
    <3>2. CASE i <= m
      BY <1>4, <1>5, <1>6, <3>1, <3>2 DEF Among
    <3>3. CASE i > m
      BY <1>4, <1>6, <2>3, <3>1, <3>3
    <3> QED BY <1>4, <1>5, <3>2, <3>3
  <2> HIDE DEF page, following
  <2> QED BY <1>2, <1>6, <1>7, <1>8, <2>2, <2>3, <2>4, <2>5 DEF IsPageOf, page
<1> QED BY <1>4, <1>5, <1>9, <1>10

-----------------------------------------------------------------------------
(***************************************************************************)
(* The compiled expression and the evaluator                               *)
(***************************************************************************)
\* SQLite may decide this range by one bound while the evaluator does not.
HalfNull(p) == p.node = "between" /\ Cardinality({p.lower, p.upper} \cap {Null}) = 1 /\ p.lower # p.upper

\* The facts of a value that converts
LEMMA ProjectedValue ==
  ASSUME NEW raw \in RawValues, NEW type, Supported(type), Valid(raw, type)
  PROVE  LET fact == Project(raw, type)
         IN /\ fact.valid /\ fact.family = type /\ fact.raw = raw /\ fact.value = Decoded[type][raw]
            /\ raw # Null /\ Value(raw, type) = Decoded[type][raw]
            /\ Decoded[type][raw] \in Int /\ Decoded[type][raw] # Null
<1>1. raw # Null /\ raw \in DOMAIN Decoded[type] /\ type \in DOMAIN Decoded
  BY ValueAssumption DEF RawValues, Valid, Supported
<1>2. Decoded[type][raw] \in Int /\ Null \notin Int
  BY <1>1, ValueAssumption
<1> QED BY <1>1, <1>2 DEF Project, Value

\* A comparison with a fact that converts is that of the values.
LEMMA ComparedValue ==
  ASSUME NEW fact, NEW type, fact.valid, fact.family = type, fact.value # Null, NEW op, NEW literal
  PROVE  SqlCompare(fact, type, op, literal) =
           IF literal = Null THEN "U" ELSE Truth(Holds(op, fact.value, Decoded[type][literal]))
<1>1. Truth(fact.valid /\ fact.family = type) = "T"
  BY DEF Truth
<1>2. And("T", "U") = "U" /\ And("T", "T") = "T" /\ And("T", "F") = "F"
  BY DEF And
<1>3. Truth(Holds(op, fact.value, Decoded[type][literal])) \in {"T", "F"}
  BY DEF Truth
<1> QED BY <1>1, <1>2, <1>3 DEF SqlCompare

\* On a value that converts, the compiled predicate has the truth of the evaluator.
LEMMA PredicatesAgree ==
  ASSUME NEW p, IsPredicate(p), ~HalfNull(p), NEW raw \in RawValues, NEW type, Supported(type), Valid(raw, type),
         \A literal \in Literals(p) : Valid(literal, type)
  PROVE  SqlPredicate(p, Project(raw, type), type) = EvaluatePredicate(p, raw, type)
<1> DEFINE fact == Project(raw, type)
           actual == Decoded[type][raw]
           expected(literal) == Decoded[type][literal]
<1>1. /\ fact.valid /\ fact.family = type /\ fact.raw = raw /\ fact.value = actual
      /\ raw # Null /\ Value(raw, type) = actual /\ actual \in Int /\ actual # Null
  BY ProjectedValue
<1> SUFFICES SqlPredicate(p, fact, type) = EvaluatePredicate(p, raw, type)
  OBVIOUS
<1> HIDE DEF fact
<1>2. ASSUME NEW op, NEW literal
      PROVE  SqlCompare(fact, type, op, literal) =
               IF literal = Null THEN "U" ELSE Truth(Holds(op, actual, expected(literal)))
  BY <1>1, ComparedValue
<1>3. \A literal : literal # Null => Value(literal, type) = expected(literal)
  BY DEF Value
<1>4. \A literal \in Literals(p) : literal # Null => expected(literal) \in Int
  BY ValueAssumption DEF Valid, Supported
<1>5. Not("T") = "F" /\ Not("F") = "T" /\ Not("U") = "U"
  BY DEF Not
<1>6. And("T", "U") = "U" /\ And("T", "T") = "T" /\ And("T", "F") = "F" /\ And("U", "U") = "U"
      /\ And("F", "T") = "F" /\ And("F", "F") = "F"
  BY DEF And
<1>7. Truth(TRUE) = "T" /\ Truth(FALSE) = "F"
  BY DEF Truth
<1> HIDE DEF actual
<1>8. CASE p.node = "isNull"
  BY <1>1, <1>8 DEF SqlPredicate, EvaluatePredicate
<1>9. CASE p.node = "compare"
  <2>1. SqlPredicate(p, fact, type) = SqlCompare(fact, type, p.op, p.value)
    BY <1>9 DEF SqlPredicate
  <2>2. EvaluatePredicate(p, raw, type) =
          IF p.value = Null THEN "U" ELSE Truth(Holds(p.op, actual, Value(p.value, type)))
    BY <1>1, <1>9 DEF EvaluatePredicate
  <2> QED BY <1>2, <1>3, <2>1, <2>2
<1>10. CASE p.node = "in"
  <2> DEFINE members == {SqlCompare(fact, type, "=", v) : v \in p.values}
             found == \E v \in p.values \ {Null} : expected(v) = actual
  <2>1. SqlPredicate(p, fact, type) =
          Negated(p, IF "T" \in members THEN "T" ELSE IF "U" \in members THEN "U" ELSE "F")
    BY <1>10 DEF SqlPredicate
  <2>2. EvaluatePredicate(p, raw, type) =
          Negated(p, IF found THEN "T" ELSE IF Null \in p.values THEN "U" ELSE "F")
    <3>1. found <=> \E v \in p.values \ {Null} : Value(v, type) = Value(raw, type)
      BY <1>1, <1>3
    <3> HIDE DEF found
    <3> QED BY <1>1, <1>10, <3>1 DEF EvaluatePredicate
  <2>3. \A v \in p.values : SqlCompare(fact, type, "=", v) =
          IF v = Null THEN "U" ELSE IF expected(v) = actual THEN "T" ELSE "F"
    BY <1>2 DEF Holds, Truth
  <2>4. "T" \in members <=> found
    BY <2>3
  <2>5. "U" \in members <=> Null \in p.values
    BY <2>3
  <2> HIDE DEF members, found
  <2> QED BY <2>1, <2>2, <2>4, <2>5
<1>11. CASE p.node = "between"
  <2> DEFINE low == SqlCompare(fact, type, ">=", p.lower)
             high == SqlCompare(fact, type, "<=", p.upper)
             sql == And(low, high)
             read == IF Null \in {p.lower, p.upper} THEN "U"
                     ELSE Truth(expected(p.lower) <= actual /\ actual <= expected(p.upper))
  <2>1. SqlPredicate(p, fact, type) = Negated(p, sql)
    BY <1>11 DEF SqlPredicate
  <2>2. EvaluatePredicate(p, raw, type) = IF Null \in {p.lower, p.upper} THEN "U" ELSE Negated(p, read)
    <3>1. EvaluatePredicate(p, raw, type) =
            IF Null \in {p.lower, p.upper} THEN "U"
            ELSE Negated(p, Truth(Value(p.lower, type) <= Value(raw, type) /\ Value(raw, type) <= Value(p.upper, type)))
      BY <1>1, <1>11 DEF EvaluatePredicate
    <3> QED BY <1>1, <1>3, <3>1
  <2>3. p.lower = Null <=> p.upper = Null
    <3> SUFFICES ASSUME ~(p.lower = Null <=> p.upper = Null) PROVE FALSE
      OBVIOUS
    <3>1. {p.lower, p.upper} \cap {Null} = {Null} /\ p.lower # p.upper
      OBVIOUS
    <3>2. Cardinality({Null}) = 1
      BY FS_Singleton
    <3> QED BY <1>11, <3>1, <3>2 DEF HalfNull
  <2>4. CASE p.lower = Null
    <3>1. sql = "U"
      BY <1>2, <1>6, <2>3, <2>4
    <3> HIDE DEF sql, read
    <3> QED BY <1>5, <2>1, <2>2, <2>4, <3>1 DEF Negated
  <2>5. CASE p.lower # Null
    <3>1. expected(p.lower) \in Int /\ expected(p.upper) \in Int
      <4>1. Literals(p) = {p.lower, p.upper}
        BY <1>11 DEF Literals
      <4> QED BY <1>4, <2>3, <2>5, <4>1
    <3>2. low = Truth(actual >= expected(p.lower)) /\ high = Truth(actual <= expected(p.upper))
      BY <1>2, <2>3, <2>5 DEF Holds
    <3>3. read = Truth(expected(p.lower) <= actual /\ actual <= expected(p.upper))
      BY <2>3, <2>5
    <3> DEFINE a == expected(p.lower)
               b == expected(p.upper)
    <3> HIDE DEF a, b, low, high, read
    <3>4. And(low, high) = read
      BY <1>1, <1>6, <3>1, <3>2, <3>3 DEF a, b, Truth
    <3> QED BY <2>1, <2>2, <2>3, <2>5, <3>4
  <2> QED BY <2>4, <2>5
<1>12. CASE p.node = "like"
  <2>1. SqlPredicate(p, fact, type) =
          Negated(p, And("T", IF p.value = Null THEN "U" ELSE Truth(raw \in Likes[p.value])))
    BY <1>1, <1>7, <1>12 DEF SqlPredicate
  <2>2. EvaluatePredicate(p, raw, type) =
          IF p.value = Null THEN "U" ELSE Negated(p, Truth(raw \in Likes[p.value]))
    BY <1>1, <1>12 DEF EvaluatePredicate
  <2>3. CASE p.value = Null
    BY <1>5, <1>6, <2>1, <2>2, <2>3 DEF Negated
  <2>4. CASE p.value # Null
    <3>1. Truth(raw \in Likes[p.value]) \in {"T", "F"}
      BY DEF Truth
    <3> QED BY <1>6, <2>1, <2>2, <2>4, <3>1
  <2> QED BY <2>3, <2>4
<1> QED BY <1>8, <1>9, <1>10, <1>11, <1>12 DEF IsPredicate

\* The health of a table, when nothing is known to be wrong, speaks for each of its partitions.
LEMMA IssueIsThere ==
  ASSUME NEW s, PartitionsTyped(s.partitions), NEW rows, rows \subseteq DOMAIN s.partitions, rows # {}
  PROVE  Issue(s, rows).row # NoRow
<1>1. FirstOf(s, rows) \in rows
  BY FirstIsThere
<1>2. FirstOf(s, rows) # NoRow
  BY <1>1 DEF PartitionsTyped
<1> QED BY <1>2 DEF Issue

LEMMA HealthyPartition ==
  ASSUME NEW s, StoreGood(s), NEW t \in DOMAIN s.tables, NEW p \in PartitionsOf(s, {t}),
         s.health[t].arity.row = NoRow
  PROVE  LET keys == s.tables[t].keys
             values == s.partitions[p].values
         IN /\ DOMAIN values = DOMAIN keys /\ values \in PartitionKey
            /\ s.facts[p] = QueryFacts(keys, values)
            /\ \A i \in DOMAIN keys : s.health[t].conversion[i].row = NoRow =>
                 Supported(keys[i].type) /\ Valid(values[i], keys[i].type)
<1> DEFINE keys == s.tables[t].keys
           values == s.partitions[p].values
           rows == PartitionsOf(s, {t})
           projections == s.facts[p].projections
           short == {x \in rows : DOMAIN s.facts[x].projections # DOMAIN keys}
           unread(i) == {x \in rows : i \in DOMAIN s.facts[x].projections /\ ~s.facts[x].projections[i].valid}
<1>1. /\ PartitionsTyped(s.partitions) /\ rows \subseteq DOMAIN s.partitions /\ p \in DOMAIN s.partitions
      /\ s.partitions[p].table = t
  BY DEF StoreGood, StoreTyped, RowsTyped, PartitionsOf
<1>2. values \in PartitionKey /\ s.facts[p] = QueryFacts(keys, values) /\ s.health[t] = HealthOf(s, t)
  BY <1>1 DEF StoreGood, FreshFacts, PartitionsTyped
<1>3. DOMAIN projections = DOMAIN values
      /\ \A i \in DOMAIN values \cap DOMAIN keys : projections[i] = Project(values[i], keys[i].type)
  BY <1>2 DEF QueryFacts
<1>4. s.health[t].arity = Issue(s, short)
      /\ \A i \in DOMAIN keys : s.health[t].conversion[i] = Issue(s, unread(i))
  BY <1>2 DEF HealthOf
<1>5. DOMAIN values = DOMAIN keys
  <2>1. short \subseteq DOMAIN s.partitions
    BY <1>1
  <2>2. p \in rows /\ (DOMAIN projections # DOMAIN keys => p \in short)
    OBVIOUS
  <2> HIDE DEF short, projections
  <2>3. short = {}
    BY <1>1, <1>4, <2>1, IssueIsThere
  <2> QED BY <1>3, <2>2, <2>3
<1>6. ASSUME NEW i \in DOMAIN keys, s.health[t].conversion[i].row = NoRow
      PROVE  Supported(keys[i].type) /\ Valid(values[i], keys[i].type)
  <2> DEFINE wrong == unread(i)
  <2>1. wrong \subseteq DOMAIN s.partitions /\ s.health[t].conversion[i] = Issue(s, wrong)
    BY <1>1, <1>4
  <2>2. i \in DOMAIN projections /\ ~projections[i].valid => p \in wrong
    OBVIOUS
  <2> HIDE DEF wrong, projections
  <2>3. wrong = {}
    BY <1>1, <1>6, <2>1, IssueIsThere
  <2>4. Project(values[i], keys[i].type).valid
    BY <1>3, <1>5, <2>2, <2>3
  <2>5. ~Supported(keys[i].type) \/ ~Valid(values[i], keys[i].type) => ~Project(values[i], keys[i].type).valid
    BY DEF Project, NoFact
  <2> QED BY <2>4, <2>5
<1> QED BY <1>2, <1>5, <1>6

\* On a partition of a healthy table the statement and the evaluator agree.
LEMMA ExpressionsAgree ==
  ASSUME NEW s, StoreGood(s), NEW t \in DOMAIN s.tables, NEW p \in PartitionsOf(s, {t}), NEW first,
         NEW e, ~HalfNullRange(e), Binds(e, s.tables[t].keys), ~Raises(e, s.tables[t].keys, first),
         ~Unhealthy(s, t, e)
  PROVE  LET keys == s.tables[t].keys
             values == s.partitions[p].values
         IN SqlSelects(e, keys, s.facts[p].projections)
            <=> ~Raises(e, keys, values) /\ Evaluate(e, keys, values) = "T"
<1> DEFINE keys == s.tables[t].keys
           values == s.partitions[p].values
           projections == s.facts[p].projections
           place(q) == Ordinal(keys, q.field)
           type(q) == TypeOf(keys, q.field)
<1>1. s.health[t].arity.row = NoRow /\ \A f \in Fields(e) : s.health[t].conversion[Ordinal(keys, f)].row = NoRow
  BY DEF Unhealthy
<1>2. /\ DOMAIN values = DOMAIN keys /\ values \in PartitionKey
      /\ s.facts[p] = QueryFacts(keys, values)
      /\ \A i \in DOMAIN keys : s.health[t].conversion[i].row = NoRow =>
           Supported(keys[i].type) /\ Valid(values[i], keys[i].type)
  BY <1>1, HealthyPartition
<1>3. DOMAIN projections = DOMAIN values
      /\ \A i \in DOMAIN keys : projections[i] = Project(values[i], keys[i].type)
  BY <1>2 DEF QueryFacts
<1>4. \A i \in DOMAIN values : values[i] \in RawValues
  BY <1>2, KeysAreSequences
<1> HIDE DEF keys, values, projections
<1>5. ASSUME NEW f \in Fields(e)
      PROVE  Ordinal(keys, f) \in DOMAIN keys
  <2>1. \E i \in DOMAIN keys : keys[i].name = f
    BY DEF Binds, KeyNames, keys
  <2> QED BY <2>1 DEF Ordinal
<1>6. ASSUME NEW q \in Predicates(e)
      PROVE  /\ place(q) \in DOMAIN keys /\ type(q) = keys[place(q)].type /\ values[place(q)] \in RawValues
             /\ Supported(type(q)) /\ Valid(values[place(q)], type(q))
             /\ projections[place(q)] = Project(values[place(q)], type(q))
  <2>1. q.field \in Fields(e)
    BY DEF Fields
  <2>2. place(q) \in DOMAIN keys /\ s.health[t].conversion[place(q)].row = NoRow
    BY <1>1, <1>5, <2>1 DEF keys
  <2>3. type(q) = keys[place(q)].type
    BY DEF TypeOf
  <2> QED BY <1>2, <1>3, <1>4, <2>2, <2>3
<1>7. ASSUME NEW q \in Predicates(e)
      PROVE  (\A raw \in Literals(q) : Valid(raw, type(q))) /\ (q.node = "like" => type(q) = "string")
  BY DEF Raises, keys
<1>8. ~Raises(e, keys, values)
  <2>1. Paired(keys, values)
    BY <1>2 DEF Paired
  <2>2. ASSUME NEW q \in Predicates(e)
        PROVE  /\ \A raw \in Literals(q) \cup {values[place(q)]} : Valid(raw, type(q))
               /\ q.node = "like" => type(q) = "string"
    BY <1>6, <1>7
  <2> QED BY <2>1, <2>2 DEF Raises
<1>9. ASSUME NEW i \in Leaves(e)
      PROVE  SqlPredicate(e[i], projections[place(e[i])], type(e[i]))
             = EvaluatePredicate(e[i], values[place(e[i])], type(e[i]))
  <2> DEFINE q == e[i]
             raw == values[place(q)]
             kind == type(q)
  <2>1. q \in Predicates(e) /\ IsPredicate(q)
    BY DEF Predicates, Leaves
  <2>2. ~HalfNull(q)
    BY <2>1 DEF HalfNullRange, HalfNull
  <2>3. raw \in RawValues /\ Supported(kind) /\ Valid(raw, kind) /\ projections[place(q)] = Project(raw, kind)
    BY <1>6, <2>1
  <2>4. \A literal \in Literals(q) : Valid(literal, kind)
    BY <1>7, <2>1
  <2> HIDE DEF q, raw, kind
  <2>5. SqlPredicate(q, Project(raw, kind), kind) = EvaluatePredicate(q, raw, kind)
    BY <2>1, <2>2, <2>3, <2>4, PredicatesAgree
  <2>6. SqlPredicate(q, projections[place(q)], kind) = EvaluatePredicate(q, raw, kind)
    BY <2>3, <2>5
  <2> QED BY <2>6 DEF q, raw, kind
<1>10. Sql(e, keys, projections) = Evaluate(e, keys, values)
  <2> DEFINE sql == [i \in Leaves(e) |-> SqlPredicate(e[i], projections[place(e[i])], type(e[i]))]
             read == [i \in Leaves(e) |-> EvaluatePredicate(e[i], values[place(e[i])], type(e[i]))]
  <2>1. sql = read
    BY <1>9
  <2>2. Sql(e, keys, projections) = Outcome(e, sql) /\ Evaluate(e, keys, values) = Outcome(e, read)
    BY DEF Sql, Evaluate
  <2> HIDE DEF sql, read
  <2> QED BY <2>1, <2>2
<1>11. \A f \in Fields(e) : Ordinal(keys, f) \in DOMAIN projections
  BY <1>2, <1>3, <1>5
<1>12. SqlSelects(e, keys, projections) <=> ~Raises(e, keys, values) /\ Evaluate(e, keys, values) = "T"
  BY <1>8, <1>10, <1>11 DEF SqlSelects
<1> QED BY <1>12 DEF keys, values, projections

-----------------------------------------------------------------------------
(***************************************************************************)
(* What is listed                                                          *)
(***************************************************************************)
NamesAreText(s) ==
  /\ \A d \in DOMAIN s.databases : s.databases[d] \in RawValues
  /\ \A t \in DOMAIN s.tables : s.tables[t].name \in RawValues

LEMMA ImageIsFinite ==
  ASSUME NEW S, IsFiniteSet(S), NEW f, DOMAIN f = S, f = [x \in S |-> f[x]]
  PROVE  IsFiniteSet({f[x] : x \in S})
<1> DEFINE all == {f[x] : x \in S}
<1>1. f \in Surjection(S, all)
  BY DEF Surjection
<1> HIDE DEF all
<1>2. IsFiniteSet(all)
  BY <1>1, FS_Surjection
<1> QED BY <1>2 DEF all

\* One entry for each of some rows
LEMMA RowsAreEntries ==
  ASSUME NEW rows, IsFiniteSet(rows), rows \subseteq Nat \ {NoRow}, NEW f, f = [x \in rows |-> f[x]],
         \A x \in rows : f[x].row = x /\ f[x].key \in PartitionKey
  PROVE  LET entries == {f[x] : x \in rows} IN EntriesTyped(entries) /\ \A e \in entries : e.row # NoRow
<1> DEFINE entries == {f[x] : x \in rows}
<1>1. DOMAIN f = rows
  OBVIOUS
<1>2. IsFiniteSet(entries)
  BY <1>1, ImageIsFinite
<1>3. \A e \in entries : IsEntry(e) /\ e.row # NoRow
  BY DEF IsEntry
<1>4. \A a, b \in entries : a.row = b.row => a = b
  OBVIOUS
<1> QED BY <1>2, <1>3, <1>4 DEF EntriesTyped

LEMMA EntriesAreTyped ==
  ASSUME NEW s, StoreGood(s), NamesAreText(s), NEW r, r.kind \in {"databases", "tables", "partitions"}
  PROVE  EntriesTyped(Entries(s, r)) /\ \A e \in Entries(s, r) : e.row # NoRow
<1>1. /\ IsFiniteSet(DOMAIN s.databases) /\ DOMAIN s.databases \subseteq Nat \ {NoRow}
      /\ IsFiniteSet(DOMAIN s.tables) /\ DOMAIN s.tables \subseteq Nat \ {NoRow}
      /\ IsFiniteSet(DOMAIN s.partitions) /\ DOMAIN s.partitions \subseteq Nat \ {NoRow}
      /\ \A p \in DOMAIN s.partitions : s.partitions[p].values \in PartitionKey
  BY DEF StoreGood, StoreTyped, RowsTyped, PartitionsTyped
<1>2. \A name \in RawValues : <<name>> \in PartitionKey
  BY DEF PartitionKey
<1>3. CASE r.kind = "databases"
  <2> DEFINE rows == DOMAIN s.databases
             f == [d \in rows |-> [row |-> d, parent |-> NoRow, key |-> <<s.databases[d]>>, keys |-> << >>]]
  <2>1. Entries(s, r) = {f[d] : d \in rows}
    BY <1>3 DEF Entries, Databases
  <2>2. \A d \in rows : f[d].row = d /\ f[d].key \in PartitionKey
    BY <1>2 DEF NamesAreText
  <2>3. f = [d \in rows |-> f[d]]
    OBVIOUS
  <2> HIDE DEF f
  <2> QED BY <1>1, <2>1, <2>2, <2>3, RowsAreEntries
<1>4. CASE r.kind = "tables"
  <2> DEFINE rows == TablesOf(s, FindDatabase(s, r.database))
             f == [t \in rows |-> [row |-> t, parent |-> s.tables[t].database, key |-> <<s.tables[t].name>>,
                                   keys |-> << >>]]
  <2>1. Entries(s, r) = {f[t] : t \in rows}
    BY <1>4 DEF Entries, Tables
  <2>2. rows \subseteq DOMAIN s.tables
    BY DEF TablesOf
  <2>3. \A t \in rows : f[t].row = t /\ f[t].key \in PartitionKey
    BY <1>2, <2>2 DEF NamesAreText
  <2>4. f = [t \in rows |-> f[t]]
    OBVIOUS
  <2> HIDE DEF f, rows
  <2>5. IsFiniteSet(rows) /\ rows \subseteq Nat \ {NoRow}
    BY <1>1, <2>2, FS_Subset
  <2> QED BY <2>1, <2>3, <2>4, <2>5, RowsAreEntries
<1>5. CASE r.kind = "partitions"
  <2> DEFINE rows == PartitionsOf(s, FindTable(s, r.database, r.table))
             f == [p \in rows |-> [row |-> p, parent |-> s.partitions[p].table, key |-> s.partitions[p].values,
                                   keys |-> s.tables[s.partitions[p].table].keys]]
  <2>1. Entries(s, r) = {f[p] : p \in rows}
    BY <1>5 DEF Entries, Partitions
  <2>2. rows \subseteq DOMAIN s.partitions
    BY DEF PartitionsOf
  <2>3. \A p \in rows : f[p].row = p /\ f[p].key \in PartitionKey
    BY <1>1, <2>2
  <2>4. f = [p \in rows |-> f[p]]
    OBVIOUS
  <2> HIDE DEF f, rows
  <2>5. IsFiniteSet(rows) /\ rows \subseteq Nat \ {NoRow}
    BY <1>1, <2>2, FS_Subset
  <2> QED BY <2>1, <2>3, <2>4, <2>5, RowsAreEntries
<1> QED BY <1>3, <1>4, <1>5

\* What the statement selects of the partitions of a table is what the request asks for.
LEMMA SelectedIsWanted ==
  ASSUME NEW s, StoreGood(s), NEW t \in DOMAIN s.tables, NEW r, r.kind = "partitions", Parses(r),
         FindTable(s, r.database, r.table) = {t}, r.segment.total \in {0} \cup Segments, NEW first,
         Filters(r) => /\ ~HalfNullRange(r.expression) /\ Binds(r.expression, s.tables[t].keys)
                       /\ ~Raises(r.expression, s.tables[t].keys, first) /\ ~Unhealthy(s, t, r.expression)
  PROVE  Selected(s, t, r) = {e \in Entries(s, r) : Wanted(r, e)}
<1>1. Entries(s, r) = Partitions(s, r)
  BY DEF Entries
<1>2. ASSUME NEW e \in Partitions(s, r)
      PROVE  /\ r.segment.total # 0 => s.facts[e.row].segments[r.segment.total] = r.segment.number
             /\ Filters(r) => SqlSelects(r.expression, s.tables[t].keys, s.facts[e.row].projections)
             <=> Wanted(r, e)
  <2>1. PICK p \in PartitionsOf(s, {t}) :
          e = [row |-> p, parent |-> s.partitions[p].table, key |-> s.partitions[p].values,
               keys |-> s.tables[s.partitions[p].table].keys]
    BY DEF Partitions
  <2> DEFINE keys == s.tables[t].keys
             values == s.partitions[p].values
  <2>2. p \in DOMAIN s.partitions /\ s.partitions[p].table = t
    BY DEF PartitionsOf
  <2>3. e.row = p /\ e.key = values /\ e.keys = keys
    BY <2>1, <2>2
  <2>4. s.facts[p] = QueryFacts(keys, values)
    BY <2>2 DEF StoreGood, FreshFacts
  <2> HIDE DEF values, keys
  <2>5. r.segment.total # 0 =>
          (s.facts[p].segments[r.segment.total] = r.segment.number
           <=> SegmentOf(values) % r.segment.total = r.segment.number)
    BY <2>4 DEF QueryFacts, SegmentRows
  <2>6. Filters(r) =>
          (SqlSelects(r.expression, keys, s.facts[p].projections)
           <=> ~Raises(r.expression, keys, values) /\ Evaluate(r.expression, keys, values) = "T")
    BY ExpressionsAgree DEF keys, values
  <2>7. Wanted(r, e) <=>
          /\ InSegment(r, values)
          /\ Filters(r) => ~Raises(r.expression, keys, values) /\ Evaluate(r.expression, keys, values) = "T"
    BY <2>3 DEF Wanted
  <2> QED BY <2>3, <2>5, <2>6, <2>7 DEF InSegment, keys
<1> QED BY <1>1, <1>2 DEF Selected

-----------------------------------------------------------------------------
(***************************************************************************)
(* Names go on to be text                                                  *)
(***************************************************************************)
KeepsDatabases(u, s) == StoreShape(u) /\ u.databases = s.databases

LEMMA DatabasesField ==
  ASSUME NEW d, NEW t, NEW p, NEW f, NEW h, NEW r, NEW v,
         NEW u, u = [databases |-> d, tables |-> t, partitions |-> p, facts |-> f, health |-> h,
                     running |-> r, revision |-> v]
  PROVE  StoreShape(u) /\ u.databases = d
BY DEF StoreShape

LEMMA WritesKeepDatabases ==
  ASSUME NEW s, StoreShape(s), NEW t, NEW new, NEW facts
  PROVE  /\ KeepsDatabases(RefreshHealth(s, t), s)
         /\ KeepsDatabases([s EXCEPT !.health = new], s)
         /\ KeepsDatabases([s EXCEPT !.facts = new], s)
         /\ KeepsDatabases([s EXCEPT !.partitions = new, !.facts = facts], s)
         /\ KeepsDatabases(WriteTable(s, t, new), s)
<1>1. KeepsDatabases(RefreshHealth(s, t), s)
  <2> DEFINE u == RefreshHealth(s, t)
  <2>1. u = [databases |-> s.databases, tables |-> s.tables, partitions |-> s.partitions, facts |-> s.facts,
             health |-> With(s.health, t, HealthOf(s, t)), running |-> s.running, revision |-> s.revision]
    BY HealthRefreshed
  <2> HIDE DEF u
  <2>2. KeepsDatabases(u, s)
    BY <2>1, DatabasesField DEF KeepsDatabases
  <2> QED BY <2>2 DEF u
<1>2. KeepsDatabases([s EXCEPT !.health = new], s)
  <2> DEFINE u == [s EXCEPT !.health = new]
  <2>1. u = [databases |-> s.databases, tables |-> s.tables, partitions |-> s.partitions, facts |-> s.facts,
             health |-> new, running |-> s.running, revision |-> s.revision]
    BY HealthWritten
  <2> HIDE DEF u
  <2>2. KeepsDatabases(u, s)
    BY <2>1, DatabasesField DEF KeepsDatabases
  <2> QED BY <2>2 DEF u
<1>3. KeepsDatabases([s EXCEPT !.facts = new], s)
  <2> DEFINE u == [s EXCEPT !.facts = new]
  <2>1. u = [databases |-> s.databases, tables |-> s.tables, partitions |-> s.partitions, facts |-> new,
             health |-> s.health, running |-> s.running, revision |-> s.revision]
    BY FactsWritten
  <2> HIDE DEF u
  <2>2. KeepsDatabases(u, s)
    BY <2>1, DatabasesField DEF KeepsDatabases
  <2> QED BY <2>2 DEF u
<1>4. KeepsDatabases([s EXCEPT !.partitions = new, !.facts = facts], s)
  <2> DEFINE u == [s EXCEPT !.partitions = new, !.facts = facts]
  <2>1. u = [databases |-> s.databases, tables |-> s.tables, partitions |-> new, facts |-> facts,
             health |-> s.health, running |-> s.running, revision |-> s.revision]
    BY PartitionsWritten
  <2> HIDE DEF u
  <2>2. KeepsDatabases(u, s)
    BY <2>1, DatabasesField DEF KeepsDatabases
  <2> QED BY <2>2 DEF u
<1>5. KeepsDatabases(WriteTable(s, t, new), s)
  <2> DEFINE u == WriteTable(s, t, new)
  <2>1. u = [databases |-> s.databases, tables |-> With(s.tables, t, new), partitions |-> s.partitions,
             facts |-> s.facts, health |-> s.health, running |-> s.running, revision |-> s.revision]
    BY TableWritten
  <2> HIDE DEF u
  <2>2. KeepsDatabases(u, s)
    BY <2>1, DatabasesField DEF KeepsDatabases
  <2> QED BY <2>2 DEF u
<1> QED BY <1>1, <1>2, <1>3, <1>4, <1>5

LEMMA RemovalsKeepDatabases ==
  ASSUME NEW s, StoreShape(s), NEW gone
  PROVE  /\ KeepsDatabases(CancelRuns(s, gone), s)
         /\ KeepsDatabases(DropPartitions(s, gone), s)
         /\ KeepsDatabases(DropTables(s, gone), s)
<1>1. KeepsDatabases(CancelRuns(s, gone), s)
  <2> DEFINE u == CancelRuns(s, gone)
  <2>1. u = [databases |-> s.databases, tables |-> s.tables, partitions |-> s.partitions, facts |-> s.facts,
             health |-> s.health, running |-> Without(s.running, gone), revision |-> s.revision]
    BY RunsCancelled
  <2> HIDE DEF u
  <2>2. KeepsDatabases(u, s)
    BY <2>1, DatabasesField DEF KeepsDatabases
  <2> QED BY <2>2 DEF u
<1>2. KeepsDatabases(DropPartitions(s, gone), s)
  <2> DEFINE u == DropPartitions(s, gone)
  <2>1. u = [databases |-> s.databases, tables |-> s.tables, partitions |-> Without(s.partitions, gone),
             facts |-> Without(s.facts, gone), health |-> ForgetIssues(s.health, gone),
             running |-> s.running, revision |-> s.revision]
    BY DroppedPartitions
  <2> HIDE DEF u
  <2>2. KeepsDatabases(u, s)
    BY <2>1, DatabasesField DEF KeepsDatabases
  <2> QED BY <2>2 DEF u
<1>3. KeepsDatabases(DropTables(s, gone), s)
  <2> DEFINE u == DropTables(s, gone)
  <2>1. StoreShape(u)
    BY TablesDropped
  <2>2. u.databases = s.databases
    BY DropTablesLeaves
  <2> HIDE DEF u
  <2>3. KeepsDatabases(u, s)
    BY <2>1, <2>2 DEF KeepsDatabases
  <2> QED BY <2>3 DEF u
<1> QED BY <1>1, <1>2, <1>3

\* A command leaves a database as it was, makes or renames the one it names, or drops it.
DatabasesFollow(s, u, op) ==
  \A d \in DOMAIN u.databases :
    \/ d \in DOMAIN s.databases /\ u.databases[d] = s.databases[d]
    \/ op.kind \in {"CreateDatabase", "UpdateDatabase"} /\ u.databases[d] = op.name

LEMMA EffectOnDatabases ==
  ASSUME NEW s, StoreGood(s), NEW op, IsCommand(op), Refusal(s, op) = "ok"
  PROVE  DatabasesFollow(s, Effect(s, op), op)
<1> DEFINE u == Effect(s, op)
<1>0. StoreShape(s)
  BY DEF StoreGood, StoreTyped, RowsTyped
<1>1. CASE op.kind = "CreateDatabase"
  <2> DEFINE new == With(s.databases, NewRow(s.databases), op.name)
  <2>1. u = [s EXCEPT !.databases = new]
    BY <1>1 DEF Effect, CreateDatabase
  <2>2. \A d \in DOMAIN new : (d \in DOMAIN s.databases /\ new[d] = s.databases[d]) \/ new[d] = op.name
    BY DEF With
  <2> HIDE DEF u, new
  <2>3. u = [databases |-> new, tables |-> s.tables, partitions |-> s.partitions, facts |-> s.facts,
             health |-> s.health, running |-> s.running, revision |-> s.revision]
    BY <1>0, <2>1, DatabasesWritten
  <2>4. u.databases = new
    BY <2>3
  <2>5. DatabasesFollow(s, u, op)
    BY <1>1, <2>2, <2>4 DEF DatabasesFollow
  <2> QED BY <2>5 DEF u
<1>2. CASE op.kind = "UpdateDatabase"
  <2> DEFINE t == TablesOf(s, {Only(FindDatabase(s, op.old))})
             row == Only(FindDatabase(s, op.old))
             ready == IF op.name = op.old THEN s ELSE CancelRuns(s, t)
             new == [s.databases EXCEPT ![row] = op.name]
  <2>1. u = [ready EXCEPT !.databases[row] = op.name]
    BY <1>2 DEF Effect, UpdateDatabase
  <2> HIDE DEF t, row
  <2>2. KeepsDatabases(ready, s)
    BY <1>0, RemovalsKeepDatabases DEF KeepsDatabases
  <2>3. \A d \in DOMAIN new : (d \in DOMAIN s.databases /\ new[d] = s.databases[d]) \/ new[d] = op.name
    OBVIOUS
  <2> HIDE DEF u, ready
  <2>4. u = [ready EXCEPT !.databases = new]
    BY <2>1, <2>2 DEF KeepsDatabases, StoreShape
  <2> HIDE DEF new
  <2>5. u = [databases |-> new, tables |-> ready.tables, partitions |-> ready.partitions, facts |-> ready.facts,
             health |-> ready.health, running |-> ready.running, revision |-> ready.revision]
    BY <2>2, <2>4, DatabasesWritten DEF KeepsDatabases
  <2>6. u.databases = new
    BY <2>5
  <2>7. DatabasesFollow(s, u, op)
    BY <1>2, <2>3, <2>6 DEF DatabasesFollow
  <2> QED BY <2>7 DEF u
<1>3. CASE op.kind = "DeleteDatabase"
  <2> DEFINE found == FindDatabase(s, op.name)
             v == DropTables(s, TablesOf(s, found))
             new == Without(v.databases, found)
  <2>1. u = [v EXCEPT !.databases = new]
    BY <1>3 DEF Effect, DeleteDatabase
  <2>2. KeepsDatabases(v, s)
    BY <1>0, RemovalsKeepDatabases
  <2>3. \A d \in DOMAIN new : d \in DOMAIN v.databases /\ new[d] = v.databases[d]
    BY DEF Without
  <2> HIDE DEF u, found, v, new
  <2>4. u = [databases |-> new, tables |-> v.tables, partitions |-> v.partitions, facts |-> v.facts,
             health |-> v.health, running |-> v.running, revision |-> v.revision]
    BY <2>1, <2>2, DatabasesWritten DEF KeepsDatabases
  <2>5. u.databases = new
    BY <2>4
  <2>6. DatabasesFollow(s, u, op)
    BY <2>2, <2>3, <2>5 DEF DatabasesFollow, KeepsDatabases
  <2> QED BY <2>6 DEF u
<1>4. CASE op.kind = "CreateTable"
  <2> DEFINE t == NewRow(s.tables)
             table == NewTable(Only(FindDatabase(s, op.database)), op, s.revision)
             w == WriteTable(s, t, table)
             new == With(w.health, t, [arity |-> NoIssue, conversion |-> [i \in DOMAIN op.keys |-> NoIssue]])
  <2>1. u = [w EXCEPT !.health = new]
    BY <1>4 DEF Effect, CreateTable
  <2> HIDE DEF u, t, table, new
  <2>2. KeepsDatabases(w, s)
    BY <1>0, WritesKeepDatabases
  <2> HIDE DEF w
  <2>3. KeepsDatabases(u, w)
    BY <2>1, <2>2, WritesKeepDatabases DEF KeepsDatabases
  <2>4. DatabasesFollow(s, u, op)
    BY <2>2, <2>3 DEF DatabasesFollow, KeepsDatabases
  <2> QED BY <2>4 DEF u
<1>5. CASE op.kind = "UpdateTable"
  <2> DEFINE t == Only(FindTable(s, op.database, op.old))
             ready == IF op.name = op.old THEN s ELSE CancelRuns(s, {t})
             table == Revise(ready.tables[t], op)
             w == WriteTable(ready, t, table)
             facts == [p \in DOMAIN w.facts |->
                         IF p \in PartitionsOf(w, {t}) THEN QueryFacts(w.tables[t].keys, w.partitions[p].values)
                         ELSE w.facts[p]]
             v == [w EXCEPT !.facts = facts]
  <2>1. u = IF s.tables[t].keys = op.keys THEN w ELSE RefreshFacts(w, t)
    BY <1>5 DEF Effect, UpdateTable
  <2>2. RefreshFacts(w, t) = RefreshHealth(v, t)
    BY DEF RefreshFacts
  <2> HIDE DEF u, t
  <2>3. KeepsDatabases(ready, s)
    BY <1>0, RemovalsKeepDatabases DEF KeepsDatabases
  <2> HIDE DEF ready, table
  <2>4. KeepsDatabases(w, ready)
    <3>1. StoreShape(ready)
      BY <2>3 DEF KeepsDatabases
    <3> QED BY <3>1, WritesKeepDatabases
  <2> HIDE DEF w, facts
  <2>5. KeepsDatabases(v, w)
    BY <2>4, WritesKeepDatabases DEF KeepsDatabases
  <2> HIDE DEF v
  <2>6. KeepsDatabases(RefreshHealth(v, t), v)
    BY <2>5, WritesKeepDatabases DEF KeepsDatabases
  <2>7. DatabasesFollow(s, u, op)
    BY <2>1, <2>2, <2>3, <2>4, <2>5, <2>6 DEF DatabasesFollow, KeepsDatabases
  <2> QED BY <2>7 DEF u
<1>6. CASE op.kind = "DeleteTable"
  <2>1. u = DropTables(s, FindTable(s, op.database, op.name))
    BY <1>6 DEF Effect, DeleteTable
  <2> DEFINE found == FindTable(s, op.database, op.name)
  <2> HIDE DEF found, u
  <2>2. KeepsDatabases(u, s)
    BY <1>0, <2>1, RemovalsKeepDatabases DEF found
  <2>3. DatabasesFollow(s, u, op)
    BY <2>2 DEF DatabasesFollow, KeepsDatabases
  <2> QED BY <2>3 DEF u
<1>7. CASE op.kind \in {"CreatePartition", "UpdatePartition"}
  <2>1. \E p, row : u = WritePartition(s, p, row)
    BY <1>7 DEF Effect, CreatePartition, UpdatePartition
  <2>2. PICK p, row : u = WritePartition(s, p, row)
    BY <2>1
  <2> DEFINE partitions == With(s.partitions, p, row)
             facts == With(s.facts, p, QueryFacts(s.tables[row.table].keys, row.values))
             w == [s EXCEPT !.partitions = partitions, !.facts = facts]
  <2>3. u = RefreshHealth(w, row.table)
    BY <2>2 DEF WritePartition
  <2> HIDE DEF partitions, facts, u
  <2>4. KeepsDatabases(w, s)
    BY <1>0, WritesKeepDatabases
  <2> HIDE DEF w
  <2>5. KeepsDatabases(u, w)
    BY <2>3, <2>4, WritesKeepDatabases DEF KeepsDatabases
  <2>6. DatabasesFollow(s, u, op)
    BY <2>4, <2>5 DEF DatabasesFollow, KeepsDatabases
  <2> QED BY <2>6 DEF u
<1>8. CASE op.kind = "DeletePartition"
  <2> DEFINE t == Only(FindTable(s, op.database, op.table))
             gone == FindPartition(s, t, op.values)
             w == DropPartitions(s, gone)
  <2>1. u = RefreshHealth(w, t)
    BY <1>8 DEF Effect, DeletePartition
  <2> HIDE DEF t, gone, u
  <2>2. KeepsDatabases(w, s)
    BY <1>0, RemovalsKeepDatabases
  <2> HIDE DEF w
  <2>3. KeepsDatabases(u, w)
    BY <2>1, <2>2, WritesKeepDatabases DEF KeepsDatabases
  <2>4. DatabasesFollow(s, u, op)
    BY <2>2, <2>3 DEF DatabasesFollow, KeepsDatabases
  <2> QED BY <2>4 DEF u
<1> QED BY <1>1, <1>2, <1>3, <1>4, <1>5, <1>6, <1>7, <1>8 DEF IsCommand

LEMMA EffectKeepsText ==
  ASSUME NEW s, StoreGood(s), NamesAreText(s), NEW op, IsCommand(op), Refusal(s, op) = "ok"
  PROVE  NamesAreText(Effect(s, op))
<1> DEFINE u == Effect(s, op)
<1>1. DatabasesFollow(s, u, op)
  BY EffectOnDatabases
<1>2. TablesFollow(s, u, op)
  BY EffectOnTables
<1>3. \A t \in DOMAIN s.tables : TableTyped(s.tables[t])
  BY DEF StoreGood, StoreTyped, RowsTyped
<1> HIDE DEF u
<1>4. ASSUME NEW d \in DOMAIN u.databases
      PROVE  u.databases[d] \in RawValues
  BY <1>1 DEF DatabasesFollow, NamesAreText, IsCommand
<1>5. ASSUME NEW t \in DOMAIN u.tables
      PROVE  u.tables[t].name \in RawValues
  <2>1. CASE t \in DOMAIN s.tables /\ u.tables[t] = s.tables[t]
    BY <2>1 DEF NamesAreText
  <2>2. CASE op.kind = "UpdateTable" /\ t \in FindTable(s, op.database, op.old) /\ u.tables[t] = Revise(s.tables[t], op)
    <3>1. TableTyped(s.tables[t])
      BY <1>3, <2>2 DEF FindTable
    <3>2. Revise(s.tables[t], op).name = op.name
      BY <3>1, RevisedIsTyped
    <3> QED BY <2>2, <3>2 DEF IsCommand
  <2>3. CASE op.kind = "CreateTable" /\ \E d : u.tables[t] = NewTable(d, op, s.revision)
    <3>1. PICK d : u.tables[t] = NewTable(d, op, s.revision)
      BY <2>3
    <3>2. NewTable(d, op, s.revision).name = op.name
      BY NewTableIsTyped
    <3> QED BY <2>3, <3>1, <3>2 DEF IsCommand
  <2> QED BY <1>2, <2>1, <2>2, <2>3 DEF TablesFollow
<1>6. NamesAreText(u)
  BY <1>4, <1>5 DEF NamesAreText
<1> QED BY <1>6 DEF u

LEMMA CommittedDatabases ==
  ASSUME NEW s, StoreGood(s), NEW new
  PROVE  Committed(s).databases = s.databases /\ [s EXCEPT !.running = new].databases = s.databases
<1> DEFINE r0 == [databases |-> s.databases, tables |-> s.tables, partitions |-> s.partitions, facts |-> s.facts,
                  health |-> s.health, running |-> s.running, revision |-> s.revision]
           revision == s.revision + 1
           u == Committed(s)
           v == [s EXCEPT !.running = new]
<1>1. s = r0 /\ u = [s EXCEPT !.revision = revision]
  BY DEF StoreGood, StoreTyped, RowsTyped, StoreShape, Committed
<1> HIDE DEF u, revision
<1>2. u = [databases |-> s.databases, tables |-> s.tables, partitions |-> s.partitions, facts |-> s.facts,
           health |-> s.health, running |-> s.running, revision |-> revision]
  BY <1>1
<1>3. [r0 EXCEPT !.running = new] =
        [databases |-> s.databases, tables |-> s.tables, partitions |-> s.partitions, facts |-> s.facts,
         health |-> s.health, running |-> new, revision |-> s.revision]
  OBVIOUS
<1> HIDE DEF r0
<1>4. v.databases = s.databases
  BY <1>1, <1>3
<1>5. u.databases = s.databases
  BY <1>2
<1> QED BY <1>4, <1>5 DEF u

LEMMA SetupIsText ==
  ASSUME NEW ops, Len(ops) \in Nat,
         \A i \in 1 .. Len(ops) : IsCommand(ops[i]) /\ Refusal(StoresAfter(ops)[i - 1], ops[i]) = "ok"
  PROVE  NamesAreText(StoresAfter(ops)[Len(ops)])
<1> DEFINE n == Len(ops)
           stores == StoresAfter(ops)
           Bad == {k \in 0 .. n : ~(StoreGood(stores[k]) /\ NamesAreText(stores[k]))}
<1>1. stores = [i \in 0 .. n |-> IF i = 0 THEN Empty ELSE Committed(Effect(stores[i - 1], ops[i]))]
  BY StoresAreMade
<1>2. n \in Nat /\ \A i \in 1 .. n : IsCommand(ops[i]) /\ Refusal(stores[i - 1], ops[i]) = "ok"
  OBVIOUS
<1> HIDE DEF n, stores
<1>3. Bad = {}
  <2> SUFFICES ASSUME Bad # {} PROVE FALSE
    OBVIOUS
  <2>1. Bad \subseteq Nat
    BY <1>2
  <2>2. PICK k \in Bad : \A m \in Bad : k <= m
    <3> HIDE DEF Bad
    <3> QED BY <2>1, LeastNumber
  <2>3. k \in 0 .. n /\ ~(StoreGood(stores[k]) /\ NamesAreText(stores[k]))
    OBVIOUS
  <2>4. CASE k = 0
    <3>1. stores[k] = Empty
      BY <1>1, <1>2, <2>4
    <3>2. NamesAreText(Empty)
      BY DEF NamesAreText, Empty
    <3> QED BY <2>3, <3>1, <3>2, EmptyIsInOrder
  <2>5. CASE k # 0
    <3>1. k - 1 \in 0 .. n /\ k \in 1 .. n /\ k - 1 \notin Bad
      BY <1>2, <2>2, <2>3, <2>5
    <3> DEFINE s == stores[k - 1]
               u == Effect(s, ops[k])
    <3>2. StoreGood(s) /\ NamesAreText(s) /\ IsCommand(ops[k]) /\ Refusal(s, ops[k]) = "ok"
      BY <1>2, <3>1
    <3>3. stores[k] = Committed(u)
      BY <1>1, <2>3, <2>5
    <3> HIDE DEF s
    <3>4. StoreGood(u) /\ NamesAreText(u)
      BY <3>2, EffectKeepsOrder, EffectKeepsText
    <3> HIDE DEF u
    <3>5. Committed(u).tables = u.tables /\ StoreGood(Committed(u))
      BY <3>4, CommittedTables, CommittedKeepsOrder
    <3>6. Committed(u).databases = u.databases
      BY <3>4, CommittedDatabases
    <3>7. NamesAreText(Committed(u))
      BY <3>4, <3>5, <3>6 DEF NamesAreText
    <3> QED BY <2>3, <3>3, <3>5, <3>7
  <2> QED BY <2>4, <2>5
<1>4. n \in 0 .. n
  BY <1>2
<1> QED BY <1>3, <1>4 DEF n, stores

-----------------------------------------------------------------------------
(***************************************************************************)
(* A page of databases, tables or partitions                               *)
(***************************************************************************)
Asked(s, r) == {e \in Entries(s, r) : Wanted(r, e)}

LEMMA EmptyPage ==
  ASSUME NEW after, after = {}
  PROVE  IsPageOf(LastPage(<< >>), after)
<1> DEFINE none == << >>
<1>1. IsList(none) /\ Len(none) = 0
  BY DEF IsList
<1>2. LastPage(none).entries = none /\ LastPage(none).token = NoToken
  BY DEF LastPage
<1> HIDE DEF none
<1>3. IsPageOf(LastPage(none), after)
  BY <1>1, <1>2 DEF IsPageOf, Ascending
<1> QED BY <1>3 DEF none

\* A page holds the next of the entries the request asks for, whatever has happened to the catalog.
LEMMA PageIsNext ==
  ASSUME NEW s, StoreGood(s), NamesAreText(s), NEW r, r.kind \in {"databases", "tables", "partitions"},
         r.segment.total \in {0} \cup Segments, ~SqlDiffers(r), NEW size \in Nat \ {0}, NEW token,
         Page(s, r, size, token).outcome = "ok"
  PROVE  IsPageOf(Page(s, r, size, token), After(Asked(s, r), Entries(s, r), token.row))
<1> DEFINE scope == Entries(s, r)
           asked == Asked(s, r)
           page == Page(s, r, size, token)
<1>1. EntriesTyped(scope) /\ \A e \in scope : e.row # NoRow
  BY EntriesAreTyped
<1>2. asked \in SUBSET scope
  BY DEF Asked
<1>3. ASSUME page = KeysetPage(asked, scope, size, token)
      PROVE  IsPageOf(page, After(asked, scope, token.row))
  <2> HIDE DEF asked, scope, page
  <2>1. KeysetPage(asked, scope, size, token).outcome = "ok"
    BY <1>3 DEF page
  <2>2. IsPageOf(KeysetPage(asked, scope, size, token), After(asked, scope, token.row))
    BY <1>1, <1>2, <2>1, KeysetPageIsNext
  <2> QED BY <1>3, <2>2
<1>4. CASE r.kind = "databases"
  <2>1. scope = Databases(s)
    BY <1>4 DEF Entries
  <2>2. asked = scope
    BY <1>4 DEF Asked, Wanted
  <2>3. page = KeysetPage(Databases(s), Databases(s), size, token)
    BY <1>4 DEF Page, DatabasesPage
  <2> QED BY <1>3, <2>1, <2>2, <2>3
<1>5. CASE r.kind = "tables"
  <2>1. scope = Tables(s, r)
    BY <1>5 DEF Entries
  <2>2. asked = {e \in Tables(s, r) : e.key[1] \in r.pattern}
    BY <1>5, <2>1 DEF Asked, Wanted
  <2>3. page = IF FindDatabase(s, r.database) = {} THEN NotFound
               ELSE KeysetPage({e \in Tables(s, r) : e.key[1] \in r.pattern}, Tables(s, r), size, token)
    BY <1>5 DEF Page, TablesPage
  <2>4. NotFound.outcome # "ok"
    BY DEF NotFound
  <2>5. page = KeysetPage(asked, scope, size, token)
    <3> HIDE DEF asked, scope
    <3> QED BY <2>1, <2>2, <2>3, <2>4
  <2> QED BY <1>3, <2>5
<1>6. CASE r.kind = "partitions"
  <2> DEFINE found == FindTable(s, r.database, r.table)
             t == Only(found)
             keys == s.tables[t].keys
             rows == PartitionsOf(s, {t})
             first == s.partitions[FirstOf(s, rows)].values
  <2>1. scope = Partitions(s, r)
    BY <1>6 DEF Entries
  <2>2. page = PartitionsPage(s, r, size, token)
    BY <1>6 DEF Page
  <2>3. InvalidInput.outcome # "ok" /\ NotFound.outcome # "ok"
    BY DEF InvalidInput, NotFound
  <2>4. /\ Parses(r) /\ found # {}
        /\ Filters(r) => Binds(r.expression, keys)
        /\ \/ rows = {} /\ page = LastPage(<< >>)
           \/ /\ Filters(r) => ~Raises(r.expression, keys, first) /\ ~Unhealthy(s, t, r.expression)
              /\ page = KeysetPage(Selected(s, t, r), Partitions(s, r), size, token)
    <3> DEFINE k == KeysetPage(Selected(s, t, r), Partitions(s, r), size, token)
               lost == {e \in Partitions(s, r) : e.row = token.row} = {}
    <3>1. page = IF ~Parses(r) THEN InvalidInput
                 ELSE IF found = {} THEN NotFound
                 ELSE IF Filters(r) /\ ~Binds(r.expression, keys) THEN InvalidInput
                 ELSE IF rows = {} THEN (IF token.row = NoRow THEN LastPage(<< >>) ELSE InvalidInput)
                 ELSE IF Filters(r) /\ Raises(r.expression, keys, first) THEN InvalidInput
                 ELSE IF token.row # NoRow /\ lost THEN InvalidInput
                 ELSE IF Filters(r) /\ Unhealthy(s, t, r.expression) THEN InvalidInput
                 ELSE k
      BY <2>2 DEF PartitionsPage
    <3> HIDE DEF k, lost, found, t, keys, rows, first
    <3>2. page.outcome = "ok"
      OBVIOUS
    <3> HIDE DEF page
    <3>3. /\ Parses(r) /\ found # {}
          /\ Filters(r) => Binds(r.expression, keys)
          /\ \/ rows = {} /\ page = LastPage(<< >>)
             \/ /\ Filters(r) => ~Raises(r.expression, keys, first) /\ ~Unhealthy(s, t, r.expression)
                /\ page = k
      BY <2>3, <3>1, <3>2
    <3> QED BY <3>3 DEF k
  <2>5. t \in found
    BY <2>4, OnlyIsFound
  <2>6. found = {t}
    <3>1. \A v, u \in found : v = u
      BY FoundIsOne DEF StoreGood
    <3> HIDE DEF found, t
    <3> QED BY <2>5, <3>1
  <2>7. t \in DOMAIN s.tables
    BY <2>5 DEF FindTable
  <2>8. CASE rows = {} /\ page = LastPage(<< >>)
    <3>1. scope = {}
      BY <2>1, <2>6, <2>8 DEF Partitions
    <3>2. After(asked, scope, token.row) = {}
      BY <1>2, <3>1 DEF After
    <3> DEFINE after == After(asked, scope, token.row)
    <3> HIDE DEF after
    <3>3. after = {}
      BY <3>2 DEF after
    <3>4. IsPageOf(LastPage(<< >>), after)
      BY <3>3, EmptyPage
    <3> QED BY <2>8, <3>4 DEF after
  <2>9. CASE /\ Filters(r) => ~Raises(r.expression, keys, first) /\ ~Unhealthy(s, t, r.expression)
             /\ page = KeysetPage(Selected(s, t, r), Partitions(s, r), size, token)
    <3>1. Filters(r) => ~HalfNullRange(r.expression)
      BY <1>6 DEF SqlDiffers
    <3>2. /\ Parses(r) /\ FindTable(s, r.database, r.table) = {t}
          /\ Filters(r) => /\ ~HalfNullRange(r.expression) /\ Binds(r.expression, s.tables[t].keys)
                           /\ ~Raises(r.expression, s.tables[t].keys, first) /\ ~Unhealthy(s, t, r.expression)
      BY <2>4, <2>6, <2>9, <3>1
    <3> HIDE DEF t, first
    <3>3. Selected(s, t, r) = {e \in Entries(s, r) : Wanted(r, e)}
      BY <1>6, <2>7, <3>2, SelectedIsWanted
    <3>4. page = KeysetPage(asked, scope, size, token)
      BY <2>1, <2>9, <3>3 DEF Asked
    <3> QED BY <1>3, <3>4
  <2> QED BY <2>4, <2>8, <2>9
<1> QED BY <1>4, <1>5, <1>6

\* A list of entries in order
IsResult(list) == IsList(list) /\ Ascending(list) /\ \A i \in 1 .. Len(list) : IsEntry(list[i])

\* A page goes behind the pages before it.
LEMMA PageAdds ==
  ASSUME NEW after, \A e \in after : IsEntry(e), NEW list, IsResult(list),
         \A i \in 1 .. Len(list) : \A e \in after : EntryLess(list[i], e),
         NEW page, IsPageOf(page, after), NEW stable, \A e \in stable : Among(e, list) \/ e \in after
  PROVE  LET all == list \o page.entries
         IN /\ IsResult(all)
            /\ \A i \in 1 .. Len(all) : Among(all[i], list) \/ all[i] \in after
            /\ page.token = NoToken => \A e \in stable : Among(e, all)
            /\ page.token # NoToken => \E b \in after :
                 /\ b.row = page.token.row
                 /\ \A i \in 1 .. Len(all) : all[i] = b \/ EntryLess(all[i], b)
                 /\ \A e \in stable : Among(e, all) \/ EntryLess(b, e)
<1> DEFINE more == page.entries
           all == list \o more
           n == Len(list)
           m == Len(more)
           total == Len(all)
<1>1. /\ IsList(list) /\ Ascending(list) /\ IsList(more) /\ Ascending(more)
      /\ \A i \in 1 .. m : more[i] \in after
  BY DEF IsResult, IsPageOf
<1>2. /\ IsList(all) /\ total = n + m /\ n \in Nat /\ m \in Nat
      /\ \A i \in 1 .. n : all[i] = list[i]
      /\ \A i \in 1 .. m : all[n + i] = more[i]
  <2> HIDE DEF more
  <2> QED BY <1>1, ListsJoin
<1>3. \/ page.token = NoToken /\ \A e \in after : Among(e, more)
      \/ /\ page.token # NoToken /\ m > 0 /\ page.token.row = more[m].row
         /\ \A e \in after : Among(e, more) \/ EntryLess(more[m], e)
  BY DEF IsPageOf
<1>4. \A i \in 1 .. n : IsEntry(list[i]) /\ \A e \in after : EntryLess(list[i], e)
  BY DEF IsResult
<1>5. \A i, j \in 1 .. n : i < j => EntryLess(list[i], list[j])
  BY <1>1 DEF Ascending
<1>6. \A i, j \in 1 .. m : i < j => EntryLess(more[i], more[j])
  BY <1>1 DEF Ascending
<1> HIDE DEF all, more, n, m, total
<1>7. ASSUME NEW i \in 1 .. total
      PROVE  \/ i \in 1 .. n /\ all[i] = list[i]
             \/ i - n \in 1 .. m /\ all[i] = more[i - n]
  <2>1. CASE i <= n
    BY <1>2, <2>1
  <2>2. CASE i > n
    <3>1. i - n \in 1 .. m /\ n + (i - n) = i
      BY <1>2, <2>2
    <3> QED BY <1>2, <3>1
  <2> QED BY <1>2, <2>1, <2>2
<1>8. ASSUME NEW i \in 1 .. total, NEW j \in 1 .. total, i < j
      PROVE  EntryLess(all[i], all[j])
  <2>1. CASE i \in 1 .. n /\ j \in 1 .. n
    BY <1>2, <1>5, <1>8, <2>1
  <2>2. CASE i \in 1 .. n /\ j > n
    <3>1. all[i] = list[i] /\ j - n \in 1 .. m /\ all[j] = more[j - n]
      BY <1>2, <1>7, <2>2
    <3> QED BY <1>1, <1>4, <2>2, <3>1
  <2>3. CASE i > n
    <3>1. /\ i - n \in 1 .. m /\ all[i] = more[i - n] /\ j - n \in 1 .. m /\ all[j] = more[j - n]
          /\ i - n < j - n
      BY <1>2, <1>7, <1>8, <2>3
    <3> QED BY <1>6, <3>1
  <2> QED BY <1>2, <2>1, <2>2, <2>3
<1>9. ASSUME NEW i \in 1 .. total
      PROVE  (Among(all[i], list) \/ all[i] \in after) /\ IsEntry(all[i])
  BY <1>1, <1>4, <1>7 DEF Among, n
<1>10. IsResult(all)
  BY <1>2, <1>8, <1>9 DEF IsResult, Ascending, total
<1>11. ASSUME NEW e, Among(e, list) \/ Among(e, more)
       PROVE  Among(e, all)
  <2>1. CASE Among(e, list)
    <3>1. PICK i \in 1 .. n : list[i] = e
      BY <2>1 DEF Among, n
    <3>2. i \in 1 .. total /\ all[i] = e
      BY <1>2, <3>1
    <3> QED BY <3>2 DEF Among, total
  <2>2. CASE Among(e, more)
    <3>1. PICK i \in 1 .. m : more[i] = e
      BY <2>2 DEF Among, m
    <3>2. n + i \in 1 .. total /\ all[n + i] = e
      BY <1>2, <3>1
    <3> QED BY <3>2 DEF Among, total
  <2> QED BY <1>11, <2>1, <2>2
<1>12. CASE page.token = NoToken
  <2>1. \A e \in stable : Among(e, all)
    BY <1>3, <1>11, <1>12
  <2> QED BY <1>9, <1>10, <1>12, <2>1 DEF all, more, total
<1>13. CASE page.token # NoToken
  <2> DEFINE b == more[m]
  <2>1. m \in 1 .. m /\ b.row = page.token.row /\ \A e \in after : Among(e, more) \/ EntryLess(b, e)
    BY <1>2, <1>3, <1>13
  <2>2. b \in after
    BY <1>1, <2>1 DEF more, m
  <2>3. ASSUME NEW i \in 1 .. total PROVE all[i] = b \/ EntryLess(all[i], b)
    <3>1. CASE i \in 1 .. n /\ all[i] = list[i]
      BY <1>4, <2>2, <3>1
    <3>2. CASE i - n \in 1 .. m /\ all[i] = more[i - n]
      <4>1. i - n = m \/ i - n < m
        BY <1>2, <3>2
      <4> QED BY <1>6, <2>1, <3>2, <4>1
    <3> QED BY <1>7, <3>1, <3>2
  <2>4. \A e \in stable : Among(e, all) \/ EntryLess(b, e)
    BY <1>11, <2>1
  <2> HIDE DEF b
  <2> QED BY <1>9, <1>10, <1>13, <2>1, <2>2, <2>3, <2>4 DEF all, more, total
<1> QED BY <1>12, <1>13

-----------------------------------------------------------------------------
(***************************************************************************)
(* A page of versions                                                      *)
(***************************************************************************)
\* Part of a list
LEMMA PartOfList ==
  ASSUME NEW list, IsList(list), NEW a \in Nat, NEW b \in Nat, a < b, b <= Len(list)
  PROVE  LET part == SubSeq(list, a + 1, b)
         IN IsList(part) /\ Len(part) = b - a /\ \A i \in 1 .. b - a : part[i] = list[a + i]
<1> DEFINE S == {list[i] : i \in 1 .. Len(list)}
           from == a + 1
           part == SubSeq(list, from, b)
<1>1. Len(list) \in Nat /\ list \in [1 .. Len(list) -> S] /\ from \in Int /\ b \in Int
  BY DEF IsList
<1>2. \A i \in from .. b : list[i] \in S
  BY <1>1
<1>3. b - from + 1 = b - a /\ from <= b
  OBVIOUS
<1> HIDE DEF S, from
<1>4. /\ part \in Seq(S)
      /\ Len(part) = IF from <= b THEN b - from + 1 ELSE 0
      /\ \A i \in 1 .. b - from + 1 : part[i] = list[from + i - 1]
  BY <1>1, <1>2, SubSeqProperties
<1>5. \A i \in 1 .. b - a : from + i - 1 = a + i
  BY DEF from
<1> HIDE DEF part
<1>6. IsList(part) /\ Len(part) = b - a /\ \A i \in 1 .. b - a : part[i] = list[a + i]
  BY <1>3, <1>4, <1>5, SequenceIsList
<1> QED BY <1>6 DEF part, from

\* The table whose versions a request lists
IsListed(s, r, t) == FindTable(s, r.database, r.table) = {t}

\* A request that lists versions names one table.
LEMMA TableIsListed ==
  ASSUME NEW s, StoreGood(s), NEW r, VersionList(s, r) # << >>
  PROVE  \E t : IsListed(s, r, t)
<1> DEFINE found == FindTable(s, r.database, r.table)
<1>1. found # {}
  BY DEF VersionList
<1>2. \A a, b \in found : a = b
  BY FoundIsOne DEF StoreGood
<1> HIDE DEF found
<1>3. PICK t \in found : TRUE
  BY <1>1
<1>4. found = {t}
  BY <1>2, <1>3
<1> QED BY <1>4 DEF found, IsListed

LEMMA VersionsAreListed ==
  ASSUME NEW s, StoreGood(s), NEW r, NEW t, IsListed(s, r, t)
  PROVE  LET list == VersionList(s, r)
             archive == s.tables[t].archive
         IN /\ IsList(list) /\ Len(archive) \in Nat /\ Len(list) = Len(archive) + 1
            /\ \A i \in 1 .. Len(archive) :
                 list[i] = [row |-> archive[i].version, parent |-> <<t, s.tables[t].created>>,
                            key |-> << >>, keys |-> << >>]
            /\ \A i \in 1 .. Len(list) : list[i].parent = <<t, s.tables[t].created>>
            /\ \A i, j \in 1 .. Len(list) : list[i] = list[j] => i = j
<1> DEFINE table == s.tables[t]
           archive == table.archive
           n == Len(archive) + 1
           parent == <<t, table.created>>
           number == [i \in 1 .. n |-> IF i <= Len(archive) THEN archive[i].version ELSE table.version]
           made == [i \in 1 .. n |-> [row |-> number[i], parent |-> parent, key |-> << >>, keys |-> << >>]]
           list == VersionList(s, r)
<1>1. t \in DOMAIN s.tables /\ TableTyped(table)
  BY DEF IsListed, FindTable, StoreGood, StoreTyped, RowsTyped
<1>2. Only({t}) = t
  BY OnlyIsFound
<1>3. list = made
  BY <1>2 DEF VersionList, IsListed
<1>4. /\ Len(archive) \in Nat /\ DOMAIN archive = 1 .. Len(archive) /\ table.version \in Nat
      /\ \A i \in 1 .. Len(archive) :
           /\ archive[i].version \in Nat /\ archive[i].version < table.version
           /\ \A j \in 1 .. i - 1 : archive[j].version < archive[i].version
  BY <1>1 DEF TableTyped
<1> HIDE DEF table, archive, parent
<1>5. n \in Nat /\ n = Len(archive) + 1
  BY <1>4
<1> HIDE DEF n
<1>6. /\ \A i \in 1 .. Len(archive) : i \in 1 .. n /\ number[i] = archive[i].version
      /\ number[n] = table.version
  BY <1>4, <1>5
<1> HIDE DEF number
<1> DEFINE S == {made[i] : i \in 1 .. n}
<1>7. made \in [1 .. n -> S]
  OBVIOUS
<1>8. \A i \in 1 .. n :
        /\ made[i] = [row |-> number[i], parent |-> parent, key |-> << >>, keys |-> << >>]
        /\ made[i].row = number[i] /\ made[i].parent = parent
  OBVIOUS
<1> HIDE DEF S, made
<1>9. made \in Seq(S) /\ Len(made) = n
  BY <1>5, <1>7
<1>10. ASSUME NEW i \in 1 .. n, NEW j \in 1 .. n, i < j PROVE number[i] # number[j]
  <2>1. i \in 1 .. Len(archive) /\ number[i] = archive[i].version /\ i \in Int /\ j \in Int
    BY <1>4, <1>5, <1>6, <1>10
  <2>2. CASE j = n
    BY <1>4, <1>6, <2>1, <2>2
  <2>3. CASE j # n
    <3>1. j \in 1 .. Len(archive) /\ number[j] = archive[j].version /\ i \in 1 .. j - 1
      BY <1>4, <1>5, <1>6, <1>10, <2>1, <2>3
    <3>2. archive[i].version < archive[j].version /\ archive[i].version \in Nat /\ archive[j].version \in Nat
      BY <1>4, <2>1, <3>1
    <3> QED BY <2>1, <3>1, <3>2
  <2> QED BY <2>2, <2>3
<1>11. \A i, j \in 1 .. n : made[i] = made[j] => i = j
  <2> TAKE i, j \in 1 .. n
  <2>1. made[i] = made[j] => number[i] = number[j]
    BY <1>8
  <2>2. i \in Int /\ j \in Int /\ (i < j => number[i] # number[j]) /\ (j < i => number[j] # number[i])
    BY <1>10
  <2> QED BY <2>1, <2>2
<1>12. \A i \in 1 .. n : made[i].parent = parent
  BY <1>8
<1>13. \A i \in 1 .. Len(archive) :
         made[i] = [row |-> archive[i].version, parent |-> parent, key |-> << >>, keys |-> << >>]
  BY <1>6, <1>8
<1> HIDE DEF list
<1>14. IsList(list) /\ Len(list) = n
  BY <1>3, <1>9, SequenceIsList
<1> QED BY <1>3, <1>4, <1>5, <1>11, <1>12, <1>13, <1>14 DEF list, table, archive, parent

\* The beginning of a list
IsFront(list, values) == IsList(list) /\ \A i \in 1 .. Len(list) : list[i] = values[i]

LEMMA FrontGrows ==
  ASSUME NEW values, NEW list, IsFront(list, values), NEW part, IsList(part),
         \A i \in 1 .. Len(part) : part[i] = values[Len(list) + i]
  PROVE  LET joined == list \o part
         IN IsFront(joined, values) /\ Len(joined) = Len(list) + Len(part) /\ Len(list) \in Nat /\ Len(part) \in Nat
<1> DEFINE all == list \o part
           n == Len(list)
           m == Len(part)
           total == Len(all)
<1>1. IsList(list)
  BY DEF IsFront
<1>2. /\ IsList(all) /\ total = n + m /\ n \in Nat /\ m \in Nat
      /\ \A i \in 1 .. n : all[i] = list[i]
      /\ \A i \in 1 .. m : all[n + i] = part[i]
  BY <1>1, ListsJoin
<1>3. /\ \A i \in 1 .. n : list[i] = values[i]
      /\ \A i \in 1 .. m : part[i] = values[n + i]
  BY DEF IsFront
<1> HIDE DEF all, n, m, total
<1>4. ASSUME NEW i \in 1 .. total PROVE all[i] = values[i]
  <2>1. CASE i <= n
    BY <1>2, <1>3, <2>1
  <2>2. CASE i > n
    <3>1. i - n \in 1 .. m /\ n + (i - n) = i
      BY <1>2, <2>2
    <3>2. all[n + (i - n)] = part[i - n] /\ part[i - n] = values[n + (i - n)]
      BY <1>2, <1>3, <3>1
    <3> QED BY <3>1, <3>2
  <2> QED BY <1>2, <2>1, <2>2
<1> QED BY <1>2, <1>4 DEF IsFront, all, n, m, total

\* A page holds the versions from the offset of its token on.
Continues(token, list) == token.offset = Len(list)

LEMMA VersionsPageIsNext ==
  ASSUME NEW values, IsList(values), NEW size \in Nat \ {0}, NEW list, IsFront(list, values),
         Len(list) \in 0 .. Len(values) - 1, NEW token, Continues(token, list)
  PROVE  LET page == OffsetPage(values, size, token)
             joined == list \o page.entries
         IN /\ IsFront(joined, values)
            /\ page.token = NoToken => Len(joined) = Len(values)
            /\ page.token # NoToken => Continues(page.token, joined) /\ Len(joined) \in 0 .. Len(values) - 1
<1> DEFINE n == Len(list)
           end == IF Len(values) < n + size THEN Len(values) ELSE n + size
           rest == SubSeq(values, n + 1, end)
           following == [offset |-> end, row |-> NoRow]
           page == OffsetPage(values, size, token)
           all == list \o rest
<1>1. page = IF end < Len(values) THEN [outcome |-> "ok", entries |-> rest, token |-> following] ELSE LastPage(rest)
  BY DEF OffsetPage, Continues
<1>2. Len(values) \in Nat
  BY DEF IsList
<1>3. n \in Nat /\ end \in Nat /\ n < end /\ end <= Len(values)
  BY <1>2
<1>4. IsList(rest) /\ Len(rest) = end - n /\ \A i \in 1 .. end - n : rest[i] = values[n + i]
  <2> HIDE DEF end
  <2> QED BY <1>3, PartOfList
<1>5. following # NoToken /\ following.offset = end
  <2>1. end # 0
    BY <1>3
  <2> HIDE DEF end
  <2> QED BY <2>1 DEF NoToken
<1> HIDE DEF end, rest, following
<1>6. /\ page.entries = rest
      /\ (end < Len(values) /\ page.token = following) \/ (~(end < Len(values)) /\ page.token = NoToken)
  BY <1>1 DEF LastPage
<1> HIDE DEF page
<1>7. IsFront(all, values) /\ Len(all) = Len(list) + Len(rest) /\ Len(list) \in Nat /\ Len(rest) \in Nat
  <2>1. IsList(rest) /\ \A i \in 1 .. Len(rest) : rest[i] = values[Len(list) + i]
    BY <1>4
  <2> QED BY <2>1, FrontGrows
<1> HIDE DEF all
<1>8. Len(all) = end
  BY <1>3, <1>4, <1>7
<1>9. /\ page.token = NoToken => Len(all) = Len(values)
      /\ page.token # NoToken => Continues(page.token, all) /\ Len(all) \in 0 .. Len(values) - 1
  BY <1>2, <1>3, <1>5, <1>6, <1>8 DEF Continues
<1> QED BY <1>6, <1>7, <1>9 DEF all, page

\* What was archived of a table stays so as long as the table is there.
ArchivesStay(s, v) ==
  \A t \in DOMAIN s.tables \cap DOMAIN v.tables : v.tables[t].created = s.tables[t].created =>
    /\ Len(s.tables[t].archive) <= Len(v.tables[t].archive)
    /\ \A i \in 1 .. Len(s.tables[t].archive) : v.tables[t].archive[i] = s.tables[t].archive[i]

LEMMA CommandsKeepArchives ==
  ASSUME NEW s, StoreGood(s), CreatedOnce(s), NEW u, NEW op, TablesFollow(s, u, op)
  PROVE  ArchivesStay(s, u)
<1>1. ASSUME NEW t \in DOMAIN s.tables \cap DOMAIN u.tables, u.tables[t].created = s.tables[t].created
      PROVE  /\ Len(s.tables[t].archive) <= Len(u.tables[t].archive)
             /\ \A i \in 1 .. Len(s.tables[t].archive) : u.tables[t].archive[i] = s.tables[t].archive[i]
  <2> DEFINE archive == s.tables[t].archive
             S == {archive[i] : i \in DOMAIN archive}
  <2>1. TableTyped(s.tables[t])
    BY DEF StoreGood, StoreTyped, RowsTyped
  <2>2. archive \in Seq(S) /\ Len(archive) \in Nat
    BY <2>1 DEF TableTyped
  <2>3. CASE u.tables[t] = s.tables[t]
    BY <2>2, <2>3
  <2>4. CASE u.tables[t] = Revise(s.tables[t], op)
    <3> DEFINE new == [version |-> s.tables[t].version, location |-> s.tables[t].location]
               T == S \cup {new}
               revised == u.tables[t].archive
    <3>1. revised = IF op.skipArchive THEN archive ELSE Append(archive, new)
      BY <2>1, <2>4, RevisedParts
    <3>2. archive \in Seq(T) /\ new \in T
      BY <2>2
    <3> HIDE DEF S, T, new, archive
    <3>3. Append(archive, new) \in Seq(T) /\ Len(Append(archive, new)) = Len(archive) + 1
          /\ \A i \in 1 .. Len(archive) : Append(archive, new)[i] = archive[i]
      BY <2>2, <3>2, AppendProperties
    <3> HIDE DEF revised
    <3>4. Len(archive) <= Len(revised) /\ \A i \in 1 .. Len(archive) : revised[i] = archive[i]
      BY <2>2, <3>1, <3>3
    <3> QED BY <3>4 DEF archive, revised
  <2>5. CASE \E d : u.tables[t] = NewTable(d, op, s.revision)
    <3>1. u.tables[t].created = s.revision
      BY <2>5, NewTableParts
    <3>2. s.tables[t].created < s.revision /\ s.tables[t].created \in Nat /\ s.revision \in Nat
      BY DEF CreatedOnce
    <3> QED BY <1>1, <3>1, <3>2
  <2> QED BY <2>3, <2>4, <2>5 DEF TablesFollow
<1> QED BY <1>1 DEF ArchivesStay

-----------------------------------------------------------------------------
(***************************************************************************)
(* What other requests do to the catalog                                   *)
(***************************************************************************)
LEMMA StoreMoves ==
  ASSUME [FormatNext]_<<catalogVars, formatVars>>
  PROVE  /\ catalogSession' = catalogSession
         /\ \/ store' = store
            \/ \E c \in Clients : Commit(c)
            \/ \E new : store' = [store EXCEPT !.running = new]
<1>1. CASE UNCHANGED <<catalogVars, formatVars>>
  BY <1>1 DEF catalogVars
<1>2. CASE CatalogStep
  <2>1. ASSUME NEW c \in Clients,
               Begin(c) \/ Busy(c) \/ CommitFails(c) \/ CancelRequest(c) \/ ItemEnds(c)
        PROVE  catalogSession' = catalogSession /\ store' = store
    BY <2>1 DEF Begin, Busy, CommitFails, CancelRequest, ItemEnds
  <2>2. ASSUME NEW c \in Clients, Commit(c) PROVE catalogSession' = catalogSession
    BY <2>2 DEF Commit
  <2>3. ASSUME NEW c \in Clients, NEW request, Submit(c, request)
        PROVE  catalogSession' = catalogSession /\ store' = store
    BY <2>3 DEF Submit
  <2>4. CASE OptimizerRuns
    BY <2>4 DEF OptimizerRuns
  <2> QED BY <1>2, <2>1, <2>2, <2>3, <2>4 DEF CatalogStep
<1>3. ASSUME NEW c \in Clients, PublicationStep(c)
      PROVE  catalogSession' = catalogSession /\ (store' = store \/ Commit(c))
  <2>1. CASE ReadFails(c)
    BY <2>1 DEF ReadFails
  <2>2. CASE ReadMetadata(c)
    BY <2>2 DEF ReadMetadata
  <2>3. CASE WriteCandidate(c)
    BY <2>3 DEF WriteCandidate
  <2>4. CASE WriteFails(c)
    BY <2>4 DEF WriteFails
  <2>5. CASE Publish(c)
    BY <2>5 DEF Publish, Commit
  <2>6. CASE PublicationEnds(c)
    BY <2>6 DEF PublicationEnds
  <2>7. CASE Compensate(c)
    BY <2>7 DEF Compensate
  <2> QED BY <1>3, <2>1, <2>2, <2>3, <2>4, <2>5, <2>6, <2>7 DEF PublicationStep
<1>4. ASSUME NEW c \in Clients, NEW request, SubmitCreate(c, request) \/ SubmitUpdate(c, request)
      PROVE  catalogSession' = catalogSession /\ store' = store
  BY <1>4 DEF SubmitCreate, SubmitUpdate
<1>5. CASE LateWrite
  BY <1>5 DEF LateWrite, catalogVars
<1> QED BY <1>1, <1>2, <1>3, <1>4, <1>5 DEF FormatNext

LEMMA CatalogMoves ==
  ASSUME CatalogInOrder, PublicationInOrder, NamesAreText(store), [FormatNext]_<<catalogVars, formatVars>>
  PROVE  catalogSession' = catalogSession /\ NamesAreText(store') /\ ArchivesStay(store, store')
<1>1. catalogSession' = catalogSession
  BY StoreMoves
<1>2. StoreGood(store) /\ CreatedOnce(store)
  BY DEF CatalogInOrder, PublicationInOrder
<1>3. ASSUME NEW s, s.tables = store.tables PROVE ArchivesStay(store, s)
  <2>1. ASSUME NEW t \in DOMAIN store.tables PROVE Len(store.tables[t].archive) \in Nat
    <3>1. TableTyped(store.tables[t])
      BY <1>2 DEF StoreGood, StoreTyped, RowsTyped
    <3> QED BY <3>1 DEF TableTyped
  <2> QED BY <1>3, <2>1 DEF ArchivesStay
<1>4. CASE store' = store
  BY <1>1, <1>3, <1>4
<1>5. ASSUME NEW new, store' = [store EXCEPT !.running = new]
      PROVE  NamesAreText(store') /\ ArchivesStay(store, store')
  <2>1. store'.tables = store.tables
    BY <1>2, <1>5, RunsKeepTables
  <2>2. store'.databases = store.databases
    <3>1. [store EXCEPT !.running = new].databases = store.databases
      BY <1>2, CommittedDatabases
    <3> QED BY <1>5, <3>1
  <2> QED BY <1>3, <2>1, <2>2 DEF NamesAreText
<1>6. ASSUME NEW c \in Clients, Commit(c)
      PROVE  NamesAreText(store') /\ ArchivesStay(store, store')
  <2> DEFINE op == Op(c)
  <2>1. writer = c /\ store' = Committed(draft)
    BY <1>6 DEF Commit
  <2>2. DraftFits(draft, store, work[c])
    BY <2>1, RequestIsGood
  <2>3. StoreGood(draft) /\ IsCommand(op) /\ Refusal(store, op) = "ok" /\ draft = Effect(store, op)
    BY <2>1, <2>2, RequestInOrder DEF DraftFits, OpOf, Op
  <2> HIDE DEF op
  <2>4. NamesAreText(draft)
    BY <1>2, <2>3, EffectKeepsText
  <2>5. TablesFollow(store, draft, op)
    BY <1>2, <2>3, EffectOnTables
  <2>6. ArchivesStay(store, draft)
    BY <1>2, <2>5, CommandsKeepArchives
  <2>7. store'.tables = draft.tables
    BY <2>1, <2>3, CommittedTables
  <2>8. store'.databases = draft.databases
    BY <2>1, <2>3, CommittedDatabases
  <2> QED BY <2>4, <2>6, <2>7, <2>8 DEF NamesAreText, ArchivesStay
<1> QED BY <1>1, <1>4, <1>5, <1>6, StoreMoves


-----------------------------------------------------------------------------
(***************************************************************************)
(* The listing                                                             *)
(***************************************************************************)
HasParts(l) == {"state", "request", "token", "returned", "stable", "boundary", "disturbed"} \subseteq DOMAIN l

\* A keyset listing has returned what is wanted, in order, and nothing wanted is left behind the
\* row the last page ended with.
RowsFollow(l, s) ==
  l.state \in {"open", "complete"} /\ l.request.kind # "versions" /\ ~l.disturbed /\ ~SqlDiffers(l.request) =>
    /\ IsResult(l.returned)
    /\ \A i \in 1 .. Len(l.returned) : Wanted(l.request, l.returned[i])
    /\ l.state = "complete" => \A e \in l.stable : Among(e, l.returned)
    /\ l.state = "open" => \E b \in Entries(s, l.request) :
         /\ l.boundary = {b} /\ b.row = l.token.row
         /\ \A i \in 1 .. Len(l.returned) : l.returned[i] = b \/ EntryLess(l.returned[i], b)
         /\ \A e \in l.stable : e \in Asked(s, l.request) /\ (Among(e, l.returned) \/ EntryLess(b, e))

\* A listing of versions, while the table it began with is there, has returned the first of them.
VersionsFollow(l, s) ==
  l.stable # {} /\ l.request.kind = "versions" =>
    /\ l.state = "open" =>
         LET values == VersionList(s, l.request)
         IN /\ l.stable \subseteq Entries(s, l.request) /\ IsFront(l.returned, values)
            /\ Len(l.returned) \in 0 .. Len(values) - 1 /\ Continues(l.token, l.returned)
    /\ l.state = "complete" =>
         /\ IsList(l.returned) /\ \A e \in l.stable : Among(e, l.returned)
         /\ \A i, j \in 1 .. Len(l.returned) : l.returned[i] = l.returned[j] => i = j

ListingGood(l, s, listings) ==
  /\ HasParts(l) /\ l.state \in {"idle", "open", "complete", "failed"}
  /\ l.state = "idle" => l = NotListing
  /\ l.state # "idle" => l.request \in listings
  /\ RowsFollow(l, s) /\ VersionsFollow(l, s)

\* The client, as another request is served
LEMMA WatchParts ==
  ASSUME HasParts(listing), listing.state = "open", Watch
  PROVE  LET now == Entries(store', listing.request)
         IN /\ HasParts(listing')
            /\ listing'.state = "open" /\ listing'.request = listing.request /\ listing'.token = listing.token
            /\ listing'.returned = listing.returned /\ listing'.boundary = listing.boundary
            /\ listing'.stable = listing.stable \cap now
            /\ listing'.disturbed = (listing.disturbed \/ ~(listing.boundary \subseteq now))
<1> DEFINE now == Entries(store', listing.request)
           stable == listing.stable \cap now
           disturbed == listing.disturbed \/ ~(listing.boundary \subseteq now)
<1>1. listing' = [listing EXCEPT !.stable = stable, !.disturbed = disturbed]
  BY DEF Watch
<1> HIDE DEF stable, disturbed
<1>2. /\ HasParts(listing')
      /\ listing'.state = "open" /\ listing'.request = listing.request /\ listing'.token = listing.token
      /\ listing'.returned = listing.returned /\ listing'.boundary = listing.boundary
      /\ listing'.stable = stable /\ listing'.disturbed = disturbed
  BY <1>1 DEF HasParts
<1> QED BY <1>2 DEF stable, disturbed

\* A listing of versions goes on as long as its table is there.
LEMMA VersionsStay ==
  ASSUME NEW s, StoreGood(s), NEW v, StoreGood(v), ArchivesStay(s, v), NEW r,
         NEW e, Among(e, VersionList(s, r)), Among(e, VersionList(v, r)),
         NEW list, IsFront(list, VersionList(s, r)), Len(list) \in 0 .. Len(VersionList(s, r)) - 1
  PROVE  IsFront(list, VersionList(v, r)) /\ Len(list) \in 0 .. Len(VersionList(v, r)) - 1
<1> DEFINE old == VersionList(s, r)
           new == VersionList(v, r)
<1>1. ASSUME NEW u, StoreGood(u), Among(e, VersionList(u, r))
      PROVE  \E t : IsListed(u, r, t)
  <2>1. VersionList(u, r) # << >>
    BY <1>1 DEF Among
  <2> QED BY <1>1, <2>1, TableIsListed
<1>2. PICK t : IsListed(s, r, t)
  BY <1>1
<1>3. PICK t1 : IsListed(v, r, t1)
  BY <1>1
<1> DEFINE archive == s.tables[t].archive
           later == v.tables[t1].archive
<1>4. /\ IsList(old) /\ Len(archive) \in Nat /\ Len(old) = Len(archive) + 1
      /\ \A i \in 1 .. Len(archive) :
           old[i] = [row |-> archive[i].version, parent |-> <<t, s.tables[t].created>>,
                     key |-> << >>, keys |-> << >>]
      /\ \A i \in 1 .. Len(old) : old[i].parent = <<t, s.tables[t].created>>
  BY <1>2, VersionsAreListed
<1>5. /\ IsList(new) /\ Len(later) \in Nat /\ Len(new) = Len(later) + 1
      /\ \A i \in 1 .. Len(later) :
           new[i] = [row |-> later[i].version, parent |-> <<t1, v.tables[t1].created>>,
                     key |-> << >>, keys |-> << >>]
      /\ \A i \in 1 .. Len(new) : new[i].parent = <<t1, v.tables[t1].created>>
  BY <1>3, VersionsAreListed
<1>6. Among(e, old) /\ Among(e, new)
  OBVIOUS
<1> HIDE DEF old, new
<1>7. e.parent = <<t, s.tables[t].created>> /\ e.parent = <<t1, v.tables[t1].created>>
  BY <1>4, <1>5, <1>6 DEF Among
<1>8. t = t1 /\ s.tables[t].created = v.tables[t1].created
  BY <1>7
<1>9. t \in DOMAIN s.tables \cap DOMAIN v.tables
  BY <1>2, <1>3, <1>8 DEF IsListed, FindTable
<1>10. Len(archive) <= Len(later) /\ \A i \in 1 .. Len(archive) : later[i] = archive[i]
  BY <1>8, <1>9 DEF ArchivesStay
<1>11. IsList(list) /\ Len(list) \in 0 .. Len(archive) /\ \A i \in 1 .. Len(list) : list[i] = old[i]
  BY <1>4 DEF IsFront, old
<1> HIDE DEF archive, later
<1>12. ASSUME NEW i \in 1 .. Len(list) PROVE list[i] = new[i]
  <2>1. i \in 1 .. Len(archive) /\ i \in 1 .. Len(later) /\ later[i] = archive[i]
    BY <1>4, <1>5, <1>10, <1>11
  <2> QED BY <1>4, <1>5, <1>8, <1>11, <2>1 DEF archive, later
<1>13. Len(list) \in 0 .. Len(new) - 1
  BY <1>4, <1>5, <1>10, <1>11
<1> QED BY <1>11, <1>12, <1>13 DEF IsFront, new

\* The list and the set of the versions
LEMMA VersionsAreEntries ==
  ASSUME NEW s, StoreGood(s), NEW r, r.kind = "versions"
  PROVE  \A e : e \in Entries(s, r) <=> Among(e, VersionList(s, r))
<1> DEFINE list == VersionList(s, r)
<1>1. DOMAIN list = 1 .. Len(list)
  <2>1. CASE list = << >>
    BY <2>1
  <2>2. CASE list # << >>
    <3>1. PICK t : IsListed(s, r, t)
      BY <2>2, TableIsListed
    <3>2. IsList(list)
      BY <3>1, VersionsAreListed
    <3> QED BY <3>2 DEF IsList
  <2> QED BY <2>1, <2>2
<1>2. Entries(s, r) = {list[i] : i \in DOMAIN list}
  BY DEF Entries
<1> HIDE DEF list
<1>3. \A e : e \in Entries(s, r) <=> Among(e, list)
  BY <1>1, <1>2 DEF Among
<1> QED BY <1>3 DEF list

\* A listing goes on soundly while other requests are served.
LEMMA WatchKeepsListing ==
  ASSUME NEW listings, ListingGood(listing, store, listings), StoreGood(store), StoreGood(store'),
         ArchivesStay(store, store'), Watch
  PROVE  ListingGood(listing', store', listings)
<1> DEFINE l == listing
           r == listing.request
           now == Entries(store', r)
<1>1. CASE listing.state # "open"
  <2>1. listing' = listing
    BY <1>1 DEF Watch
  <2> QED BY <1>1, <2>1 DEF ListingGood, RowsFollow, VersionsFollow
<1>2. CASE listing.state = "open"
  <2>1. HasParts(listing)
    BY DEF ListingGood
  <2>2. /\ HasParts(listing')
        /\ listing'.state = "open" /\ listing'.request = r /\ listing'.token = listing.token
        /\ listing'.returned = listing.returned /\ listing'.boundary = listing.boundary
        /\ listing'.stable = listing.stable \cap now
        /\ listing'.disturbed = (listing.disturbed \/ ~(listing.boundary \subseteq now))
    BY <1>2, <2>1, WatchParts
  <2> HIDE DEF r, now
  <2>3. RowsFollow(listing', store')
    <3> SUFFICES ASSUME r.kind # "versions", ~listing'.disturbed, ~SqlDiffers(r)
                 PROVE  /\ IsResult(listing.returned)
                        /\ \A i \in 1 .. Len(listing.returned) : Wanted(r, listing.returned[i])
                        /\ \E b \in now :
                             /\ listing.boundary = {b} /\ b.row = listing.token.row
                             /\ \A i \in 1 .. Len(listing.returned) :
                                  listing.returned[i] = b \/ EntryLess(listing.returned[i], b)
                             /\ \A e \in listing.stable \cap now :
                                  e \in Asked(store', r) /\ (Among(e, listing.returned) \/ EntryLess(b, e))
      BY <2>2 DEF RowsFollow, now
    <3>1. ~listing.disturbed /\ listing.boundary \subseteq now
      BY <2>2
    <3>2. /\ IsResult(listing.returned)
          /\ \A i \in 1 .. Len(listing.returned) : Wanted(r, listing.returned[i])
          /\ \E b \in Entries(store, r) :
               /\ listing.boundary = {b} /\ b.row = listing.token.row
               /\ \A i \in 1 .. Len(listing.returned) :
                    listing.returned[i] = b \/ EntryLess(listing.returned[i], b)
               /\ \A e \in listing.stable :
                    e \in Asked(store, r) /\ (Among(e, listing.returned) \/ EntryLess(b, e))
      BY <1>2, <3>1 DEF ListingGood, RowsFollow, r
    <3>3. PICK b \in Entries(store, r) :
               /\ listing.boundary = {b} /\ b.row = listing.token.row
               /\ \A i \in 1 .. Len(listing.returned) :
                    listing.returned[i] = b \/ EntryLess(listing.returned[i], b)
               /\ \A e \in listing.stable :
                    e \in Asked(store, r) /\ (Among(e, listing.returned) \/ EntryLess(b, e))
      BY <3>2
    <3>4. b \in now
      BY <3>1, <3>3
    <3>5. \A e \in listing.stable \cap now : e \in Asked(store', r)
      BY <3>3 DEF Asked, now
    <3> QED BY <3>2, <3>3, <3>4, <3>5
  <2>4. VersionsFollow(listing', store')
    <3> DEFINE values == VersionList(store', r)
               before == VersionList(store, r)
               list == listing.returned
    <3> SUFFICES ASSUME r.kind = "versions", listing.stable \cap now # {}
                 PROVE  /\ listing.stable \cap now \subseteq now /\ IsFront(list, values)
                        /\ Len(list) \in 0 .. Len(values) - 1 /\ Continues(listing.token, list)
      BY <2>2 DEF VersionsFollow, now
    <3>1. /\ listing.stable \subseteq Entries(store, r) /\ IsFront(list, before)
          /\ Len(list) \in 0 .. Len(before) - 1 /\ Continues(listing.token, list)
      BY <1>2 DEF ListingGood, VersionsFollow, r
    <3>2. PICK e \in listing.stable : e \in now
      OBVIOUS
    <3>3. Among(e, before) /\ Among(e, values)
      BY <3>1, <3>2, VersionsAreEntries DEF now
    <3> HIDE DEF values, before, list
    <3>4. IsFront(list, values) /\ Len(list) \in 0 .. Len(values) - 1
      BY <3>1, <3>3, VersionsStay DEF values, before
    <3> QED BY <3>1, <3>4
  <2> QED BY <1>2, <2>2, <2>3, <2>4 DEF ListingGood, r
<1> QED BY <1>1, <1>2

\* The client, as its next page is served
LEMMA NextPageParts ==
  ASSUME HasParts(listing), listing.state = "idle" => listing = NotListing, NEW request, NEW size,
         NextPage(request, size)
  PROVE  LET open == listing.state = "open"
             page == IF open /\ request # listing.request THEN InvalidInput
                     ELSE Page(store, request, size, listing.token)
         IN /\ listing.state \in {"idle", "open"} /\ UNCHANGED <<catalogVars, formatVars>>
            /\ HasParts(listing')
            /\ listing'.state = IF page.outcome # "ok" THEN "failed"
                                ELSE IF page.token = NoToken THEN "complete" ELSE "open"
            /\ listing'.request = IF open THEN listing.request ELSE request
            /\ listing'.token = page.token
            /\ listing'.returned = listing.returned \o page.entries
            /\ listing'.stable = IF open THEN listing.stable ELSE Asked(store, request)
            /\ listing'.boundary = IF request.kind = "versions" THEN {}
                                   ELSE {e \in Entries(store, request) : e.row = page.token.row}
            /\ listing'.disturbed = listing.disturbed
<1> DEFINE open == listing.state = "open"
           page == IF open /\ request # listing.request THEN InvalidInput
                   ELSE Page(store, request, size, listing.token)
           asked == Asked(store, request)
           begun == IF open THEN listing ELSE [NotListing EXCEPT !.request = request, !.stable = asked]
           state == IF page.outcome # "ok" THEN "failed" ELSE IF page.token = NoToken THEN "complete" ELSE "open"
           boundary == IF request.kind = "versions" THEN {}
                       ELSE {e \in Entries(store, request) : e.row = page.token.row}
<1>1. /\ listing.state \in {"idle", "open"} /\ UNCHANGED <<catalogVars, formatVars>>
      /\ listing' = [begun EXCEPT !.state = state, !.token = page.token, !.boundary = boundary,
                       !.returned = @ \o page.entries]
  BY DEF NextPage, Asked
<1>2. /\ HasParts(begun) /\ begun.request = (IF open THEN listing.request ELSE request)
      /\ begun.returned = listing.returned /\ begun.disturbed = listing.disturbed
      /\ begun.stable = IF open THEN listing.stable ELSE asked
  <2>1. CASE open
    BY <2>1
  <2>2. CASE ~open
    <3> DEFINE none == NotListing
    <3>1. HasParts(none)
      BY DEF HasParts, NotListing
    <3>2. listing = none
      BY <1>1, <2>2
    <3>3. begun = [none EXCEPT !.request = request, !.stable = asked]
      BY <2>2
    <3> HIDE DEF none, asked, begun
    <3>4. HasParts(begun) /\ begun.request = request /\ begun.stable = asked
          /\ begun.returned = none.returned /\ begun.disturbed = none.disturbed
      BY <3>1, <3>3 DEF HasParts
    <3> QED BY <2>2, <3>2, <3>4
  <2> QED BY <2>1, <2>2
<1> HIDE DEF begun, state, boundary, page
<1>3. /\ HasParts(listing') /\ listing'.request = begun.request /\ listing'.disturbed = begun.disturbed
      /\ listing'.stable = begun.stable /\ listing'.state = state /\ listing'.token = page.token
      /\ listing'.boundary = boundary /\ listing'.returned = begun.returned \o page.entries
  BY <1>1, <1>2 DEF HasParts
<1> QED BY <1>1, <1>2, <1>3 DEF page, state, boundary

\* b is the entry the last page ended with: what was returned is up to it, what is left beyond it.
EndsWith(s, r, list, token, stable, b) ==
  /\ b \in Entries(s, r) /\ b.row = token.row
  /\ \A i \in 1 .. Len(list) : list[i] = b \/ EntryLess(list[i], b)
  /\ \A e \in stable : e \in Asked(s, r) /\ (Among(e, list) \/ EntryLess(b, e))

Starts(s, r, list, token, stable) == token.row = NoRow /\ list = << >> /\ stable \subseteq Asked(s, r)

\* What is returned with a page: what is wanted, in order, and with the last page all that stayed
GoesOn(s, r, page, all, stable) ==
  /\ IsResult(all) /\ \A i \in 1 .. Len(all) : Wanted(r, all[i])
  /\ page.token = NoToken => \A e \in stable : Among(e, all)
  /\ page.token # NoToken => \E b :
       /\ {e \in Entries(s, r) : e.row = page.token.row} = {b}
       /\ EndsWith(s, r, all, page.token, stable, b)

LEMMA RowsPageAdds ==
  ASSUME NEW s, StoreGood(s), NamesAreText(s), NEW r, r.kind \in {"databases", "tables", "partitions"},
         r.segment.total \in {0} \cup Segments, ~SqlDiffers(r), NEW size \in Nat \ {0}, NEW token,
         Page(s, r, size, token).outcome = "ok",
         NEW list, IsResult(list), \A i \in 1 .. Len(list) : Wanted(r, list[i]), NEW stable,
         Starts(s, r, list, token, stable) \/ \E b : EndsWith(s, r, list, token, stable, b)
  PROVE  LET page == Page(s, r, size, token) IN GoesOn(s, r, page, list \o page.entries, stable)
<1> DEFINE page == Page(s, r, size, token)
           all == list \o page.entries
           entries == Entries(s, r)
           asked == Asked(s, r)
           after == After(asked, entries, token.row)
<1>1. IsPageOf(page, after)
  BY PageIsNext
<1>2. EntriesTyped(entries) /\ \A e \in entries : e.row # NoRow
  BY EntriesAreTyped
<1>3. after \subseteq asked /\ \A e : e \in asked <=> e \in entries /\ Wanted(r, e)
  BY DEF After, Asked
<1>4. \A e \in entries : IsEntry(e)
  BY <1>2 DEF EntriesTyped
<1>5. \A a, b \in entries : a.row = b.row => a = b
  BY <1>2 DEF EntriesTyped
<1> HIDE DEF page, entries, asked
<1>6. /\ \A i \in 1 .. Len(list) : \A e \in after : EntryLess(list[i], e)
      /\ \A e \in stable : e \in asked /\ (Among(e, list) \/ e \in after)
  <2>1. CASE Starts(s, r, list, token, stable)
    <3>1. list = << >> /\ token.row = NoRow /\ stable \subseteq asked
      BY <2>1 DEF Starts, asked
    <3>2. after = asked
      BY <3>1 DEF After
    <3> HIDE DEF after
    <3> QED BY <3>1, <3>2
  <2>2. ASSUME NEW b, EndsWith(s, r, list, token, stable, b)
        PROVE  /\ \A i \in 1 .. Len(list) : \A e \in after : EntryLess(list[i], e)
               /\ \A e \in stable : e \in asked /\ (Among(e, list) \/ e \in after)
    <3>1. /\ b \in entries /\ b.row = token.row
          /\ \A i \in 1 .. Len(list) : list[i] = b \/ EntryLess(list[i], b)
          /\ \A e \in stable : e \in asked /\ (Among(e, list) \/ EntryLess(b, e))
      BY <2>2 DEF EndsWith, entries, asked
    <3>2. \A e \in after : EntryLess(b, e)
      BY <1>2, <3>1 DEF After
    <3>3. \A e \in asked : EntryLess(b, e) => e \in after
      BY <1>5, <3>1 DEF After
    <3> HIDE DEF after
    <3>4. IsEntry(b) /\ \A e \in after : IsEntry(e)
      BY <1>3, <1>4, <3>1
    <3>5. \A i \in 1 .. Len(list) : IsEntry(list[i])
      BY DEF IsResult
    <3>6. ASSUME NEW i \in 1 .. Len(list), NEW e \in after PROVE EntryLess(list[i], e)
      <4>1. CASE list[i] = b
        BY <3>2, <4>1
      <4>2. CASE EntryLess(list[i], b)
        <5>1. IsEntry(list[i]) /\ EntryLess(b, e) /\ IsEntry(e)
          BY <3>2, <3>4, <3>5
        <5> QED BY <3>4, <4>2, <5>1, EntriesAreOrdered
      <4> QED BY <3>1, <4>1, <4>2
    <3> QED BY <3>1, <3>3, <3>6
  <2> QED BY <2>1, <2>2
<1> HIDE DEF after
<1>7. /\ \A e \in after : IsEntry(e)
      /\ \A e \in stable : Among(e, list) \/ e \in after
  BY <1>3, <1>4, <1>6
<1>8. /\ IsResult(all)
      /\ \A i \in 1 .. Len(all) : Among(all[i], list) \/ all[i] \in after
      /\ page.token = NoToken => \A e \in stable : Among(e, all)
      /\ page.token # NoToken => \E b \in after :
           /\ b.row = page.token.row
           /\ \A i \in 1 .. Len(all) : all[i] = b \/ EntryLess(all[i], b)
           /\ \A e \in stable : Among(e, all) \/ EntryLess(b, e)
  BY <1>1, <1>6, <1>7, PageAdds
<1> HIDE DEF all
<1>9. \A i \in 1 .. Len(all) : Wanted(r, all[i])
  BY <1>3, <1>8 DEF Among
<1>10. ASSUME page.token # NoToken
       PROVE  \E b : {e \in entries : e.row = page.token.row} = {b} /\ EndsWith(s, r, all, page.token, stable, b)
  <2>1. PICK b \in after :
           /\ b.row = page.token.row
           /\ \A i \in 1 .. Len(all) : all[i] = b \/ EntryLess(all[i], b)
           /\ \A e \in stable : Among(e, all) \/ EntryLess(b, e)
    BY <1>8, <1>10
  <2>2. b \in entries
    BY <1>3
  <2>3. {e \in entries : e.row = page.token.row} = {b}
    BY <1>5, <2>1, <2>2
  <2>4. EndsWith(s, r, all, page.token, stable, b)
    BY <1>6, <2>1, <2>2 DEF EndsWith, entries, asked
  <2> QED BY <2>3, <2>4
<1>11. GoesOn(s, r, page, all, stable)
  BY <1>8, <1>9, <1>10 DEF GoesOn, entries
<1> QED BY <1>11 DEF all, page

\* A listing goes on soundly with its next page.
LEMMA RowsGoOn ==
  ASSUME NEW listings, ListingGood(listing, store, listings), StoreGood(store), NamesAreText(store),
         NEW request \in listings, request.kind \in {"databases", "tables", "partitions"},
         request.segment.total \in {0} \cup Segments, NEW size \in Nat \ {0}, NextPage(request, size)
  PROVE  RowsFollow(listing', store)
<1> DEFINE open == listing.state = "open"
           page == IF open /\ request # listing.request THEN InvalidInput
                   ELSE Page(store, request, size, listing.token)
           list == listing.returned
           stable == IF open THEN listing.stable ELSE Asked(store, request)
           r == IF open THEN listing.request ELSE request
           rows == {e \in Entries(store, request) : e.row = page.token.row}
<1>1. HasParts(listing) /\ (listing.state = "idle" => listing = NotListing)
  BY DEF ListingGood
<1>2. /\ listing.state \in {"idle", "open"}
      /\ listing'.state = IF page.outcome # "ok" THEN "failed" ELSE IF page.token = NoToken THEN "complete" ELSE "open"
      /\ listing'.request = r /\ listing'.token = page.token /\ listing'.returned = list \o page.entries
      /\ listing'.stable = stable /\ listing'.boundary = rows /\ listing'.disturbed = listing.disturbed
  BY <1>1, NextPageParts
<1>0. SUFFICES ASSUME listing'.state \in {"open", "complete"}, ~listing'.disturbed, ~SqlDiffers(listing'.request)
               PROVE  RowsFollow(listing', store)
  BY DEF RowsFollow
<1>3. page.outcome = "ok"
  BY <1>0, <1>2
<1>4. r = request /\ page = Page(store, request, size, listing.token)
  <2>1. ~(open /\ request # listing.request)
    BY <1>3 DEF InvalidInput
  <2> QED BY <2>1
<1>5. ~SqlDiffers(request) /\ ~listing.disturbed
  BY <1>0, <1>2, <1>4
<1>6. /\ IsResult(list) /\ \A i \in 1 .. Len(list) : Wanted(request, list[i])
      /\ Starts(store, request, list, listing.token, stable)
         \/ \E b : EndsWith(store, request, list, listing.token, stable, b)
  <2>1. CASE open
    <3>1. listing.request = request /\ stable = listing.stable
      BY <1>4, <2>1
    <3>2. request.kind # "versions"
      OBVIOUS
    <3>3. /\ IsResult(list)
          /\ \A i \in 1 .. Len(list) : Wanted(listing.request, list[i])
          /\ \E b \in Entries(store, listing.request) :
               /\ listing.boundary = {b} /\ b.row = listing.token.row
               /\ \A i \in 1 .. Len(list) : list[i] = b \/ EntryLess(list[i], b)
               /\ \A e \in listing.stable :
                    e \in Asked(store, listing.request) /\ (Among(e, list) \/ EntryLess(b, e))
      BY <1>5, <2>1, <3>1, <3>2 DEF ListingGood, RowsFollow
    <3>4. \E b : EndsWith(store, request, list, listing.token, stable, b)
      BY <3>1, <3>3 DEF EndsWith
    <3> QED BY <3>1, <3>3, <3>4
  <2>2. CASE ~open
    <3>1. listing = NotListing
      BY <1>1, <1>2, <2>2
    <3>2. list = << >> /\ listing.token = NoToken /\ listing.token.row = NoRow
      BY <3>1 DEF NotListing, NoToken
    <3>3. stable = Asked(store, request)
      BY <2>2
    <3>4. IsResult(list) /\ Len(list) = 0
      <4> DEFINE none == << >>
      <4>1. IsList(none) /\ Len(none) = 0
        BY DEF IsList
      <4> HIDE DEF none
      <4>2. IsResult(none)
        BY <4>1 DEF IsResult, Ascending
      <4> QED BY <3>2, <4>1, <4>2 DEF none
    <3> HIDE DEF stable, list
    <3>5. Starts(store, request, list, listing.token, stable)
      BY <3>2, <3>3 DEF Starts
    <3> QED BY <3>4, <3>5
  <2> QED BY <2>1, <2>2
<1> DEFINE all == list \o page.entries
<1> HIDE DEF stable, page, list
<1>7. /\ IsResult(all) /\ \A i \in 1 .. Len(all) : Wanted(request, all[i])
      /\ page.token = NoToken => \A e \in stable : Among(e, all)
      /\ page.token # NoToken => \E b :
           rows = {b} /\ EndsWith(store, request, all, page.token, stable, b)
  <2>1. Page(store, request, size, listing.token).outcome = "ok"
    BY <1>3, <1>4
  <2>2. ASSUME NEW token, NEW kept, NEW its,
               IsResult(its), \A i \in 1 .. Len(its) : Wanted(request, its[i]), 
               Starts(store, request, its, token, kept) \/ \E b : EndsWith(store, request, its, token, kept, b),
               Page(store, request, size, token).outcome = "ok"
        PROVE  GoesOn(store, request, Page(store, request, size, token),
                      its \o Page(store, request, size, token).entries, kept)
    BY <1>5, <2>2, RowsPageAdds
  <2>3. GoesOn(store, request, page, all, stable)
    BY <1>4, <1>6, <2>1, <2>2
  <2> QED BY <2>3 DEF GoesOn
<1>8. /\ listing'.returned = all /\ listing'.request = request /\ listing'.stable = stable
      /\ listing'.token = page.token /\ listing'.boundary = rows
      /\ listing'.state = IF page.token = NoToken THEN "complete" ELSE "open"
  BY <1>2, <1>3, <1>4
<1> HIDE DEF all, rows
<1>9. CASE page.token = NoToken
  <2>1. listing'.state = "complete"
    BY <1>8, <1>9
  <2> QED BY <1>7, <1>8, <1>9, <2>1 DEF RowsFollow
<1>10. CASE page.token # NoToken
  <2>1. listing'.state = "open"
    BY <1>8, <1>10
  <2>2. PICK b : rows = {b} /\ EndsWith(store, request, all, page.token, stable, b)
    BY <1>7, <1>10
  <2>3. b \in Entries(store, request) /\ b.row = page.token.row
        /\ (\A i \in 1 .. Len(all) : all[i] = b \/ EntryLess(all[i], b))
        /\ \A e \in stable : e \in Asked(store, request) /\ (Among(e, all) \/ EntryLess(b, e))
    BY <2>2 DEF EndsWith
  <2> QED BY <1>7, <1>8, <2>1, <2>2, <2>3 DEF RowsFollow
<1> QED BY <1>9, <1>10

LEMMA VersionsGoOn ==
  ASSUME NEW listings, ListingGood(listing, store, listings), StoreGood(store),
         NEW request \in listings, request.kind = "versions", NEW size \in Nat \ {0}, NextPage(request, size)
  PROVE  VersionsFollow(listing', store)
<1> DEFINE open == listing.state = "open"
           page == IF open /\ request # listing.request THEN InvalidInput
                   ELSE Page(store, request, size, listing.token)
           list == listing.returned
           stable == IF open THEN listing.stable ELSE Asked(store, request)
           r == IF open THEN listing.request ELSE request
           values == VersionList(store, request)
           token == listing.token
<1>1. HasParts(listing) /\ (listing.state = "idle" => listing = NotListing)
  BY DEF ListingGood
<1>2. /\ listing.state \in {"idle", "open"}
      /\ listing'.state = IF page.outcome # "ok" THEN "failed" ELSE IF page.token = NoToken THEN "complete" ELSE "open"
      /\ listing'.request = r /\ listing'.token = page.token /\ listing'.returned = list \o page.entries
      /\ listing'.stable = stable
  BY <1>1, NextPageParts
<1>0. SUFFICES ASSUME listing'.state \in {"open", "complete"}, listing'.stable # {}
               PROVE  VersionsFollow(listing', store)
  BY DEF VersionsFollow
<1>3. page.outcome = "ok" /\ stable # {}
  BY <1>0, <1>2
<1>4. r = request /\ page = Page(store, request, size, token)
  <2>1. ~(open /\ request # listing.request)
    BY <1>3 DEF InvalidInput
  <2> QED BY <2>1
<1>5. page = OffsetPage(values, size, token)
  <2>1. page = VersionsPage(store, request, size, token)
    BY <1>4 DEF Page
  <2> QED BY <1>3, <2>1 DEF VersionsPage, NotFound
<1>6. /\ IsFront(list, values) /\ Continues(token, list)
      /\ Len(list) \in Nat /\ (open => Len(list) \in 0 .. Len(values) - 1) /\ (~open => Len(list) = 0)
      /\ \A e \in stable : Among(e, values)
  <2>1. \A e : e \in Entries(store, request) <=> Among(e, values)
    BY VersionsAreEntries
  <2>2. CASE open
    <3>1. listing.request = request /\ stable = listing.stable
      BY <1>4, <2>2
    <3>2. /\ stable \subseteq Entries(store, request) /\ IsFront(list, values)
          /\ Len(list) \in 0 .. Len(values) - 1 /\ Continues(token, list)
      BY <1>3, <2>2, <3>1 DEF ListingGood, VersionsFollow
    <3>3. Len(list) \in Nat
      BY <3>2 DEF IsFront, IsList
    <3> QED BY <2>1, <2>2, <3>2, <3>3
  <2>3. CASE ~open
    <3> DEFINE none == << >>
    <3>1. listing = NotListing
      BY <1>1, <1>2, <2>3
    <3>2. list = none /\ token = NoToken
      BY <3>1 DEF NotListing
    <3>3. stable \subseteq Entries(store, request)
      BY <2>3 DEF Asked
    <3>4. IsFront(none, values) /\ Len(none) = 0 /\ Continues(NoToken, none)
      BY DEF IsFront, IsList, Continues, NoToken
    <3> HIDE DEF none, stable, list, token, values
    <3> QED BY <2>1, <2>3, <3>2, <3>3, <3>4
  <2> QED BY <2>2, <2>3
<1>7. PICK t : IsListed(store, request, t)
  <2>1. values # << >>
    BY <1>3, <1>6 DEF Among
  <2> QED BY <2>1, TableIsListed
<1>8. /\ IsList(values) /\ Len(values) \in Nat \ {0}
      /\ \A i, j \in 1 .. Len(values) : values[i] = values[j] => i = j
  <2>1. /\ IsList(values) /\ Len(store.tables[t].archive) \in Nat /\ Len(values) = Len(store.tables[t].archive) + 1
        /\ \A i, j \in 1 .. Len(values) : values[i] = values[j] => i = j
    BY <1>7, VersionsAreListed
  <2> QED BY <2>1
<1>9. Len(list) \in 0 .. Len(values) - 1
  BY <1>6, <1>8
<1> DEFINE all == list \o page.entries
<1> HIDE DEF values, page, list, token, stable, open
<1>10. /\ IsFront(all, values)
       /\ page.token = NoToken => Len(all) = Len(values)
       /\ page.token # NoToken => Continues(page.token, all) /\ Len(all) \in 0 .. Len(values) - 1
  BY <1>5, <1>6, <1>8, <1>9, VersionsPageIsNext
<1>11. /\ listing'.returned = all /\ listing'.request = request /\ listing'.stable = stable
       /\ listing'.token = page.token
       /\ listing'.state = IF page.token = NoToken THEN "complete" ELSE "open"
  BY <1>2, <1>3, <1>4
<1> HIDE DEF all
<1>12. CASE page.token = NoToken
  <2>1. listing'.state = "complete"
    BY <1>11, <1>12
  <2>2. IsList(all) /\ Len(all) = Len(values) /\ \A i \in 1 .. Len(all) : all[i] = values[i]
    BY <1>10, <1>12 DEF IsFront
  <2>3. \A e \in stable : Among(e, all)
    BY <1>6, <2>2 DEF Among
  <2>4. \A i, j \in 1 .. Len(all) : all[i] = all[j] => i = j
    BY <1>8, <2>2
  <2> QED BY <1>11, <2>1, <2>2, <2>3, <2>4 DEF VersionsFollow
<1>13. CASE page.token # NoToken
  <2>1. listing'.state = "open"
    BY <1>11, <1>13
  <2>2. stable \subseteq Entries(store, request)
    BY <1>6, VersionsAreEntries DEF values
  <2> QED BY <1>10, <1>11, <1>13, <2>1, <2>2 DEF VersionsFollow, values
<1> QED BY <1>12, <1>13

\* A listing goes on soundly with its next page.
LEMMA NextPageKeepsListing ==
  ASSUME NEW listings, ListingGood(listing, store, listings), StoreGood(store), NamesAreText(store),
         NEW request \in listings, request.kind \in {"databases", "tables", "partitions", "versions"},
         request.segment.total \in {0} \cup Segments, NEW size \in Nat \ {0}, NextPage(request, size)
  PROVE  ListingGood(listing', store, listings) /\ UNCHANGED <<catalogVars, formatVars>>
<1> DEFINE open == listing.state = "open"
           page == IF open /\ request # listing.request THEN InvalidInput
                   ELSE Page(store, request, size, listing.token)
           state == IF page.outcome # "ok" THEN "failed" ELSE IF page.token = NoToken THEN "complete" ELSE "open"
           r == IF open THEN listing.request ELSE request
<1>1. HasParts(listing) /\ (listing.state = "idle" => listing = NotListing)
  BY DEF ListingGood
<1>2. /\ UNCHANGED <<catalogVars, formatVars>> /\ HasParts(listing')
      /\ listing'.state = state /\ listing'.request = r
  BY <1>1, NextPageParts
<1>3. open => listing.request \in listings
  BY DEF ListingGood
<1>4. page.outcome = "ok" => r = request
  BY DEF InvalidInput
<1> HIDE DEF page
<1>5. state \in {"failed", "complete", "open"} /\ r \in listings
  BY <1>3
<1>6. RowsFollow(listing', store) /\ VersionsFollow(listing', store)
  <2>1. CASE page.outcome # "ok"
    <3>1. listing'.state = "failed"
      BY <1>2, <2>1
    <3> QED BY <3>1 DEF RowsFollow, VersionsFollow
  <2>2. CASE page.outcome = "ok" /\ request.kind = "versions"
    <3>1. listing'.request.kind = "versions"
      BY <1>2, <1>4, <2>2
    <3>2. VersionsFollow(listing', store)
      BY <2>2, VersionsGoOn
    <3> QED BY <3>1, <3>2 DEF RowsFollow
  <2>3. CASE page.outcome = "ok" /\ request.kind # "versions"
    <3>1. listing'.request.kind # "versions"
      BY <1>2, <1>4, <2>3
    <3>2. request.kind \in {"databases", "tables", "partitions"}
      BY <2>3
    <3>3. RowsFollow(listing', store)
      BY <3>2, RowsGoOn
    <3> QED BY <3>1, <3>3 DEF VersionsFollow
  <2> QED BY <2>1, <2>2, <2>3
<1> HIDE DEF state, r
<1> QED BY <1>2, <1>5, <1>6 DEF ListingGood

\* What is there once
LEMMA FoundOnce ==
  ASSUME NEW list, IsList(list), NEW e, Among(e, list),
         \A i, j \in 1 .. Len(list) : list[i] = list[j] => i = j
  PROVE  Cardinality({i \in DOMAIN list : list[i] = e}) = 1
<1>1. DOMAIN list = 1 .. Len(list)
  BY DEF IsList
<1>2. PICK i \in 1 .. Len(list) : list[i] = e
  BY DEF Among
<1>3. {n \in DOMAIN list : list[n] = e} = {i}
  BY <1>1, <1>2
<1> QED BY <1>3, FS_Singleton

LEMMA GoodIsComplete ==
  ASSUME NEW listings, ListingGood(listing, store, listings)
  PROVE  PagesAreComplete
<1> DEFINE r == listing.request
           list == listing.returned
<1> SUFFICES ASSUME listing.state = "complete", ~listing.disturbed, ~SqlDiffers(r)
             PROVE  /\ \A e \in listing.stable : Cardinality({i \in DOMAIN list : list[i] = e}) = 1
                    /\ \A i \in DOMAIN list : Wanted(r, list[i])
  BY DEF PagesAreComplete
<1>1. CASE r.kind # "versions"
  <2>1. /\ IsResult(list) /\ \A i \in 1 .. Len(list) : Wanted(r, list[i])
        /\ \A e \in listing.stable : Among(e, list)
    BY <1>1 DEF ListingGood, RowsFollow
  <2> HIDE DEF list
  <2>2. IsList(list) /\ DOMAIN list = 1 .. Len(list) /\ Len(list) \in Nat
    BY <2>1 DEF IsResult, IsList
  <2>3. \A i, j \in 1 .. Len(list) : list[i] = list[j] => i = j
    <3> TAKE i, j \in 1 .. Len(list)
    <3>1. IsEntry(list[i]) /\ IsEntry(list[j]) /\ (i < j => EntryLess(list[i], list[j]))
          /\ (j < i => EntryLess(list[j], list[i]))
      BY <2>1 DEF IsResult, Ascending
    <3>2. ~EntryLess(list[i], list[i])
      BY <3>1, EntriesAreOrdered
    <3>3. i \in Int /\ j \in Int
      OBVIOUS
    <3> QED BY <3>1, <3>2, <3>3
  <2> QED BY <2>1, <2>2, <2>3, FoundOnce
<1>2. CASE r.kind = "versions"
  <2>1. \A i \in DOMAIN list : Wanted(r, list[i])
    BY <1>2 DEF Wanted
  <2>2. listing.stable # {} =>
          /\ IsList(list) /\ \A e \in listing.stable : Among(e, list)
          /\ \A i, j \in 1 .. Len(list) : list[i] = list[j] => i = j
    BY <1>2 DEF ListingGood, VersionsFollow
  <2> HIDE DEF list
  <2>3. \A e \in listing.stable : Cardinality({i \in DOMAIN list : list[i] = e}) = 1
    BY <2>2, FoundOnce
  <2> QED BY <2>1, <2>3
<1> QED BY <1>1, <1>2

\* The client starts with no listing.
LEMMA NoListingIsGood ==
  ASSUME NEW listings, listing = NotListing
  PROVE  ListingGood(listing, store, listings)
<1>1. HasParts(listing) /\ listing.state = "idle"
  BY DEF NotListing, HasParts
<1> QED BY <1>1 DEF ListingGood, RowsFollow, VersionsFollow

ListingInOrder == NamesAreText(store) /\ ListingGood(listing, store, Scenario.listings)

\* The inductive invariant of listings: what has been returned is wanted, in order and up to the row
\* the last page ended with, and every row that has stayed is returned already or still beyond it;
\* of versions, the first so many, as long as their table is there.
THEOREM PagesStayInOrder == PagesSpec => [](CatalogInOrder /\ PublicationInOrder /\ ListingInOrder)
<1>1. PagesInit => CatalogInOrder /\ PublicationInOrder /\ ListingInOrder
  <2> SUFFICES ASSUME PagesInit PROVE CatalogInOrder /\ PublicationInOrder /\ ListingInOrder
    OBVIOUS
  <2>1. FormatInit /\ listing = NotListing
    BY DEF PagesInit
  <2>2. CatalogInOrder /\ PublicationInOrder
    BY <2>1, InitIsInOrder, InitIsGood
  <2>3. NamesAreText(store)
    <3> DEFINE session == CatalogSessions[catalogSession]
               ops == session.setup
    <3>1. catalogSession \in DOMAIN CatalogSessions /\ store = StoresAfter(ops)[Len(ops)]
      BY <2>1 DEF FormatInit, CatalogInit, Scenario
    <3>2. Len(ops) \in Nat /\ \A i \in 1 .. Len(ops) :
            IsCommand(ops[i]) /\ Refusal(StoresAfter(ops)[i - 1], ops[i]) = "ok"
      BY <3>1, CatalogAssumption
    <3> HIDE DEF ops
    <3> QED BY <3>1, <3>2, SetupIsText
  <2> QED BY <2>1, <2>2, <2>3, NoListingIsGood DEF ListingInOrder
<1>2. CatalogInOrder /\ PublicationInOrder /\ ListingInOrder /\ [PagesNext]_pagesVars
      => (CatalogInOrder /\ PublicationInOrder /\ ListingInOrder)'
  <2> SUFFICES ASSUME CatalogInOrder, PublicationInOrder, ListingInOrder, [PagesNext]_pagesVars
               PROVE  CatalogInOrder' /\ PublicationInOrder' /\ ListingInOrder'
    OBVIOUS
  <2>1. StoreGood(store) /\ NamesAreText(store) /\ ListingGood(listing, store, Scenario.listings)
    BY DEF CatalogInOrder, ListingInOrder
  <2>2. CASE FormatNext /\ Watch
    <3>1. CatalogInOrder' /\ PublicationInOrder'
      BY <2>2, NextKeepsOrder, NextIsGood
    <3>2. catalogSession' = catalogSession /\ NamesAreText(store') /\ ArchivesStay(store, store')
      BY <2>1, <2>2, CatalogMoves
    <3>3. StoreGood(store')
      BY <3>1 DEF CatalogInOrder
    <3>4. ListingGood(listing', store', Scenario.listings)
      BY <2>1, <2>2, <3>2, <3>3, WatchKeepsListing
    <3> QED BY <3>1, <3>2, <3>4 DEF ListingInOrder, Scenario
  <2>3. ASSUME NEW request \in Scenario.listings, NEW size \in PageSizes, NextPage(request, size)
        PROVE  CatalogInOrder' /\ PublicationInOrder' /\ ListingInOrder'
    <3>1. /\ request.kind \in {"databases", "tables", "partitions", "versions"}
          /\ request.segment.total \in {0} \cup Segments /\ size \in Nat \ {0}
      BY PagesAssumption DEF CatalogInOrder, Scenario
    <3>2. ListingGood(listing', store, Scenario.listings) /\ UNCHANGED <<catalogVars, formatVars>>
      BY <2>1, <2>3, <3>1, NextPageKeepsListing
    <3>3. CatalogInOrder' /\ PublicationInOrder'
      BY <3>2, NextKeepsOrder, NextIsGood
    <3>4. store' = store /\ catalogSession' = catalogSession
      BY <3>2 DEF catalogVars
    <3> QED BY <2>1, <3>2, <3>3, <3>4 DEF ListingInOrder, Scenario
  <2>4. CASE UNCHANGED pagesVars
    <3>1. UNCHANGED <<catalogVars, formatVars>> /\ listing' = listing
      BY <2>4 DEF pagesVars
    <3>2. CatalogInOrder' /\ PublicationInOrder'
      BY <3>1, NextKeepsOrder, NextIsGood
    <3>3. store' = store /\ catalogSession' = catalogSession
      BY <3>1 DEF catalogVars
    <3> QED BY <2>1, <3>1, <3>2, <3>3 DEF ListingInOrder, Scenario
  <2> QED BY <2>2, <2>3, <2>4 DEF PagesNext
<1> QED BY <1>1, <1>2, PTL DEF PagesSpec

\* Whatever other requests insert, rename, re-key or delete between the pages, a listing that runs
\* to its last page has returned, exactly once each, every row that was there all the time and that
\* the request asks for, and nothing it does not ask for; but for a listing whose last row of a
\* page was moved or deleted meanwhile, and a filter with a range that has one NULL bound.
THEOREM PagesAreAlwaysComplete == PagesSpec => []PagesAreComplete
<1>1. ListingInOrder => PagesAreComplete
  BY GoodIsComplete DEF ListingInOrder
<1> QED BY <1>1, PagesStayInOrder, PTL
==============================================================================
