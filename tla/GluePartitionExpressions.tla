---------------------- MODULE GluePartitionExpressions ----------------------
(***************************************************************************)
(* The partition expressions of GetPartitions, in both of the forms the    *)
(* service gives them: the evaluator of the application, which reads the   *)
(* raw strings of a partition through the types of the table's keys, and   *)
(* the predicate the SQLite adapter compiles, which reads the typed facts  *)
(* that were written beside the partition.                                 *)
(*                                                                         *)
(* An expression is the tree the parser builds, as the sequence of its     *)
(* nodes: children before their parents, the root last.  A node names its  *)
(* children by their places.                                               *)
(***************************************************************************)
EXTENDS GluePartitionValues

CONSTANT Likes       \* for every LIKE pattern: the raw values it matches

Logical(n) == n.node \in {"and", "or"}
IsPredicate(n) == n.node \in {"compare", "in", "between", "like", "isNull"}

IsExpression(e) ==
  /\ Len(e) \in Nat \ {0} /\ DOMAIN e = 1 .. Len(e)
  /\ \A i \in DOMAIN e :
       \/ Logical(e[i]) /\ {e[i].left, e[i].right} \subseteq 1 .. i - 1
       \/ e[i].node = "not" /\ e[i].operand \in 1 .. i - 1
       \/ IsPredicate(e[i])

\* the predicates at the leaves of an expression
Leaves(e) == {i \in DOMAIN e : IsPredicate(e[i])}
Predicates(e) == {e[i] : i \in Leaves(e)}

Fields(e) == {p.field : p \in Predicates(e)}

\* `keys` is the sequence of the table's partition keys, each a name and a type.
KeyNames(keys) == {keys[i].name : i \in DOMAIN keys}
Ordinal(keys, field) == CHOOSE i \in DOMAIN keys : keys[i].name = field
TypeOf(keys, field) == keys[Ordinal(keys, field)].type

\* PartitionExpressionEvaluator.validate: what `bind` refuses
Binds(e, keys) ==
  /\ Cardinality(KeyNames(keys)) = Len(keys)
  /\ \A f \in Fields(e) : f \in KeyNames(keys) /\ Supported(TypeOf(keys, f))

Literals(p) ==
  CASE p.node \in {"compare", "like"} -> {p.value}
    [] p.node = "in" -> p.values
    [] p.node = "between" -> {p.lower, p.upper}
    [] p.node = "isNull" -> {}

\* PartitionRow.create: every key has a value
Paired(keys, values) == DOMAIN keys = DOMAIN values

\* The evaluator visits every leaf, so one value or literal that does not convert, or one LIKE
\* on a key that is not a string, fails the whole expression.
Raises(e, keys, values) ==
  \/ ~Paired(keys, values)
  \/ \E p \in Predicates(e) :
       LET type == TypeOf(keys, p.field)
       IN \/ \E raw \in Literals(p) \cup {values[Ordinal(keys, p.field)]} : ~Valid(raw, type)
          \/ p.node = "like" /\ type # "string"
-----------------------------------------------------------------------------
(* Three-valued logic: "T", "F" and "U" *)

Truth(b) == IF b THEN "T" ELSE "F"
Not(a) == CASE a = "T" -> "F" [] a = "F" -> "T" [] a = "U" -> "U"
And(a, b) == IF "F" \in {a, b} THEN "F" ELSE IF {a, b} = {"T"} THEN "T" ELSE "U"
Or(a, b) == Not(And(Not(a), Not(b)))
Negated(p, a) == IF p.negated THEN Not(a) ELSE a

Holds(op, a, b) ==
  CASE op = "=" -> a = b
    [] op = "!=" -> a # b
    [] op = "<" -> a < b
    [] op = "<=" -> a <= b
    [] op = ">" -> a > b
    [] op = ">=" -> a >= b
-----------------------------------------------------------------------------
(* PartitionExpressionEvaluator._evaluate *)

EvaluatePredicate(p, raw, type) ==
  LET actual == Value(raw, type)
      expected(literal) == Value(literal, type)
  IN CASE p.node = "isNull" -> Negated(p, Truth(actual = Null))
       [] actual = Null -> "U"
       [] p.node = "compare" ->
            IF p.value = Null THEN "U" ELSE Truth(Holds(p.op, actual, expected(p.value)))
       [] p.node = "in" ->
            Negated(p, IF \E v \in p.values \ {Null} : expected(v) = actual THEN "T"
                       ELSE IF Null \in p.values THEN "U" ELSE "F")
       [] p.node = "between" ->
            IF Null \in {p.lower, p.upper} THEN "U"
            ELSE Negated(p, Truth(expected(p.lower) <= actual /\ actual <= expected(p.upper)))
       [] p.node = "like" ->
            IF p.value = Null THEN "U" ELSE Negated(p, Truth(raw \in Likes[p.value]))

\* The truth of an expression, from that of its predicates
Outcome(e, of) ==
  LET truth[i \in DOMAIN e] ==
        CASE e[i].node = "and" -> And(truth[e[i].left], truth[e[i].right])
          [] e[i].node = "or" -> Or(truth[e[i].left], truth[e[i].right])
          [] e[i].node = "not" -> Not(truth[e[i].operand])
          [] OTHER -> of[i]
  IN truth[Len(e)]

Evaluate(e, keys, values) ==
  LET result(p) == EvaluatePredicate(p, values[Ordinal(keys, p.field)], TypeOf(keys, p.field))
  IN Outcome(e, [i \in Leaves(e) |-> result(e[i])])
-----------------------------------------------------------------------------
(* The compiled predicate (SqlitePartitionQueryCompiler), over the facts of a row *)

\* SQLite compares with NULL to NULL; the conversion guard of every comparison is two-valued.
SqlCompare(fact, family, op, literal) ==
  And(Truth(fact.valid /\ fact.family = family),
      IF literal = Null \/ fact.value = Null THEN "U"
      ELSE Truth(Holds(op, fact.value, Decoded[family][literal])))

SqlPredicate(p, fact, family) ==
  CASE p.node = "isNull" -> Negated(p, Truth(fact.value = Null))
    [] p.node = "compare" -> SqlCompare(fact, family, p.op, p.value)
    [] p.node = "in" ->
         LET members == {SqlCompare(fact, family, "=", v) : v \in p.values}
         IN Negated(p, IF "T" \in members THEN "T" ELSE IF "U" \in members THEN "U" ELSE "F")
    [] p.node = "between" ->
         Negated(p, And(SqlCompare(fact, family, ">=", p.lower),
                        SqlCompare(fact, family, "<=", p.upper)))
    [] p.node = "like" ->
         Negated(p, And(Truth(fact.valid /\ fact.family = family),
                        IF p.value = Null THEN "U" ELSE Truth(fact.raw \in Likes[p.value])))

\* _CompilationState.expression, for a row whose facts the joins have found; the connectives of
\* SQLite are those of the evaluator.
Sql(e, keys, facts) ==
  LET result(p) == SqlPredicate(p, facts[Ordinal(keys, p.field)], TypeOf(keys, p.field))
  IN Outcome(e, [i \in Leaves(e) |-> result(e[i])])

\* A row is joined to the facts of every key the expression names, or left out.
SqlSelects(e, keys, facts) ==
  /\ \A f \in Fields(e) : Ordinal(keys, f) \in DOMAIN facts
  /\ Sql(e, keys, facts) = "T"
=============================================================================
