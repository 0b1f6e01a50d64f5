------------------------ MODULE GluePartitionValues ------------------------
(***************************************************************************)
(* The values of a partition.  A raw value is an opaque string; Decoded    *)
(* gives the position of its typed value in the order of the type, as the  *)
(* value codec of the application and the collations of the SQLite adapter *)
(* do.  The adapter writes a projection of every value beside the          *)
(* partition.                                                              *)
(***************************************************************************)
EXTENDS Integers, Sequences, FiniteSets

CONSTANTS
  Decoded,     \* for every supported type: its values in order, for the raw values it accepts
  Null         \* the literal NULL

\* A value has a place in the order of its type; NULL is a literal and no value.
ASSUME ValueAssumption ==
  /\ Null \notin Int /\ Null \notin DOMAIN Decoded["string"]
  /\ \A type \in DOMAIN Decoded : \A raw \in DOMAIN Decoded[type] : Decoded[type][raw] \in Int

Supported(type) == type \in DOMAIN Decoded
Valid(raw, type) == raw = Null \/ raw \in DOMAIN Decoded[type]
Value(raw, type) == IF raw = Null THEN Null ELSE Decoded[type][raw]

(* PartitionValueProjector *)

NoFact == [family |-> "none", valid |-> FALSE, value |-> Null, raw |-> Null]

\* `raw` stands for the string_value column, which LIKE reads.
Project(raw, type) ==
  IF ~Supported(type) \/ ~Valid(raw, type) THEN [NoFact EXCEPT !.family = type]
  ELSE [family |-> type, valid |-> TRUE, value |-> Value(raw, type), raw |-> raw]
=============================================================================
