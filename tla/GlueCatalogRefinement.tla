------------------------ MODULE GlueCatalogRefinement ------------------------
(***************************************************************************)
(* GlueCatalog, with the publications of GlueOpenTableFormat, implements   *)
(* the catalog a client sees (GlueSerialCatalog).                          *)
(***************************************************************************)
EXTENDS GlueOpenTableFormat

Result(s, op) == Committed(Effect(s, op))

\* A publication asks the catalog once its candidate is written; a batch asks item by item.
RequestOf(c) ==
  [command |-> IF work[c].pc \in {"begin", "commit", "ended"} THEN {Op(c)} ELSE {},
   told |-> IF At(c, "ended") THEN work[c].outcome ELSE "none"]

Serial == INSTANCE GlueSerialCatalog
  WITH catalog <- store, request <- [c \in Clients |-> RequestOf(c)], Answer <- Refusal, After <- Result

\* However requests, their retries, failing commits, cancellations and publications interleave,
\* each command takes effect as a whole on the catalog as it is then, at most once, and what the
\* client is told is what happened (repository.py, transaction).
CatalogIsSerial == Serial!Spec
=============================================================================
