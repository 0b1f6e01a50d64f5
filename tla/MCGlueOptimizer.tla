-------------------------- MODULE MCGlueOptimizer --------------------------
(***************************************************************************)
(* Instances of GlueOptimizer for TLC.  Run identifiers are                *)
(* interchangeable; table names are not, their order decides what is       *)
(* claimed first.                                                          *)
(***************************************************************************)
EXTENDS GlueOptimizer, TLC

Symmetry == Permutations(RunIds)

\* The clients change nothing any more from some moment on.
QuietSpec == FairSpec /\ <>[][\A n \in Names : ~Command(n)]_vars
=============================================================================
