---------------------------- MODULE MCEmrCluster ----------------------------
(***************************************************************************)
(* Instances of EmrCluster for TLC.  Tasks and requests are interchangeable *)
(* and so are the clusters: no definition singles one out.                 *)
(***************************************************************************)
EXTENDS EmrCluster, TLC

Symmetry == Permutations(Tasks) \cup Permutations(Requests) \cup Permutations(Clusters)
=============================================================================
