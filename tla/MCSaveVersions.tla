--------------------------- MODULE MCSaveVersions ---------------------------
(***************************************************************************)
(* The version store for two syncs that share a node and contents.          *)
(***************************************************************************)
EXTENDS SaveVersions, TLC

(* Syncs, nodes and contents are each interchangeable. *)
Symmetry ==
  Permutations(SyncIds) \cup Permutations(NodeIds) \cup Permutations(Contents)
=============================================================================
