----------------------------- MODULE MCRegistry -----------------------------
(***************************************************************************)
(* The registry and the engine's passes on small instances.                 *)
(***************************************************************************)
EXTENDS Registry, TLC

(* Syncs, nodes, paths and roots are each interchangeable. *)
Symmetry ==
  Permutations(SyncIds) \cup Permutations(NodeIds) \cup Permutations(Paths)
    \cup Permutations(Roots)
=============================================================================
