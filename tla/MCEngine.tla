------------------------------ MODULE MCEngine ------------------------------
(***************************************************************************)
(* The engine on small instances.  Saves of a game have one size, which is  *)
(* the case the stat gate is weakest in.                                    *)
(***************************************************************************)
EXTENDS EngineInv, TLC

MCSameSize == [c \in Contents |-> 1]

(* Contents are interchangeable. *)
Symmetry == Permutations(Contents)
=============================================================================
