------------------------------- MODULE MCHost -------------------------------
(***************************************************************************)
(* Small machines: two syncs that share a directory, two levels deep for    *)
(* one of them.                                                             *)
(***************************************************************************)
EXTENDS Host, TLC

CONSTANTS d, e, f1, f2

MCDirs == {d, e}

MCParent == (d :> Root) @@ (e :> d) @@ (f1 :> e) @@ (f2 :> d)

Scenario(holds, faults, hangs, saves, losses, scans, commands) ==
  [holds |-> holds,
   budget |-> [faults |-> faults, hangs |-> hangs, saves |-> saves,
               losses |-> losses, scans |-> scans, commands |-> commands]]

(* A save that no entry knows: a conflict at the first poll, and a request. *)
Unknown == {d, e, f1}

(* Failures with a loss of power; a hang; a walk; a command.  Each trouble comes
   with those it can meet: this bounds the states, not the program. *)
MCScenarios ==
  {Scenario({}, 1, 0, 1, 1, 0, 0), Scenario(Unknown, 0, 1, 0, 0, 0, 0),
   Scenario(Unknown, 0, 0, 0, 0, 1, 0), Scenario({}, 0, 0, 0, 0, 0, 1)}

MCPath == (1 :> f1) @@ (2 :> f2)
=============================================================================
