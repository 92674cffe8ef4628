------------------------------ MODULE Captures ------------------------------
(***************************************************************************)
(* What PutSaveVersion promises the engine about one member of one sync:    *)
(* its captured contents, oldest first.  Engine uses this; SaveVersions     *)
(* shows that the store's tables keep it.                                   *)
(***************************************************************************)
EXTENDS Naturals, Sequences

CONSTANT Retain   \* SaveVersionRetention: captures kept per member

ASSUME RetainAssumption == Retain \in Nat \ {0}

(* No more than the newest Retain contents are kept. *)
Newest(s) == IF Len(s) > Retain THEN SubSeq(s, Len(s) - Retain + 1, Len(s)) ELSE s

(* A content equal to the newest capture is not stored again. *)
Captured(s, c) ==
  IF s # <<>> /\ s[Len(s)] = c THEN s ELSE Newest(Append(s, c))
=============================================================================
