----------------------------- MODULE MCAccounts -----------------------------
(***************************************************************************)
(* The users table, its requests and its sessions on small instances.       *)
(***************************************************************************)
EXTENDS Accounts, TLC

(* Requests, tokens and passwords are each interchangeable. *)
Symmetry ==
  Permutations(Requests) \cup Permutations(Tokens) \cup Permutations(Passwords)

(* A household that runs already: the first user is its administrator. *)
BootedInit ==
  /\ lock = [u \in Users |-> None]
  /\ sessions = [t \in Tokens |-> None]
  /\ req = [r \in Requests |-> None]
  /\ \E p \in Passwords :
       users = [u \in Users |-> [role |-> IF u = 1 THEN "admin" ELSE "user", pw |-> p]]

BootedSpec == BootedInit /\ [][Next]_vars
=============================================================================
