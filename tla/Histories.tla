----------------------------- MODULE Histories ------------------------------
(***************************************************************************)
(* What the version store promises: a history for every member of every     *)
(* sync, as though each had a store of its own.  Engine counts on this;     *)
(* SaveVersions keeps it in tables that all of them share.                   *)
(***************************************************************************)
EXTENDS Captures

CONSTANTS SyncIds, NodeIds, Contents

VARIABLE history   \* per sync and node: captured contents, oldest first

(* PutSaveVersion for one member. *)
Capture(s, n, c) ==
  history' = [history EXCEPT ![<<s, n>>] = Captured(@, c)]

(* A sync or a node goes: an id created again starts with no history. *)
Forget(S, N) ==
  history' = [m \in SyncIds \X NodeIds |->
                IF m[1] \in S \/ m[2] \in N THEN <<>> ELSE history[m]]

Init == history = [m \in SyncIds \X NodeIds |-> <<>>]

Next ==
  \/ \E s \in SyncIds, n \in NodeIds, c \in Contents : Capture(s, n, c)
  \/ \E s \in SyncIds : Forget({s}, {})
  \/ \E n \in NodeIds : Forget({}, {n})

Spec == Init /\ [][Next]_history
=============================================================================
