---------------------------- MODULE SaveVersions ----------------------------
(***************************************************************************)
(* The recovery net: the tables save_versions and save_blobs, shared by all *)
(* syncs (internal/store/memory/memory.go; postgres.go runs the same        *)
(* statements in one transaction).  Every operation is atomic, under the    *)
(* memory store's mutex.                                                    *)
(*                                                                          *)
(* A row's order is its seq.  Blobs are content-addressed: a content stands *)
(* for its own hash.  A user reads a member's history (ListSaveVersions)    *)
(* and comes back later, with the seq shown then, to restore it.            *)
(***************************************************************************)
EXTENDS Captures, FiniteSets

CONSTANTS
  SyncIds, NodeIds,   \* ids (slugs): one deleted may be created again
  Contents,
  None,               \* no row
  MaxSeq              \* bound: rows ever inserted

ASSUME MaxSeqAssumption == MaxSeq \in Nat

Row == [seq: Nat, sync: SyncIds, node: NodeIds, hash: Contents]

ASSUME NoRowAssumption == None \notin Row

VARIABLES
  syncs, nodes,   \* the ids that exist
  rows,           \* save_versions
  blobs,          \* the hashes save_blobs holds bytes of
  nextSeq,        \* the next seq
  shown,          \* the row a user saw listed and may ask to restore, or None
  loaded          \* what GetSaveVersionData answered that request, or None

vars == <<syncs, nodes, rows, blobs, nextSeq, shown, loaded>>

Of(R, s, n) == {v \in R : v.sync = s /\ v.node = n}

Hashes(R) == {v.hash : v \in R}

(* The member's most recent row already has this hash. *)
Duplicate(s, n, h) ==
  \E v \in Of(rows, s, n) : v.hash = h /\ \A w \in Of(rows, s, n) : w.seq <= v.seq

(* Faulty: the newest rows of the node are kept, whatever their sync. *)
PruneByNode(R, s, n) ==
  {v \in R : v.node = n
               => Cardinality({w \in R : w.node = n /\ w.seq > v.seq}) < Retain}

(* pruneVersionsLocked: of the member's rows, the newest Retain stay. *)
Prune(R, s, n) ==
  {v \in R : v \in Of(R, s, n)
               => Cardinality({w \in Of(R, s, n) : w.seq > v.seq}) < Retain}

(* Faulty: the rows that go leave their blobs behind. *)
KeepWithoutGC(R, h) == rows' = R /\ blobs' = blobs \cup h

(* gcBlobsLocked, the last step of every operation that removes rows: h are
   the blobs just upserted. *)
Keep(R, h) == rows' = R /\ blobs' = (blobs \cup h) \cap Hashes(R)

(* Faulty: the next seq is one past the highest row there is. *)
SeqFromRows == IF rows = {} THEN 0 ELSE 1 + CHOOSE q \in {v.seq : v \in rows} :
                                             \A v \in rows : v.seq <= q

(* The bigserial: rows that went do not give their seq back. *)
AssignedSeq == nextSeq

-----------------------------------------------------------------------------
CreateSync(s) ==
  /\ s \notin syncs
  /\ syncs' = syncs \cup {s}
  /\ UNCHANGED <<nodes, rows, blobs, nextSeq, shown, loaded>>

CreateNode(n) ==
  /\ n \notin nodes
  /\ nodes' = nodes \cup {n}
  /\ UNCHANGED <<syncs, rows, blobs, nextSeq, shown, loaded>>

(* A capture by the engine; refused when the sync or the node has gone. *)
Put(s, n) == s \in syncs /\ n \in nodes

(* Identical to the last one: no churn. *)
PutDuplicate(s, n, h) ==
  /\ Put(s, n)
  /\ Duplicate(s, n, h)
  /\ UNCHANGED <<syncs, nodes, rows, blobs, nextSeq, shown, loaded>>

PutSaveVersion(s, n, h) ==
  /\ Put(s, n)
  /\ ~Duplicate(s, n, h)
  /\ nextSeq < MaxSeq
  /\ LET row == [seq |-> AssignedSeq, sync |-> s, node |-> n, hash |-> h]
     IN  Keep(Prune(rows \cup {row}, s, n), {h})
  /\ nextSeq' = nextSeq + 1
  /\ UNCHANGED <<syncs, nodes, shown, loaded>>

(* Faulty: the versions of the sync stay. *)
DeleteSyncOnly(s) ==
  /\ s \in syncs
  /\ syncs' = syncs \ {s}
  /\ UNCHANGED <<nodes, rows, blobs, nextSeq, shown, loaded>>

(* DeleteSync and its cascade. *)
DeleteSync(s) ==
  /\ s \in syncs
  /\ syncs' = syncs \ {s}
  /\ Keep({v \in rows : v.sync # s}, {})
  /\ UNCHANGED <<nodes, nextSeq, shown, loaded>>

(* DeleteNode and its cascade. *)
DeleteNode(n) ==
  /\ n \in nodes
  /\ nodes' = nodes \ {n}
  /\ Keep({v \in rows : v.node # n}, {})
  /\ UNCHANGED <<syncs, nextSeq, shown, loaded>>

(* A user opens a member's history. *)
ListSaveVersions ==
  /\ shown' \in rows
  /\ loaded' = None
  /\ UNCHANGED <<syncs, nodes, rows, blobs, nextSeq>>

(* RestoreVersion loads the seq bound to the sync the user was shown it in;
   a row without its blob would be not found, like one that went. *)
GetSaveVersionData ==
  /\ shown # None
  /\ LET found == {v \in rows : /\ v.seq = shown.seq /\ v.sync = shown.sync
                                /\ v.hash \in blobs}
     IN  loaded' \in IF found = {} THEN {None} ELSE found
  /\ UNCHANGED <<syncs, nodes, rows, blobs, nextSeq, shown>>

Init ==
  /\ syncs = {} /\ nodes = {}
  /\ rows = {} /\ blobs = {} /\ nextSeq = 0
  /\ shown = None /\ loaded = None

Next ==
  \/ \E s \in SyncIds : CreateSync(s) \/ DeleteSync(s)
  \/ \E n \in NodeIds : CreateNode(n) \/ DeleteNode(n)
  \/ \E s \in SyncIds, n \in NodeIds, h \in Contents :
       PutSaveVersion(s, n, h) \/ PutDuplicate(s, n, h)
  \/ ListSaveVersions
  \/ GetSaveVersionData

Spec == Init /\ [][Next]_vars

-----------------------------------------------------------------------------
(* Properties *)

(* Types, and the foreign keys of save_versions: every row's sync and node
   exist. *)
TypeOK ==
  /\ syncs \subseteq SyncIds /\ nodes \subseteq NodeIds
  /\ rows \subseteq [seq: Nat, sync: syncs, node: nodes, hash: Contents]
  /\ blobs \subseteq Contents
  /\ nextSeq \in Nat
  /\ shown \in Row \cup {None} /\ loaded \in Row \cup {None}

(* No capture loses its bytes and no bytes outlive their captures, though the
   blobs are shared by all syncs (gcBlobsLocked). *)
BlobsExact == blobs = Hashes(rows)

(* A seq means one capture for ever: what a restore loads is what its user
   was shown, or nothing, however long ago that was and whatever was captured,
   pruned, deleted and created anew since (GetSaveVersionData). *)
ShownIsRestored == loaded # None => loaded = shown

(* How many of the rows are older than v. *)
Older(R, v) == Cardinality({w \in R : w.seq < v.seq})

(* The contents of rows, oldest first. *)
InOrder(R) ==
  [i \in 1..Cardinality(R) |-> (CHOOSE v \in R : Older(R, v) = i - 1).hash]

History(s, n) == InOrder(Of(rows, s, n))

Abstract == INSTANCE Histories
              WITH history <- [m \in SyncIds \X NodeIds |-> History(m[1], m[2])]

(* What the engine's model assumes of its captures is what the shared tables
   do: every member has the history its own captures add up to, bounded by
   Retain and without repetitions, whatever is captured, pruned or deleted for
   other members, and an id created again starts anew (PutSaveVersion,
   pruneVersionsLocked and the cascades). *)
ImplementsHistories == Abstract!Spec
=============================================================================
