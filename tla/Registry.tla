------------------------------ MODULE Registry ------------------------------
(***************************************************************************)
(* Administrators edit the registry of syncs, nodes and members             *)
(* (internal/web/syncs.go, nodes.go, discover.go over internal/store) while *)
(* the engine's passes run.  A pass reads its members once and works on     *)
(* what it read; the engine's lock keeps passes on one sync apart, but no   *)
(* edit takes it.                                                           *)
(*                                                                          *)
(* Files have no contents here: a poll may find any of its members changed. *)
(* A manifest row is reduced to the file it describes: the share root that  *)
(* its node had, and the path below.  The order in which a pass visits its  *)
(* members is left open.  Engine has both.  Owners, names and kinds of      *)
(* nodes, and who may ask for what, are left out.                            *)
(***************************************************************************)
EXTENDS Naturals, FiniteSets

CONSTANTS
  SyncIds, NodeIds,   \* ids (slugs): one deleted may be created again
  Roots,              \* share roots; nodes may have the same
  Paths,              \* save files below a node's root
  None,               \* no member, no row
  MaxEdits,           \* bound: edits by administrators
  MaxNew,             \* bound: members named by one create request
  MaxPasses           \* bound: passes of the engine

ASSUME RegistryAssumption ==
  None \notin Paths \cup Roots \cup (Roots \X Paths) /\ {MaxEdits, MaxNew, MaxPasses} \subseteq Nat

Pairs == SyncIds \X NodeIds

Files == Roots \X Paths

VARIABLES
  \* The store.
  syncs,          \* the ids that exist
  nodes,          \* a node's share root, or None
  member,         \* sync_members: a path, or None
  row,            \* manifest: the file the entry describes, or None
  archived,       \* the pairs with save versions
  conflicted,     \* the syncs with conflict_at # nil
  synced,         \* the syncs with last_synced # nil
  \* The passes in flight, one per sync at most (lockSync).
  pass,
  \* Requests in flight.
  creating,       \* per sync, the members a create request has still to add
  deleting,       \* the syncs a delete request found free of conflict
  setting,        \* SetSyncMember transactions, with the path they have read
  \* Bound and history.
  edits, passes,
  raced,          \* pairs edited behind a pass or a transaction that had read them
  used,           \* syncs that a pass began on since they were created
  haunted         \* syncs created while a pass on an earlier one of that id ran

store == <<syncs, nodes, member, row, archived, conflicted, synced>>
requests == <<creating, deleting, setting>>
vars == <<store, pass, requests, edits, passes, raced, used, haunted>>

Kinds == {"poll", "resolve", "restore"}

(* scope: the member list read; todo: members to write; own: members whose own
   entry is recorded after that; now: the member written last. *)
Pass == [kind: Kinds, pc: {"members", "scan", "write", "record", "clear"},
         scope: [NodeIds -> Files \cup {None}],
         todo: SUBSET NodeIds, own: SUBSET NodeIds, now: NodeIds \cup {None}]

InFlight(s) == pass[s] # None

(* Has a pass on s read its members? *)
Reading(s) == InFlight(s) /\ pass[s].pc # "members"

Scope(s) == {n \in NodeIds : pass[s].scope[n] # None}

Existing == {n \in NodeIds : nodes[n] # None}

(* The file of a member. *)
FileOf(s, n) == IF member[<<s, n>>] = None THEN None ELSE <<nodes[n], member[<<s, n>>]>>

(* A transaction of the "create" or the "edit" of a member. *)
Setting == [by: {"create", "edit"}, sync: SyncIds, node: NodeIds, path: Paths,
            old: Paths \cup {None}]

-----------------------------------------------------------------------------
(* The store's operations *)

(* Faulty: UNIQUE (sync_id, path). *)
TakenInSync(s, n, p) == \E m \in NodeIds \ {n} : member[<<s, m>>] = p

(* UNIQUE (node_id, path): the file is in another sync. *)
Taken(s, n, p) == \E t \in SyncIds \ {s} : member[<<t, n>>] = p

CanSet(s, n, p) == s \in syncs /\ n \in Existing /\ ~Taken(s, n, p)

(* Every edit of the members D of sync s: the rows in C go. *)
Edited(s, D, C) ==
  /\ row' = [x \in Pairs |-> IF x \in C THEN None ELSE row[x]]
  /\ raced' = (raced \ C) \cup (IF Reading(s) THEN {s} \X D ELSE {})

(* SetSyncMember begins: SELECT path, which locks nothing. *)
ReadMember(by, s, n, p) ==
  setting' = setting \cup
    {[by |-> by, sync |-> s, node |-> n, path |-> p, old |-> member[<<s, n>>]]}

(* Faulty: a repointed member keeps its row. *)
ClearedKeeps(x) == {}

(* The row that is dropped: a repointed member's, as of what was read. *)
Cleared(x) == IF x.old \notin {None, x.path} THEN {<<x.sync, x.node>>} ELSE {}

(* History: the path was edited since it was read, and no row is dropped. *)
Overtaken(x) == x.old # member[<<x.sync, x.node>>] /\ Cleared(x) = {}

(* The upsert, and the commit. *)
SetSyncMember(x) ==
  /\ x \in setting
  /\ CanSet(x.sync, x.node, x.path)
  /\ setting' = setting \ {x}
  /\ member' = [member EXCEPT ![<<x.sync, x.node>>] = x.path]
  /\ row' = [y \in Pairs |-> IF y \in Cleared(x) THEN None ELSE row[y]]
  /\ raced' = (raced \ Cleared(x)) \cup
       (IF Reading(x.sync) \/ Overtaken(x) THEN {<<x.sync, x.node>>} ELSE {})
  /\ UNCHANGED <<syncs, nodes, archived, conflicted, synced, pass, creating, deleting,
                 edits, used, haunted, passes>>

(* It is refused, and rolled back; a create request ends with it, and its sync
   stays as far as it got. *)
SetFails(x) ==
  /\ x \in setting
  /\ ~CanSet(x.sync, x.node, x.path)
  /\ setting' = setting \ {x}
  /\ creating' = IF x.by = "edit" THEN creating ELSE [creating EXCEPT ![x.sync] = {}]
  /\ UNCHANGED <<store, pass, deleting, edits, raced, used, haunted, passes>>

(* Faulty: rows outlive their node. *)
CanRecordSync(s, n) == s \in syncs

(* SetManifest by the pass on s: refused when the sync or the node has gone. *)
CanRecord(s, n) == s \in syncs /\ n \in Existing

SetManifest(s, n) ==
  /\ row' = [row EXCEPT ![<<s, n>>] = pass[s].scope[n]]
  /\ raced' = IF FileOf(s, n) = pass[s].scope[n] THEN raced \ {<<s, n>>} ELSE raced

-----------------------------------------------------------------------------
(* Administrators *)

Edit == edits < MaxEdits /\ edits' = edits + 1

(* handleCreateSync, handleDiscoverCreateSync: the sync first, its members
   later, one by one. *)
CreateSync(s, M) ==
  /\ Edit
  /\ s \notin syncs
  /\ creating[s] = {}
  /\ syncs' = syncs \cup {s}
  /\ creating' = [creating EXCEPT ![s] = M]
  /\ Edited(s, NodeIds, {})
  /\ used' = used \ {s}
  /\ haunted' = IF InFlight(s) THEN haunted \cup {s} ELSE haunted \ {s}
  /\ UNCHANGED <<nodes, member, archived, conflicted, synced, pass, deleting, setting,
                 passes>>

CreateAddsMember(s) ==
  /\ \A x \in setting : ~(x.sync = s /\ x.by = "create")
  /\ \E c \in creating[s] :
       /\ creating' = [creating EXCEPT ![s] = @ \ {c}]
       /\ ReadMember("create", s, c[1], c[2])
  /\ UNCHANGED <<store, pass, deleting, edits, raced, used, haunted, passes>>

(* handleSetSyncMember: add a member or repoint one. *)
HandleSetSyncMember(s, n, p) ==
  /\ Edit
  /\ s \in syncs
  /\ ReadMember("edit", s, n, p)
  /\ UNCHANGED <<store, pass, creating, deleting, raced, used, haunted, passes>>

(* DeleteSyncMember: the member and its row. *)
DeleteSyncMember(s, n) ==
  /\ Edit
  /\ member[<<s, n>>] # None
  /\ member' = [member EXCEPT ![<<s, n>>] = None]
  /\ Edited(s, {n}, {<<s, n>>})
  /\ UNCHANGED <<syncs, nodes, archived, conflicted, synced, pass, requests, used,
                 haunted, passes>>

(* handleDeleteSync: refused for a sync in conflict, and in a later step ... *)
DeleteAsked(s) ==
  /\ Edit
  /\ s \in syncs \ (conflicted \cup deleting)
  /\ deleting' = deleting \cup {s}
  /\ UNCHANGED <<store, pass, creating, setting, raced, used, haunted, passes>>

(* Faulty: the rows of the sync stay. *)
DeleteSyncKeepsRows(s) ==
  /\ s \in deleting
  /\ deleting' = deleting \ {s}
  /\ syncs' = syncs \ {s}
  /\ member' = [x \in Pairs |-> IF x[1] = s THEN None ELSE member[x]]
  /\ Edited(s, NodeIds, {})
  /\ archived' = {x \in archived : x[1] # s}
  /\ conflicted' = conflicted \ {s}
  /\ synced' = synced \ {s}
  /\ UNCHANGED <<nodes, pass, creating, setting, edits, used, haunted, passes>>

(* ... deleted, with all that refers to it. *)
DeleteSync(s) ==
  /\ s \in deleting
  /\ deleting' = deleting \ {s}
  /\ syncs' = syncs \ {s}
  /\ member' = [x \in Pairs |-> IF x[1] = s THEN None ELSE member[x]]
  /\ Edited(s, NodeIds, {s} \X NodeIds)
  /\ archived' = {x \in archived : x[1] # s}
  /\ conflicted' = conflicted \ {s}
  /\ synced' = synced \ {s}
  /\ UNCHANGED <<nodes, pass, creating, setting, edits, used, haunted, passes>>

(* handleCreateNode. *)
CreateNode(n, root) ==
  /\ Edit
  /\ nodes[n] = None
  /\ nodes' = [nodes EXCEPT ![n] = root]
  /\ UNCHANGED <<syncs, member, row, archived, conflicted, synced, pass, requests,
                 raced, used, haunted, passes>>

(* handleEditNode: another root.  The rows of its members stay. *)
UpdateNode(n, root) ==
  /\ Edit
  /\ nodes[n] \notin {None, root}
  /\ nodes' = [nodes EXCEPT ![n] = root]
  /\ raced' = raced \cup {x \in Pairs : x[2] = n /\ (row[x] # None \/ Reading(x[1]))}
  /\ UNCHANGED <<syncs, member, row, archived, conflicted, synced, pass, requests, used,
                 haunted, passes>>

(* DeleteNode and its cascade, across all syncs. *)
DeleteNode(n) ==
  /\ Edit
  /\ nodes[n] # None
  /\ nodes' = [nodes EXCEPT ![n] = None]
  /\ member' = [x \in Pairs |-> IF x[2] = n THEN None ELSE member[x]]
  /\ row' = [x \in Pairs |-> IF x[2] = n THEN None ELSE row[x]]
  /\ archived' = {x \in archived : x[2] # n}
  /\ raced' = {x \in raced : x[2] # n} \cup ({s \in SyncIds : Reading(s)} \X {n})
  /\ UNCHANGED <<syncs, conflicted, synced, pass, requests, used, haunted, passes>>

-----------------------------------------------------------------------------
(* The engine's passes *)

Ended(s) == pass' = [pass EXCEPT ![s] = None]

Start(s, kind, n) ==
  /\ passes < MaxPasses /\ passes' = passes + 1
  /\ s \in syncs
  /\ ~InFlight(s)
  /\ pass' = [pass EXCEPT ![s] = [kind |-> kind, pc |-> "members",
                                  scope |-> [k \in NodeIds |-> None],
                                  todo |-> {}, own |-> {}, now |-> n]]
  /\ used' = used \cup {s}
  /\ UNCHANGED <<store, requests, edits, raced, haunted>>

(* The daemon polls one sync at a time and skips a paused one. *)
StartPoll(s) ==
  /\ \A t \in SyncIds : ~(InFlight(t) /\ pass[t].kind = "poll")
  /\ s \notin conflicted
  /\ Start(s, "poll", None)

StartResolve(s, winner) == s \in conflicted /\ Start(s, "resolve", winner)

StartRestore(s, target) == <<s, target>> \in archived /\ Start(s, "restore", target)

(* A pass step that leaves the registry alone. *)
Quiet == UNCHANGED <<store, requests, edits, raced, used, haunted, passes>>

(* inScopeNodes; a winner or a target that is no member any more is refused. *)
LoadMembers(s) ==
  /\ InFlight(s) /\ pass[s].pc = "members"
  /\ LET scope == [n \in NodeIds |-> FileOf(s, n)]
         all   == {n \in NodeIds : scope[n] # None}
         p     == [pass[s] EXCEPT !.scope = scope, !.now = None]
         n     == pass[s].now
     IN  CASE p.kind = "poll" -> pass' = [pass EXCEPT ![s] = [p EXCEPT !.pc = "scan"]]
           [] p.kind = "resolve" /\ n \in all ->
                pass' = [pass EXCEPT ![s] = [p EXCEPT !.pc = "write", !.todo = all \ {n},
                                                      !.own = {n}]]
           [] p.kind = "restore" /\ n \in all ->
                pass' = [pass EXCEPT ![s] = [p EXCEPT !.pc = "write", !.todo = all]]
           [] OTHER -> Ended(s)
  /\ Quiet

(* A touch or a verified member of a scan. *)
Touch(s) ==
  /\ InFlight(s) /\ pass[s].pc = "scan"
  /\ \E n \in Scope(s) : CanRecord(s, n) /\ SetManifest(s, n)
  /\ UNCHANGED <<syncs, nodes, member, archived, conflicted, synced, pass, requests,
                 edits, used, haunted, passes>>

(* flagConflict: at least one member changed. *)
Flag(s) ==
  /\ InFlight(s) /\ pass[s].pc = "scan" /\ Scope(s) # {}
  /\ s \in syncs
  /\ conflicted' = conflicted \cup {s}
  /\ Ended(s)
  /\ UNCHANGED <<syncs, nodes, member, row, archived, synced, requests, edits, raced,
                 used, haunted, passes>>

(* The changers, C, hold one content: the other members are to get it. *)
Propagate(s, C) ==
  /\ InFlight(s) /\ pass[s].pc = "scan"
  /\ C # {} /\ C \subseteq Scope(s)
  /\ pass' = [pass EXCEPT ![s].pc = "write", ![s].todo = Scope(s) \ C, ![s].own = C]
  /\ Quiet

(* One destination: capture what it holds, if it holds anything, and write. *)
Write(s, n, present) ==
  /\ InFlight(s) /\ pass[s].pc = "write" /\ n \in pass[s].todo
  /\ present => CanRecord(s, n)
  /\ archived' = IF present THEN archived \cup {<<s, n>>} ELSE archived
  /\ pass' = [pass EXCEPT ![s].pc = "record", ![s].now = n, ![s].todo = @ \ {n}]
  /\ UNCHANGED <<syncs, nodes, member, row, conflicted, synced, requests, edits, raced,
                 used, haunted, passes>>

Record(s) ==
  /\ InFlight(s) /\ pass[s].pc = "record"
  /\ CanRecord(s, pass[s].now)
  /\ SetManifest(s, pass[s].now)
  /\ pass' = [pass EXCEPT ![s].pc = "write", ![s].now = None]
  /\ UNCHANGED <<syncs, nodes, member, archived, conflicted, synced, requests, edits,
                 used, haunted, passes>>

(* The changers' or the winner's own entries. *)
RecordOwn(s) ==
  /\ InFlight(s) /\ pass[s].pc = "write" /\ pass[s].todo = {}
  /\ \E n \in pass[s].own :
       /\ CanRecord(s, n)
       /\ SetManifest(s, n)
       /\ pass' = [pass EXCEPT ![s].own = @ \ {n}]
  /\ UNCHANGED <<syncs, nodes, member, archived, conflicted, synced, requests, edits,
                 used, haunted, passes>>

Mark(s) ==
  /\ InFlight(s) /\ pass[s].pc = "write" /\ pass[s].todo = {} /\ pass[s].own = {}
  /\ s \in syncs
  /\ synced' = synced \cup {s}
  /\ IF pass[s].kind = "poll" THEN Ended(s) ELSE pass' = [pass EXCEPT ![s].pc = "clear"]
  /\ UNCHANGED <<syncs, nodes, member, row, archived, conflicted, requests, edits,
                 raced, used, haunted, passes>>

Clear(s) ==
  /\ InFlight(s) /\ pass[s].pc = "clear"
  /\ s \in syncs
  /\ conflicted' = conflicted \ {s}
  /\ Ended(s)
  /\ UNCHANGED <<syncs, nodes, member, row, archived, synced, requests, edits, raced,
                 used, haunted, passes>>

(* Nothing changed; or any call failed, the refused ones above included. *)
Return(s) == InFlight(s) /\ Ended(s) /\ Quiet

-----------------------------------------------------------------------------
(* Nodes are registered, and no sync yet. *)
Init ==
  /\ syncs = {} /\ nodes \in [NodeIds -> Roots]
  /\ member = [x \in Pairs |-> None] /\ row = [x \in Pairs |-> None]
  /\ archived = {} /\ conflicted = {} /\ synced = {}
  /\ pass = [s \in SyncIds |-> None]
  /\ creating = [s \in SyncIds |-> {}] /\ deleting = {} /\ setting = {}
  /\ edits = 0 /\ passes = 0 /\ raced = {} /\ used = {} /\ haunted = {}

Admin(s) ==
  \/ \E M \in SUBSET (NodeIds \X Paths) : Cardinality(M) <= MaxNew /\ CreateSync(s, M)
  \/ CreateAddsMember(s)
  \/ \E n \in NodeIds, p \in Paths : HandleSetSyncMember(s, n, p)
  \/ \E n \in NodeIds : DeleteSyncMember(s, n)
  \/ DeleteAsked(s) \/ DeleteSync(s)

Engine(s) ==
  \/ StartPoll(s)
  \/ \E n \in NodeIds : StartResolve(s, n) \/ StartRestore(s, n)
  \/ LoadMembers(s) \/ Touch(s) \/ Flag(s)
  \/ \E C \in SUBSET NodeIds : Propagate(s, C)
  \/ \E n \in NodeIds, present \in BOOLEAN : Write(s, n, present)
  \/ Record(s) \/ RecordOwn(s) \/ Mark(s) \/ Clear(s) \/ Return(s)

Next ==
  \/ \E s \in SyncIds : Admin(s) \/ Engine(s)
  \/ \E x \in setting : SetSyncMember(x) \/ SetFails(x)
  \/ \E n \in NodeIds :
       DeleteNode(n) \/ \E root \in Roots : CreateNode(n, root) \/ UpdateNode(n, root)

Spec == Init /\ [][Next]_vars

-----------------------------------------------------------------------------
(* Properties *)

(* Types, and the foreign keys of sync_members, manifest and save_versions,
   which passes go on to write while syncs and nodes are deleted. *)
TypeOK ==
  /\ syncs \subseteq SyncIds /\ nodes \in [NodeIds -> Roots \cup {None}]
  /\ member \in [Pairs -> Paths \cup {None}] /\ row \in [Pairs -> Files \cup {None}]
  /\ \A x \in Pairs : member[x] # None \/ row[x] # None \/ x \in archived
                        => x[1] \in syncs /\ x[2] \in Existing
  /\ archived \subseteq Pairs
  /\ conflicted \subseteq syncs /\ synced \subseteq syncs
  /\ pass \in [SyncIds -> Pass \cup {None}]
  /\ creating \in [SyncIds -> SUBSET (NodeIds \X Paths)] /\ deleting \subseteq SyncIds
  /\ setting \subseteq Setting
  /\ edits \in Nat /\ passes \in Nat
  /\ raced \subseteq Pairs /\ used \subseteq SyncIds /\ haunted \subseteq SyncIds

(* A save file is in one sync at most, whatever requests overlap (UNIQUE
   (node_id, path) of sync_members). *)
OneSyncPerFile ==
  \A s, t \in SyncIds, n \in NodeIds :
    s # t /\ member[<<s, n>>] # None => member[<<s, n>>] # member[<<t, n>>]

(* A manifest row describes the file its member has now, and a pair that is no
   member has none, so that a repointed or re-added member appears fresh
   (SetSyncMember, DeleteSyncMember), unless the edit fell into a pass that had
   read its members, the residual race that the comments of both accept; the
   path that its transaction had read was edited before its upsert; or the edit
   was one of the node's share root. *)
RowsFollowMembers ==
  \A x \in Pairs \ raced : row[x] \in {None, FileOf(x[1], x[2])}

(* A sync created under the id of a deleted one starts anew: no conflict, no
   sync time, no rows and no versions, until a pass of its own begins
   (CreateSync, DeleteSync's cascade), unless a pass on the deleted one was
   still running. *)
FreshStart ==
  \A s \in syncs \ (used \cup haunted) :
    /\ s \notin conflicted \cup synced
    /\ \A n \in NodeIds : row[<<s, n>>] = None /\ <<s, n>> \notin archived

Writes(s, n) ==
  InFlight(s) /\ pass[s].pc = "write" /\ n \in pass[s].todo
    /\ pass'[s] # None /\ pass'[s].pc = "record" /\ pass'[s].now = n

(* docs/api.md on removing a member: "a removed member's file simply stops
   mirroring"; the engine writes no file that is not its sync's member. *)
RemovedStopsMirroring ==
  [][\A s \in SyncIds, n \in NodeIds :
       Writes(s, n) => member[<<s, n>>] = pass[s].scope[n][2]]_vars
=============================================================================
