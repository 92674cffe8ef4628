--------------------------- MODULE RegistryProofs ---------------------------
(***************************************************************************)
(* The registry, for any number of syncs, nodes, roots, paths, edits and     *)
(* passes: its types and foreign keys, that a file is in one sync, that      *)
(* entries follow their members, and that an id created again starts anew.   *)
(***************************************************************************)
EXTENDS Registry, TLAPS

(* A pass in flight, and what it may become. *)
LEMMA PassMoves ==
  ASSUME TypeOK, NEW s \in SyncIds, NEW q \in Pass \cup {None},
         pass' = [pass EXCEPT ![s] = q]
  PROVE  pass' \in [SyncIds -> Pass \cup {None}]
BY DEF TypeOK

(* The file of a member. *)
LEMMA FileType ==
  ASSUME TypeOK, NEW s \in SyncIds, NEW n \in NodeIds
  PROVE  FileOf(s, n) \in Files \cup {None}
<1>1. <<s, n>> \in Pairs
  BY DEF Pairs
<1>2. CASE member[<<s, n>>] = None
  BY <1>2 DEF FileOf
<1>3. CASE member[<<s, n>>] # None
  <2>1. n \in Existing /\ member[<<s, n>>] \in Paths
    BY <1>1, <1>3 DEF TypeOK
  <2>2. nodes[n] \in Roots
    BY <2>1 DEF Existing, TypeOK
  <2> QED
    BY <1>3, <2>1, <2>2 DEF FileOf, Files
<1> QED
  BY <1>2, <1>3

(* A pass begins, reads, decides or ends: the tables stay. *)
LEMMA TypeQuiet ==
  ASSUME TypeOK, NEW s \in SyncIds, Quiet, pass' \in [SyncIds -> Pass \cup {None}]
  PROVE  TypeOK'
BY DEF TypeOK, Quiet, store, requests, Existing

LEMMA TypeStart ==
  ASSUME TypeOK, NEW s \in SyncIds, NEW kind \in Kinds, NEW n \in NodeIds \cup {None},
         Start(s, kind, n)
  PROVE  TypeOK'
<1> DEFINE q == [kind |-> kind, pc |-> "members", scope |-> [k \in NodeIds |-> None],
                 todo |-> {}, own |-> {}, now |-> n]
<1>1. q \in Pass
  BY DEF Pass
<1>2. pass' = [pass EXCEPT ![s] = q]
  BY DEF Start
<1> HIDE DEF q
<1>3. pass' \in [SyncIds -> Pass \cup {None}]
  BY <1>1, <1>2, PassMoves
<1>4. /\ UNCHANGED <<store, requests, edits, raced, haunted>>
      /\ used' \subseteq SyncIds /\ passes' \in Nat
  BY DEF Start, TypeOK
<1> QED
  BY <1>3, <1>4 DEF TypeOK, store, requests, Existing

(* What a pass becomes that reads its members. *)
LEMMA Loads ==
  ASSUME TypeOK, NEW s \in SyncIds, LoadMembers(s)
  PROVE  \E q \in Pass \cup {None} :
           /\ pass' = [pass EXCEPT ![s] = q]
           /\ q # None => q.scope = [n \in NodeIds |-> FileOf(s, n)]
<1> DEFINE scope == [n \in NodeIds |-> FileOf(s, n)]
           all   == {n \in NodeIds : scope[n] # None}
           p     == [pass[s] EXCEPT !.scope = scope, !.now = None]
           n     == pass[s].now
<1>1. pass[s] \in Pass /\ scope \in [NodeIds -> Files \cup {None}] /\ all \subseteq NodeIds
  BY FileType DEF LoadMembers, InFlight, TypeOK
<1>2. pass' = [pass EXCEPT ![s] = [p EXCEPT !.pc = "scan"]]
      \/ (n \in all /\ pass' = [pass EXCEPT ![s] =
            [p EXCEPT !.pc = "write", !.todo = all \ {n}, !.own = {n}]])
      \/ pass' = [pass EXCEPT ![s] = [p EXCEPT !.pc = "write", !.todo = all]]
      \/ pass' = [pass EXCEPT ![s] = None]
  BY DEF LoadMembers, Ended
<1> DEFINE a == [p EXCEPT !.pc = "scan"]
           b == [p EXCEPT !.pc = "write", !.todo = all \ {n}, !.own = {n}]
           c == [p EXCEPT !.pc = "write", !.todo = all]
<1> HIDE DEF scope, all
<1>3. /\ a \in Pass /\ a.scope = scope
      /\ n \in all => b \in Pass /\ b.scope = scope
      /\ c \in Pass /\ c.scope = scope
  BY <1>1 DEF Pass
<1> HIDE DEF a, b, c
<1>4. \E q \in Pass \cup {None} :
        pass' = [pass EXCEPT ![s] = q] /\ (q # None => q.scope = scope)
  BY <1>2, <1>3 DEF a, b, c
<1> QED
  BY <1>4 DEF scope

LEMMA TypeLoad ==
  ASSUME TypeOK, NEW s \in SyncIds, LoadMembers(s)
  PROVE  TypeOK'
BY Loads, PassMoves, TypeQuiet DEF LoadMembers

LEMMA TypePropagate ==
  ASSUME TypeOK, NEW s \in SyncIds, NEW C \in SUBSET NodeIds, Propagate(s, C)
  PROVE  TypeOK'
<1>1. pass[s] \in Pass /\ Scope(s) \subseteq NodeIds
  BY DEF Propagate, InFlight, TypeOK, Scope
<1>2. pass' = [pass EXCEPT ![s] =
                 [pass[s] EXCEPT !.pc = "write", !.todo = Scope(s) \ C, !.own = C]]
  BY DEF Propagate
<1>3. pass' \in [SyncIds -> Pass \cup {None}]
  BY <1>1, <1>2, PassMoves DEF Pass
<1> QED
  BY <1>3, TypeQuiet DEF Propagate

LEMMA TypeReturn ==
  ASSUME TypeOK, NEW s \in SyncIds, Return(s)
  PROVE  TypeOK'
BY PassMoves, TypeQuiet DEF Return, Ended

(* A pass records an entry, whatever it goes on to. *)
LEMMA TypeSetManifest ==
  ASSUME TypeOK, NEW s \in SyncIds, InFlight(s), NEW n \in NodeIds \cup {None},
         CanRecord(s, n), SetManifest(s, n), pass' \in [SyncIds -> Pass \cup {None}],
         UNCHANGED <<syncs, nodes, member, archived, conflicted, synced, requests, edits,
                     used, haunted, passes>>
  PROVE  TypeOK'
<1>1. n \in NodeIds /\ <<s, n>> \in Pairs /\ s \in syncs /\ n \in Existing
  BY DEF CanRecord, Existing, Pairs
<1>2. pass[s].scope[n] \in Files \cup {None}
  BY <1>1 DEF InFlight, TypeOK, Pass
<1>3. row' \in [Pairs -> Files \cup {None}] /\ raced' \subseteq Pairs
  BY <1>1, <1>2 DEF SetManifest, TypeOK
<1>4. \A x \in Pairs : row'[x] # None => x[1] \in syncs /\ x[2] \in Existing
  BY <1>1, <1>2 DEF SetManifest, TypeOK
<1> QED
  BY <1>3, <1>4 DEF TypeOK, requests, Existing

LEMMA TypeRecords ==
  ASSUME TypeOK, NEW s \in SyncIds, Touch(s) \/ Record(s) \/ RecordOwn(s)
  PROVE  TypeOK'
<1>1. InFlight(s) /\ pass[s] \in Pass
  BY DEF Touch, Record, RecordOwn, InFlight, TypeOK
<1>2. CASE Touch(s)
  BY <1>1, <1>2, TypeSetManifest DEF Touch, Scope, TypeOK
<1>3. CASE Record(s)
  <2>1. pass' = [pass EXCEPT ![s] = [pass[s] EXCEPT !.pc = "write", !.now = None]]
    BY <1>3 DEF Record
  <2>2. pass' \in [SyncIds -> Pass \cup {None}]
    BY <1>1, <2>1, PassMoves DEF Pass
  <2>3. pass[s].now \in NodeIds \cup {None}
    BY <1>1 DEF Pass
  <2> QED
    BY <1>1, <1>3, <2>2, <2>3, TypeSetManifest DEF Record
<1>4. CASE RecordOwn(s)
  <2>1. PICK n \in pass[s].own :
          /\ CanRecord(s, n) /\ SetManifest(s, n)
          /\ pass' = [pass EXCEPT ![s] = [pass[s] EXCEPT !.own = pass[s].own \ {n}]]
    BY <1>4 DEF RecordOwn
  <2>2. pass' \in [SyncIds -> Pass \cup {None}] /\ n \in NodeIds
    BY <1>1, <2>1, PassMoves DEF Pass
  <2> QED
    BY <1>1, <1>4, <2>1, <2>2, TypeSetManifest DEF RecordOwn
<1> QED
  BY <1>2, <1>3, <1>4

(* A pass's other writes to the store. *)
LEMMA TypeMarks ==
  ASSUME TypeOK, NEW s \in SyncIds,
         Flag(s) \/ Mark(s) \/ Clear(s) \/ \E n \in NodeIds, present \in BOOLEAN :
                                              Write(s, n, present)
  PROVE  TypeOK'
<1>1. InFlight(s) /\ pass[s] \in Pass
  BY DEF Flag, Mark, Clear, Write, InFlight, TypeOK
<1>2. CASE Flag(s) \/ Clear(s)
  <2>1. /\ conflicted' \subseteq syncs /\ pass' \in [SyncIds -> Pass \cup {None}]
        /\ UNCHANGED <<syncs, nodes, member, row, archived, synced, requests, edits, raced,
                       used, haunted, passes>>
    BY <1>2, PassMoves DEF Flag, Clear, Ended, TypeOK
  <2> QED
    BY <2>1 DEF TypeOK, requests, Existing
<1>3. CASE Mark(s)
  <2>1. \/ pass' = [pass EXCEPT ![s] = None]
        \/ pass' = [pass EXCEPT ![s] = [pass[s] EXCEPT !.pc = "clear"]]
    BY <1>3 DEF Mark, Ended
  <2>2. pass' \in [SyncIds -> Pass \cup {None}]
    BY <1>1, <2>1, PassMoves DEF Pass
  <2>3. /\ synced' \subseteq syncs
        /\ UNCHANGED <<syncs, nodes, member, row, archived, conflicted, requests, edits,
                       raced, used, haunted, passes>>
    BY <1>3 DEF Mark, TypeOK
  <2> QED
    BY <2>2, <2>3 DEF TypeOK, requests, Existing
<1>4. ASSUME NEW n \in NodeIds, NEW present \in BOOLEAN, Write(s, n, present)
      PROVE  TypeOK'
  <2>1. pass' = [pass EXCEPT ![s] = [pass[s] EXCEPT !.pc = "record", !.now = n,
                                                    !.todo = pass[s].todo \ {n}]]
    BY <1>4 DEF Write
  <2>2. pass' \in [SyncIds -> Pass \cup {None}]
    BY <1>1, <2>1, PassMoves DEF Pass
  <2>3. archived' = archived \/ (archived' = archived \cup {<<s, n>>} /\ CanRecord(s, n))
    BY <1>4 DEF Write
  <2>4. /\ archived' \subseteq Pairs
        /\ \A x \in archived' : x[1] \in syncs /\ x[2] \in Existing
    BY <2>3 DEF CanRecord, TypeOK, Pairs
  <2>5. UNCHANGED <<syncs, nodes, member, row, conflicted, synced, requests, edits,
                    raced, used, haunted, passes>>
    BY <1>4 DEF Write
  <2> QED
    BY <2>2, <2>4, <2>5 DEF TypeOK, requests, Existing
<1> QED
  BY <1>2, <1>3, <1>4

(* The transactions of SetSyncMember. *)
LEMMA TypeSet ==
  ASSUME TypeOK, NEW x \in setting, SetSyncMember(x) \/ SetFails(x)
  PROVE  TypeOK'
<1>1. x \in Setting /\ <<x.sync, x.node>> \in Pairs
  BY DEF TypeOK, Setting, Pairs
<1>2. CASE SetSyncMember(x)
  <2>1. x.sync \in syncs /\ x.node \in Existing /\ x.path \in Paths
    BY <1>1, <1>2 DEF SetSyncMember, CanSet, Setting
  <2>2. /\ member' \in [Pairs -> Paths \cup {None}] /\ row' \in [Pairs -> Files \cup {None}]
        /\ \A y \in Pairs : y # <<x.sync, x.node>> => member'[y] = member[y]
        /\ \A y \in Pairs : row'[y] \in {row[y], None}
    BY <1>1, <1>2, <2>1 DEF SetSyncMember, TypeOK
  <2>3. setting' \subseteq Setting /\ raced' \subseteq Pairs
    BY <1>1, <1>2 DEF SetSyncMember, TypeOK, Cleared
  <2>4. UNCHANGED <<syncs, nodes, archived, conflicted, synced, pass, creating, deleting,
                    edits, used, haunted, passes>>
    BY <1>2 DEF SetSyncMember
  <2>5. \A y \in Pairs : member'[y] # None \/ row'[y] # None \/ y \in archived
                           => y[1] \in syncs /\ y[2] \in Existing
    BY <1>1, <2>1, <2>2 DEF TypeOK, Pairs
  <2> QED
    BY <2>2, <2>3, <2>4, <2>5 DEF TypeOK, Existing
<1>3. CASE SetFails(x)
  <2>1. setting' \subseteq Setting /\ creating' \in [SyncIds -> SUBSET (NodeIds \X Paths)]
    BY <1>1, <1>3 DEF SetFails, TypeOK
  <2> QED
    BY <1>3, <2>1 DEF SetFails, TypeOK, store, Existing
<1> QED
  BY <1>2, <1>3

(* Requests of administrators on a sync. *)
LEMMA TypeAdmin ==
  ASSUME TypeOK, NEW s \in SyncIds, Admin(s)
  PROVE  TypeOK'
<1>1. ASSUME NEW M \in SUBSET (NodeIds \X Paths), CreateSync(s, M)
      PROVE  TypeOK'
  <2>1. /\ syncs' = syncs \cup {s}
        /\ creating' \in [SyncIds -> SUBSET (NodeIds \X Paths)]
        /\ raced' \subseteq Pairs /\ row' = row /\ edits' \in Nat
        /\ used' \subseteq SyncIds /\ haunted' \subseteq SyncIds
        /\ UNCHANGED <<nodes, member, archived, conflicted, synced, pass, deleting, setting,
                       passes>>
    BY <1>1 DEF CreateSync, Edit, Edited, TypeOK, Pairs
  <2> QED
    BY <2>1 DEF TypeOK, Existing
<1>2. CASE CreateAddsMember(s)
  <2>1. PICK c \in creating[s] :
          /\ creating' = [creating EXCEPT ![s] = @ \ {c}]
          /\ ReadMember("create", s, c[1], c[2])
    BY <1>2 DEF CreateAddsMember
  <2>2. c[1] \in NodeIds /\ c[2] \in Paths
    BY <2>1 DEF TypeOK
  <2>3. setting' \subseteq Setting /\ creating' \in [SyncIds -> SUBSET (NodeIds \X Paths)]
    BY <2>1, <2>2 DEF ReadMember, Setting, TypeOK, Pairs
  <2> QED
    BY <1>2, <2>3 DEF CreateAddsMember, TypeOK, store, Existing
<1>3. ASSUME NEW n \in NodeIds, NEW p \in Paths, HandleSetSyncMember(s, n, p)
      PROVE  TypeOK'
  <2>1. setting' \subseteq Setting /\ edits' \in Nat
    BY <1>3 DEF HandleSetSyncMember, Edit, ReadMember, Setting, TypeOK, Pairs
  <2> QED
    BY <1>3, <2>1 DEF HandleSetSyncMember, TypeOK, store, Existing
<1>4. ASSUME NEW n \in NodeIds, DeleteSyncMember(s, n)
      PROVE  TypeOK'
  <2>1. /\ member' \in [Pairs -> Paths \cup {None}] /\ row' \in [Pairs -> Files \cup {None}]
        /\ \A x \in Pairs : member'[x] \in {member[x], None} /\ row'[x] \in {row[x], None}
        /\ raced' \subseteq Pairs /\ edits' \in Nat
    BY <1>4 DEF DeleteSyncMember, Edit, Edited, TypeOK, Pairs
  <2> QED
    BY <1>4, <2>1 DEF DeleteSyncMember, TypeOK, requests, Existing
<1>5. CASE DeleteAsked(s)
  BY <1>5 DEF DeleteAsked, Edit, TypeOK, store, Existing
<1>6. CASE DeleteSync(s)
  <2>1. /\ member' \in [Pairs -> Paths \cup {None}] /\ row' \in [Pairs -> Files \cup {None}]
        /\ raced' \subseteq Pairs /\ syncs' = syncs \ {s}
    BY <1>6 DEF DeleteSync, Edited, TypeOK, Pairs
  <2>2. \A x \in Pairs : member'[x] # None \/ row'[x] # None \/ x \in archived'
                           => x[1] \in syncs' /\ x[2] \in Existing
    BY <1>6 DEF DeleteSync, Edited, TypeOK, Pairs
  <2>3. /\ archived' \subseteq Pairs /\ conflicted' \subseteq syncs' /\ synced' \subseteq syncs'
        /\ deleting' \subseteq SyncIds
        /\ UNCHANGED <<nodes, pass, creating, setting, edits, used, haunted, passes>>
    BY <1>6 DEF DeleteSync, TypeOK
  <2> QED
    BY <2>1, <2>2, <2>3 DEF TypeOK, Existing
<1> QED
  BY <1>1, <1>2, <1>3, <1>4, <1>5, <1>6 DEF Admin

(* Nodes are created, edited and deleted. *)
LEMMA TypeNode ==
  ASSUME TypeOK, NEW n \in NodeIds,
         DeleteNode(n) \/ \E root \in Roots : CreateNode(n, root) \/ UpdateNode(n, root)
  PROVE  TypeOK'
<1>1. CASE DeleteNode(n)
  <2>1. /\ member' \in [Pairs -> Paths \cup {None}] /\ row' \in [Pairs -> Files \cup {None}]
        /\ nodes' \in [NodeIds -> Roots \cup {None}] /\ archived' \subseteq Pairs
        /\ raced' \subseteq Pairs /\ edits' \in Nat
    BY <1>1 DEF DeleteNode, Edit, TypeOK, Pairs
  <2>2. \A x \in Pairs : member'[x] # None \/ row'[x] # None \/ x \in archived'
                           => x[1] \in syncs /\ x[2] \in Existing'
    BY <1>1 DEF DeleteNode, TypeOK, Pairs, Existing
  <2> QED
    BY <1>1, <2>1, <2>2 DEF DeleteNode, TypeOK, requests
<1>2. ASSUME NEW root \in Roots, CreateNode(n, root) \/ UpdateNode(n, root)
      PROVE  TypeOK'
  <2>1. /\ nodes' = [nodes EXCEPT ![n] = root] /\ nodes' \in [NodeIds -> Roots \cup {None}]
        /\ edits' \in Nat /\ raced' \subseteq Pairs
    BY <1>2 DEF CreateNode, UpdateNode, Edit, TypeOK
  <2>2. Existing \subseteq Existing'
    BY <2>1, RegistryAssumption DEF Existing, TypeOK
  <2> QED
    BY <1>2, <2>1, <2>2 DEF CreateNode, UpdateNode, TypeOK, requests
<1> QED
  BY <1>1, <1>2

LEMMA TypeInit ==
  ASSUME Init
  PROVE  TypeOK
BY DEF Init, TypeOK

LEMMA TypeStep ==
  ASSUME TypeOK, [Next]_vars
  PROVE  TypeOK'
<1>1. CASE UNCHANGED vars
  BY <1>1 DEF vars, store, requests, TypeOK, Existing
<1>2. ASSUME NEW s \in SyncIds, Engine(s)
      PROVE  TypeOK'
  <2>1. CASE StartPoll(s) \/ \E n \in NodeIds : StartResolve(s, n) \/ StartRestore(s, n)
    BY <2>1, TypeStart DEF StartPoll, StartResolve, StartRestore, Kinds
  <2>2. CASE LoadMembers(s) \/ Return(s) \/ \E C \in SUBSET NodeIds : Propagate(s, C)
    BY <2>2, TypeLoad, TypeReturn, TypePropagate
  <2>3. CASE Touch(s) \/ Record(s) \/ RecordOwn(s)
    BY <2>3, TypeRecords
  <2>4. CASE Flag(s) \/ Mark(s) \/ Clear(s)
             \/ \E n \in NodeIds, present \in BOOLEAN : Write(s, n, present)
    BY <2>4, TypeMarks
  <2> QED
    BY <1>2, <2>1, <2>2, <2>3, <2>4 DEF Engine
<1> QED
  BY <1>1, <1>2, TypeAdmin, TypeSet, TypeNode DEF Next

(* Types and foreign keys: whatever passes and requests in flight still write,
   nothing refers to a sync or a node that has gone. *)
THEOREM TypeCorrect == Spec => []TypeOK
<1>1. Init => TypeOK
  BY TypeInit
<1>2. TypeOK /\ [Next]_vars => TypeOK'
  BY TypeStep
<1> QED
  BY <1>1, <1>2, PTL DEF Spec

-----------------------------------------------------------------------------
(* A file is in one sync *)

(* Members of other pairs than one that may be set only go. *)
LEMMA OneSyncStep ==
  ASSUME TypeOK, OneSyncPerFile, [Next]_vars
  PROVE  OneSyncPerFile'
<1>1. ASSUME \A x \in Pairs : member'[x] \in {member[x], None}
      PROVE  OneSyncPerFile'
  BY <1>1 DEF OneSyncPerFile, Pairs
<1>2. ASSUME NEW x \in setting, SetSyncMember(x)
      PROVE  OneSyncPerFile'
  <2>1. x \in Setting /\ <<x.sync, x.node>> \in Pairs
    BY DEF TypeOK, Setting, Pairs
  <2>2. \A t \in SyncIds \ {x.sync} : member[<<t, x.node>>] # x.path
    BY <1>2 DEF SetSyncMember, CanSet, Taken
  <2>3. /\ member'[<<x.sync, x.node>>] = x.path
        /\ \A y \in Pairs : y # <<x.sync, x.node>> => member'[y] = member[y]
    BY <1>2, <2>1 DEF SetSyncMember, TypeOK
  <2>4. ASSUME NEW s \in SyncIds, NEW t \in SyncIds, NEW n \in NodeIds, s # t,
               member'[<<s, n>>] # None
        PROVE  member'[<<s, n>>] # member'[<<t, n>>]
    <3>1. <<s, n>> \in Pairs /\ <<t, n>> \in Pairs
      BY DEF Pairs
    <3>2. CASE n # x.node
      BY <2>3, <2>4, <3>1, <3>2 DEF OneSyncPerFile
    <3>3. CASE n = x.node /\ s = x.sync
      BY <2>2, <2>3, <2>4, <3>1, <3>3
    <3>4. CASE n = x.node /\ t = x.sync
      BY <2>2, <2>3, <2>4, <3>1, <3>4
    <3>5. CASE s # x.sync /\ t # x.sync
      BY <2>3, <2>4, <3>1, <3>5 DEF OneSyncPerFile
    <3> QED
      BY <3>2, <3>3, <3>4, <3>5
  <2> QED
    BY <2>4 DEF OneSyncPerFile
<1>3. ASSUME NEW s \in SyncIds, Admin(s)
      PROVE  \A x \in Pairs : member'[x] \in {member[x], None}
  BY <1>3 DEF Admin, CreateSync, CreateAddsMember, HandleSetSyncMember, DeleteSyncMember,
              DeleteAsked, DeleteSync, store, TypeOK
<1>4. ASSUME NEW s \in SyncIds, Engine(s)
      PROVE  member' = member
  BY <1>4 DEF Engine, StartPoll, StartResolve, StartRestore, Start, LoadMembers, Touch, Flag,
              Propagate, Write, Record, RecordOwn, Mark, Clear, Return, Quiet, store
<1>5. ASSUME NEW n \in NodeIds,
             DeleteNode(n) \/ \E root \in Roots : CreateNode(n, root) \/ UpdateNode(n, root)
      PROVE  \A x \in Pairs : member'[x] \in {member[x], None}
  BY <1>5 DEF DeleteNode, CreateNode, UpdateNode
<1>6. ASSUME NEW x \in setting, SetFails(x)
      PROVE  member' = member
  BY <1>6 DEF SetFails, store
<1>7. CASE UNCHANGED vars
  BY <1>1, <1>7 DEF vars, store
<1> QED
  BY <1>1, <1>2, <1>3, <1>4, <1>5, <1>6, <1>7 DEF Next

(* UNIQUE (node_id, path): whatever requests overlap, and although a sync's
   members are added one by one, no file is in two syncs. *)
THEOREM OneSyncPerFileHolds == Spec => []OneSyncPerFile
<1>1. Init => TypeOK /\ OneSyncPerFile
  BY TypeInit DEF Init, OneSyncPerFile, Pairs
<1>2. TypeOK /\ OneSyncPerFile /\ [Next]_vars => (TypeOK /\ OneSyncPerFile)'
  BY TypeStep, OneSyncStep
<1> QED
  BY <1>1, <1>2, PTL DEF Spec

-----------------------------------------------------------------------------
(* Entries follow their members *)

(* What a pass has read of a member is what the member is, unless it was edited
   since. *)
ScopesFollow ==
  \A s \in SyncIds, n \in NodeIds :
    Reading(s) /\ <<s, n>> \notin raced => pass[s].scope[n] = FileOf(s, n)

RowInv == RowsFollowMembers /\ ScopesFollow

(* Steps that change neither members nor entries nor what a pass has read. *)
LEMMA RowFrame ==
  ASSUME TypeOK, RowInv, UNCHANGED <<nodes, member, row, raced>>,
         \A s \in SyncIds : pass'[s] # None /\ pass'[s].pc # "members" =>
                              Reading(s) /\ pass'[s].scope = pass[s].scope
  PROVE  RowInv'
<1>1. \A s \in SyncIds, n \in NodeIds : FileOf(s, n)' = FileOf(s, n)
  BY DEF FileOf
<1>2. RowsFollowMembers'
  BY <1>1 DEF RowInv, RowsFollowMembers, Pairs
<1>3. ScopesFollow'
  BY <1>1 DEF RowInv, ScopesFollow, Reading, InFlight
<1> QED
  BY <1>2, <1>3 DEF RowInv

(* An entry is recorded of what the pass has read. *)
LEMMA RowSetManifest ==
  ASSUME TypeOK, RowInv, NEW s \in SyncIds, Reading(s), NEW n \in NodeIds,
         SetManifest(s, n), UNCHANGED <<nodes, member>>,
         \A t \in SyncIds : pass'[t] # None /\ pass'[t].pc # "members" =>
                              Reading(t) /\ pass'[t].scope = pass[t].scope
  PROVE  RowInv'
<1>1. \A t \in SyncIds, k \in NodeIds : FileOf(t, k)' = FileOf(t, k)
  BY DEF FileOf
<1>2. <<s, n>> \in Pairs
  BY DEF Pairs
<1>3. /\ row'[<<s, n>>] = pass[s].scope[n]
      /\ \A x \in Pairs : x # <<s, n>> => row'[x] = row[x]
  BY <1>2 DEF SetManifest, TypeOK
<1>4. /\ \A x \in Pairs : x # <<s, n>> => (x \in raced' <=> x \in raced)
      /\ <<s, n>> \notin raced' => FileOf(s, n) = pass[s].scope[n]
  BY DEF SetManifest, RowInv, ScopesFollow
<1>5. RowsFollowMembers'
  <2> SUFFICES ASSUME NEW x \in Pairs, x \notin raced'
               PROVE  row'[x] \in {None, FileOf(x[1], x[2])'}
    BY DEF RowsFollowMembers
  <2>1. x[1] \in SyncIds /\ x[2] \in NodeIds /\ x = <<x[1], x[2]>>
    BY DEF Pairs
  <2>2. CASE x = <<s, n>>
    BY <1>1, <1>3, <1>4, <2>1, <2>2
  <2>3. CASE x # <<s, n>>
    BY <1>1, <1>3, <1>4, <2>1, <2>3 DEF RowInv, RowsFollowMembers
  <2> QED
    BY <2>2, <2>3
<1>6. ScopesFollow'
  <2> SUFFICES ASSUME NEW t \in SyncIds, NEW k \in NodeIds, Reading(t)', <<t, k>> \notin raced'
               PROVE  pass'[t].scope[k] = FileOf(t, k)'
    BY DEF ScopesFollow
  <2>1. Reading(t) /\ pass'[t].scope = pass[t].scope /\ <<t, k>> \in Pairs
    BY DEF Reading, InFlight, Pairs
  <2>2. CASE <<t, k>> = <<s, n>>
    BY <1>1, <1>4, <2>1, <2>2
  <2>3. CASE <<t, k>> # <<s, n>>
    BY <1>1, <1>4, <2>1, <2>3 DEF RowInv, ScopesFollow
  <2> QED
    BY <2>2, <2>3
<1> QED
  BY <1>5, <1>6 DEF RowInv

(* The engine's passes. *)
LEMMA RowEngine ==
  ASSUME TypeOK, RowInv, NEW s \in SyncIds, Engine(s)
  PROVE  RowInv'
<1>1. ASSUME NEW kind \in Kinds, NEW n \in NodeIds \cup {None}, Start(s, kind, n)
      PROVE  RowInv'
  <2>1. /\ UNCHANGED <<nodes, member, row, raced>> /\ pass'[s].pc = "members"
        /\ \A t \in SyncIds : t # s => pass'[t] = pass[t]
    BY <1>1 DEF Start, store, TypeOK
  <2> QED
    BY <2>1, RowFrame DEF Reading, InFlight
<1>2. CASE LoadMembers(s)
  <2>1. UNCHANGED <<nodes, member, row, raced>>
    BY <1>2 DEF LoadMembers, Quiet, store
  <2>2. \A t \in SyncIds, n \in NodeIds : FileOf(t, n)' = FileOf(t, n)
    BY <2>1 DEF FileOf
  <2> DEFINE scope == [n \in NodeIds |-> FileOf(s, n)]
  <2>5. /\ pass'[s] = None \/ pass'[s].scope = scope
        /\ \A t \in SyncIds : t # s => pass'[t] = pass[t]
    BY <1>2, Loads DEF TypeOK
  <2>6. RowsFollowMembers'
    BY <2>1, <2>2 DEF RowInv, RowsFollowMembers, Pairs
  <2>7. ScopesFollow'
    <3> SUFFICES ASSUME NEW t \in SyncIds, NEW n \in NodeIds, Reading(t)',
                        <<t, n>> \notin raced'
                 PROVE  pass'[t].scope[n] = FileOf(t, n)'
      BY DEF ScopesFollow
    <3>1. CASE t = s
      BY <2>2, <2>5, <3>1 DEF Reading, InFlight
    <3>2. CASE t # s
      BY <2>1, <2>2, <2>5, <3>2 DEF Reading, InFlight, RowInv, ScopesFollow
    <3> QED
      BY <3>1, <3>2
  <2> QED
    BY <2>6, <2>7 DEF RowInv
<1>3. CASE Return(s) \/ Flag(s) \/ Mark(s) \/ Clear(s)
           \/ \E C \in SUBSET NodeIds : Propagate(s, C)
           \/ \E n \in NodeIds, present \in BOOLEAN : Write(s, n, present)
  <2>1. InFlight(s) /\ pass[s] \in Pass
    BY <1>3 DEF Return, Flag, Mark, Clear, Propagate, Write, InFlight, TypeOK
  <2>2. /\ UNCHANGED <<nodes, member, row, raced>>
        /\ \A t \in SyncIds : t # s => pass'[t] = pass[t]
    BY <1>3 DEF Return, Flag, Mark, Clear, Propagate, Write, Ended, Quiet, store, TypeOK
  <2>3. pass'[s] = None \/ (Reading(s) /\ pass'[s].scope = pass[s].scope)
    <3>1. CASE Return(s) \/ Flag(s) \/ Clear(s)
      BY <3>1 DEF Return, Flag, Clear, Ended, TypeOK
    <3>2. CASE Mark(s)
      BY <2>1, <3>2 DEF Mark, Ended, Reading, Pass, TypeOK
    <3>3. CASE \E C \in SUBSET NodeIds : Propagate(s, C)
      BY <2>1, <3>3 DEF Propagate, Reading, Pass, TypeOK
    <3>4. CASE \E n \in NodeIds, present \in BOOLEAN : Write(s, n, present)
      BY <2>1, <3>4 DEF Write, Reading, Pass, TypeOK
    <3> QED
      BY <1>3, <3>1, <3>2, <3>3, <3>4
  <2> QED
    BY <2>2, <2>3, RowFrame DEF Reading, InFlight
<1>4. CASE Touch(s) \/ Record(s) \/ RecordOwn(s)
  <2>1. Reading(s) /\ pass[s] \in Pass
    BY <1>4 DEF Touch, Record, RecordOwn, Reading, InFlight, TypeOK
  <2>2. \E n \in NodeIds : SetManifest(s, n)
    BY <1>4, <2>1 DEF Touch, Record, RecordOwn, CanRecord, Existing
  <2>3. /\ UNCHANGED <<nodes, member>> /\ pass'[s].scope = pass[s].scope
        /\ \A t \in SyncIds : t # s => pass'[t] = pass[t]
    BY <1>4, <2>1 DEF Touch, Record, RecordOwn, TypeOK, Pass
  <2> QED
    BY <2>1, <2>2, <2>3, RowSetManifest DEF Reading, InFlight
<1> QED
  BY <1>1, <1>2, <1>3, <1>4
     DEF Engine, StartPoll, StartResolve, StartRestore, Kinds

(* A member is added or repointed. *)
LEMMA RowSet ==
  ASSUME TypeOK, RowInv, NEW x \in setting, SetSyncMember(x)
  PROVE  RowInv'
<1> DEFINE pair == <<x.sync, x.node>>
<1>1. x \in Setting /\ pair \in Pairs
  BY DEF TypeOK, Setting, Pairs
<1>2. /\ Cleared(x) \in {{}, {pair}}
      /\ pair \notin Cleared(x) => x.old \in {None, x.path}
  BY DEF Cleared
<1>3. /\ UNCHANGED <<nodes, pass>>
      /\ member'[pair] = x.path
      /\ \A y \in Pairs \ {pair} : member'[y] = member[y]
      /\ row'[pair] = IF Cleared(x) = {} THEN row[pair] ELSE None
      /\ \A y \in Pairs \ {pair} : row'[y] = row[y] /\ (y \in raced' <=> y \in raced)
  BY <1>1, <1>2 DEF SetSyncMember, TypeOK
<1>4. Reading(x.sync) => pair \in raced'
  BY DEF SetSyncMember
<1>5. pair \notin raced' /\ Cleared(x) = {} => pair \notin raced /\ x.old = member[pair]
  BY DEF SetSyncMember, Overtaken
<1>6. \A s \in SyncIds, n \in NodeIds : <<s, n>> # pair => FileOf(s, n)' = FileOf(s, n)
  BY <1>3 DEF FileOf, Pairs
<1>7. RowsFollowMembers'
  <2> SUFFICES ASSUME NEW y \in Pairs, y \notin raced'
               PROVE  row'[y] \in {None, FileOf(y[1], y[2])'}
    BY DEF RowsFollowMembers
  <2>1. y[1] \in SyncIds /\ y[2] \in NodeIds /\ y = <<y[1], y[2]>>
    BY DEF Pairs
  <2>2. CASE y # pair
    BY <1>3, <1>6, <2>1, <2>2 DEF RowInv, RowsFollowMembers
  <2>3. CASE y = pair /\ Cleared(x) # {}
    BY <1>3, <2>3
  <2>4. CASE y = pair /\ Cleared(x) = {}
    <3>1. row[pair] \in {None, FileOf(x.sync, x.node)} /\ member[pair] \in {None, x.path}
      BY <1>1, <1>2, <1>5, <2>4 DEF RowInv, RowsFollowMembers
    <3>2. CASE member[pair] = None
      BY <1>3, <2>4, <3>1, <3>2 DEF FileOf
    <3>3. CASE member[pair] = x.path
      <4>1. FileOf(x.sync, x.node)' = FileOf(x.sync, x.node)
        BY <1>3, <3>3 DEF FileOf
      <4> QED
        BY <1>3, <2>4, <3>1, <4>1
    <3> QED
      BY <3>1, <3>2, <3>3
  <2> QED
    BY <2>2, <2>3, <2>4
<1>8. ScopesFollow'
  <2> SUFFICES ASSUME NEW s \in SyncIds, NEW n \in NodeIds, Reading(s)', <<s, n>> \notin raced'
               PROVE  pass'[s].scope[n] = FileOf(s, n)'
    BY DEF ScopesFollow
  <2>1. Reading(s) /\ <<s, n>> \in Pairs
    BY <1>3 DEF Reading, InFlight, Pairs
  <2>2. <<s, n>> # pair
    BY <1>4, <2>1
  <2> QED
    BY <1>3, <1>6, <2>1, <2>2 DEF RowInv, ScopesFollow
<1> QED
  BY <1>7, <1>8 DEF RowInv

(* Edits that remove members and entries, behind a pass or not. *)
LEMMA RowEdited ==
  ASSUME TypeOK, RowInv, NEW s \in SyncIds, UNCHANGED <<nodes, pass>>,
         NEW D \in SUBSET NodeIds,
         \A n \in NodeIds \ D : /\ member'[<<s, n>>] = member[<<s, n>>]
                                /\ row'[<<s, n>>] = row[<<s, n>>]
                                /\ <<s, n>> \in raced' <=> <<s, n>> \in raced,
         \A n \in D : row'[<<s, n>>] = None /\ (Reading(s) => <<s, n>> \in raced'),
         \A t \in SyncIds \ {s}, n \in NodeIds :
           /\ member'[<<t, n>>] = member[<<t, n>>] /\ row'[<<t, n>>] = row[<<t, n>>]
           /\ <<t, n>> \in raced' <=> <<t, n>> \in raced
  PROVE  RowInv'
<1>1. RowsFollowMembers'
  <2> SUFFICES ASSUME NEW x \in Pairs, x \notin raced'
               PROVE  row'[x] \in {None, FileOf(x[1], x[2])'}
    BY DEF RowsFollowMembers
  <2>1. x[1] \in SyncIds /\ x[2] \in NodeIds /\ x = <<x[1], x[2]>>
    BY DEF Pairs
  <2>2. CASE x[1] = s /\ x[2] \in D
    BY <2>1, <2>2
  <2>3. CASE ~(x[1] = s /\ x[2] \in D)
    <3>1. row'[x] = row[x] /\ member'[x] = member[x] /\ x \notin raced
      BY <2>1, <2>3
    <3>2. FileOf(x[1], x[2])' = FileOf(x[1], x[2])
      BY <2>1, <3>1 DEF FileOf
    <3> QED
      BY <3>1, <3>2 DEF RowInv, RowsFollowMembers
  <2> QED
    BY <2>2, <2>3
<1>2. ScopesFollow'
  <2> SUFFICES ASSUME NEW t \in SyncIds, NEW n \in NodeIds, Reading(t)', <<t, n>> \notin raced'
               PROVE  pass'[t].scope[n] = FileOf(t, n)'
    BY DEF ScopesFollow
  <2>1. Reading(t) /\ ~(t = s /\ n \in D)
    BY DEF Reading, InFlight
  <2>2. <<t, n>> \notin raced /\ FileOf(t, n)' = FileOf(t, n)
    BY <2>1 DEF FileOf
  <2> QED
    BY <2>1, <2>2 DEF RowInv, ScopesFollow
<1> QED
  BY <1>1, <1>2 DEF RowInv

(* Requests of administrators on a sync. *)
LEMMA RowAdmin ==
  ASSUME TypeOK, RowInv, NEW s \in SyncIds, Admin(s)
  PROVE  RowInv'
<1> USE DEF Pairs
<1>1. ASSUME NEW M \in SUBSET (NodeIds \X Paths), CreateSync(s, M)
      PROVE  RowInv'
  <2>1. /\ UNCHANGED <<nodes, pass, member>> /\ row' = row
        /\ raced' = raced \cup (IF Reading(s) THEN {s} \X NodeIds ELSE {})
    BY <1>1 DEF CreateSync, Edited, TypeOK
  <2>2. \A n \in NodeIds : row[<<s, n>>] = None
    BY <1>1 DEF CreateSync, TypeOK
  <2> QED
    BY <2>1, <2>2, RowEdited
<1>2. CASE \/ CreateAddsMember(s) \/ DeleteAsked(s)
           \/ \E n \in NodeIds, p \in Paths : HandleSetSyncMember(s, n, p)
  <2>1. UNCHANGED <<nodes, member, row, raced, pass>>
    BY <1>2 DEF CreateAddsMember, DeleteAsked, HandleSetSyncMember, store
  <2> QED
    BY <2>1, RowFrame DEF Reading, InFlight
<1>3. ASSUME NEW n \in NodeIds, DeleteSyncMember(s, n)
      PROVE  RowInv'
  <2>1. /\ UNCHANGED <<nodes, pass>>
        /\ \A x \in Pairs \ {<<s, n>>} : /\ member'[x] = member[x] /\ row'[x] = row[x]
                                         /\ x \in raced' <=> x \in raced
        /\ row'[<<s, n>>] = None
        /\ Reading(s) => <<s, n>> \in raced'
    BY <1>3 DEF DeleteSyncMember, Edited, TypeOK
  <2>2. /\ \A k \in NodeIds \ {n} : <<s, k>> \in Pairs \ {<<s, n>>}
        /\ \A t \in SyncIds \ {s}, k \in NodeIds : <<t, k>> \in Pairs \ {<<s, n>>}
    OBVIOUS
  <2>3. /\ \A k \in NodeIds \ {n} : /\ member'[<<s, k>>] = member[<<s, k>>]
                                    /\ row'[<<s, k>>] = row[<<s, k>>]
                                    /\ <<s, k>> \in raced' <=> <<s, k>> \in raced
        /\ \A t \in SyncIds \ {s}, k \in NodeIds :
             /\ member'[<<t, k>>] = member[<<t, k>>] /\ row'[<<t, k>>] = row[<<t, k>>]
             /\ <<t, k>> \in raced' <=> <<t, k>> \in raced
    BY <2>1, <2>2
  <2>4. {n} \in SUBSET NodeIds
    OBVIOUS
  <2>5. \A k \in {n} : row'[<<s, k>>] = None /\ (Reading(s) => <<s, k>> \in raced')
    BY <2>1
  <2> HIDE DEF Pairs
  <2> QED
    BY <2>1, <2>3, <2>4, <2>5, RowEdited
<1>4. CASE DeleteSync(s)
  <2>1. /\ UNCHANGED <<nodes, pass>>
        /\ \A t \in SyncIds \ {s}, n \in NodeIds :
             /\ member'[<<t, n>>] = member[<<t, n>>] /\ row'[<<t, n>>] = row[<<t, n>>]
             /\ <<t, n>> \in raced' <=> <<t, n>> \in raced
        /\ \A n \in NodeIds : row'[<<s, n>>] = None /\ (Reading(s) => <<s, n>> \in raced')
    BY <1>4 DEF DeleteSync, Edited, TypeOK
  <2> QED
    BY <2>1, RowEdited
<1> QED
  BY <1>1, <1>2, <1>3, <1>4 DEF Admin

(* Nodes: their root is where their members' files are. *)
LEMMA RowNode ==
  ASSUME TypeOK, RowInv, NEW n \in NodeIds,
         DeleteNode(n) \/ \E root \in Roots : CreateNode(n, root) \/ UpdateNode(n, root)
  PROVE  RowInv'
<1>1. /\ \A k \in NodeIds \ {n} : nodes'[k] = nodes[k]
      /\ pass' = pass
  BY DEF DeleteNode, CreateNode, UpdateNode, TypeOK
<1>2. \A x \in Pairs : x[2] # n => /\ member'[x] = member[x] /\ row'[x] = row[x]
                                   /\ x \in raced' <=> x \in raced
  BY DEF DeleteNode, CreateNode, UpdateNode, TypeOK, Pairs
<1>3. \A s \in SyncIds, k \in NodeIds \ {n} : FileOf(s, k)' = FileOf(s, k)
  BY <1>1, <1>2 DEF FileOf, Pairs
<1>4. \A s \in SyncIds :
        \/ <<s, n>> \in raced'
        \/ row'[<<s, n>>] = None /\ ~Reading(s)
        \/ /\ row'[<<s, n>>] = row[<<s, n>>] /\ <<s, n>> \notin raced
           /\ FileOf(s, n)' = FileOf(s, n)
  <2> SUFFICES ASSUME NEW s \in SyncIds
               PROVE  \/ <<s, n>> \in raced'
                      \/ row'[<<s, n>>] = None /\ ~Reading(s)
                      \/ /\ row'[<<s, n>>] = row[<<s, n>>] /\ <<s, n>> \notin raced
                         /\ FileOf(s, n)' = FileOf(s, n)
    OBVIOUS
  <2>1. <<s, n>> \in Pairs
    BY DEF Pairs
  <2>2. CASE DeleteNode(n)
    BY <2>1, <2>2 DEF DeleteNode
  <2>3. ASSUME NEW root \in Roots, CreateNode(n, root)
        PROVE  row' = row /\ raced' = raced /\ FileOf(s, n)' = FileOf(s, n)
    BY <2>1, <2>3 DEF CreateNode, FileOf, TypeOK, Existing
  <2>4. ASSUME NEW root \in Roots, UpdateNode(n, root)
        PROVE  <<s, n>> \in raced' \/ (row'[<<s, n>>] = None /\ ~Reading(s))
    BY <2>1, <2>4 DEF UpdateNode
  <2> QED
    BY <2>2, <2>3, <2>4
<1>5. RowsFollowMembers'
  <2> SUFFICES ASSUME NEW x \in Pairs, x \notin raced'
               PROVE  row'[x] \in {None, FileOf(x[1], x[2])'}
    BY DEF RowsFollowMembers
  <2>1. x[1] \in SyncIds /\ x[2] \in NodeIds /\ x = <<x[1], x[2]>>
    BY DEF Pairs
  <2>2. CASE x[2] # n
    BY <1>2, <1>3, <2>1, <2>2 DEF RowInv, RowsFollowMembers
  <2>3. CASE x[2] = n
    BY <1>4, <2>1, <2>3 DEF RowInv, RowsFollowMembers
  <2> QED
    BY <2>2, <2>3
<1>6. ScopesFollow'
  <2> SUFFICES ASSUME NEW s \in SyncIds, NEW k \in NodeIds, Reading(s)', <<s, k>> \notin raced'
               PROVE  pass'[s].scope[k] = FileOf(s, k)'
    BY DEF ScopesFollow
  <2>1. Reading(s) /\ <<s, k>> \in Pairs /\ <<s, k>>[2] = k
    BY <1>1 DEF Reading, InFlight, Pairs
  <2>2. CASE k # n
    BY <1>1, <1>2, <1>3, <2>1, <2>2 DEF RowInv, ScopesFollow
  <2>3. CASE k = n
    BY <1>1, <1>4, <2>1, <2>3 DEF RowInv, ScopesFollow
  <2> QED
    BY <2>2, <2>3
<1> QED
  BY <1>5, <1>6 DEF RowInv

LEMMA RowStep ==
  ASSUME TypeOK, RowInv, [Next]_vars
  PROVE  RowInv'
<1>1. CASE UNCHANGED vars
  BY <1>1, RowFrame DEF vars, store, Reading, InFlight
<1>2. ASSUME NEW x \in setting, SetFails(x)
      PROVE  RowInv'
  BY <1>2, RowFrame DEF SetFails, store, Reading, InFlight
<1> QED
  BY <1>1, <1>2, RowEngine, RowAdmin, RowSet, RowNode DEF Next

(* Unless an edit fell into a pass or a transaction, or gave its node another
   root, an entry describes the file its member has now: a repointed or
   re-added member appears fresh. *)
THEOREM RowsFollowMembersHolds == Spec => []RowsFollowMembers
<1>1. Init => TypeOK /\ RowInv
  BY TypeInit DEF Init, RowInv, RowsFollowMembers, ScopesFollow, Reading, InFlight
<1>2. TypeOK /\ RowInv /\ [Next]_vars => (TypeOK /\ RowInv)'
  BY TypeStep, RowStep
<1>3. RowInv => RowsFollowMembers
  BY DEF RowInv
<1> QED
  BY <1>1, <1>2, <1>3, PTL DEF Spec

-----------------------------------------------------------------------------
(* An id created again starts anew *)

(* A sync that a pass runs on, its own or a deleted one's, is excepted. *)
PassesCounted == \A s \in syncs : InFlight(s) => s \in used \cup haunted

FreshInv == FreshStart /\ PassesCounted

(* A step of the pass on s touches what is that sync's only. *)
LEMMA FreshPass ==
  ASSUME TypeOK, FreshInv, NEW s \in SyncIds, InFlight(s),
         UNCHANGED <<syncs, used, haunted>>,
         \A t \in SyncIds \ {s} :
           /\ pass'[t] = pass[t]
           /\ t \in conflicted' <=> t \in conflicted
           /\ t \in synced' <=> t \in synced
           /\ \A n \in NodeIds : /\ row'[<<t, n>>] = row[<<t, n>>]
                                 /\ <<t, n>> \in archived' <=> <<t, n>> \in archived
  PROVE  FreshInv'
<1>1. s \in syncs => s \in used \cup haunted
  BY DEF FreshInv, PassesCounted
<1>2. syncs \subseteq SyncIds
  BY DEF TypeOK
<1>3. FreshStart'
  BY <1>1, <1>2 DEF FreshInv, FreshStart
<1>4. PassesCounted'
  BY <1>1, <1>2 DEF FreshInv, PassesCounted, InFlight
<1> QED
  BY <1>3, <1>4 DEF FreshInv

(* Rows, versions and marks only go. *)
LEMMA FreshShrinks ==
  ASSUME TypeOK, FreshInv, UNCHANGED <<pass, used, haunted>>,
         syncs' \subseteq syncs, archived' \subseteq archived,
         conflicted' \subseteq conflicted, synced' \subseteq synced,
         \A x \in Pairs : row'[x] \in {row[x], None}
  PROVE  FreshInv'
<1>1. \A s \in syncs, n \in NodeIds : <<s, n>> \in Pairs
  BY DEF TypeOK, Pairs
<1>2. FreshStart'
  BY <1>1 DEF FreshInv, FreshStart
<1>3. PassesCounted'
  BY DEF FreshInv, PassesCounted, InFlight
<1> QED
  BY <1>2, <1>3 DEF FreshInv

LEMMA FreshEngine ==
  ASSUME TypeOK, FreshInv, NEW s \in SyncIds, Engine(s)
  PROVE  FreshInv'
<1>1. ASSUME NEW kind \in Kinds, NEW n \in NodeIds \cup {None}, Start(s, kind, n)
      PROVE  FreshInv'
  <2>1. /\ UNCHANGED <<store, haunted>> /\ used' = used \cup {s}
        /\ \A t \in SyncIds \ {s} : pass'[t] = pass[t]
    BY <1>1 DEF Start, TypeOK
  <2>2. FreshStart'
    BY <2>1 DEF FreshInv, FreshStart, store
  <2>3. PassesCounted'
    BY <2>1 DEF FreshInv, PassesCounted, InFlight, store, TypeOK
  <2> QED
    BY <2>2, <2>3 DEF FreshInv
<1>2. CASE LoadMembers(s) \/ Return(s) \/ \E C \in SUBSET NodeIds : Propagate(s, C)
  <2>1. /\ InFlight(s) /\ UNCHANGED <<store, used, haunted>>
        /\ \A t \in SyncIds \ {s} : pass'[t] = pass[t]
    <3>1. CASE LoadMembers(s)
      BY <3>1, Loads DEF LoadMembers, Quiet, TypeOK
    <3>2. CASE Return(s) \/ \E C \in SUBSET NodeIds : Propagate(s, C)
      BY <3>2 DEF Return, Propagate, Ended, Quiet, TypeOK
    <3> QED
      BY <1>2, <3>1, <3>2
  <2> QED
    BY <2>1, FreshPass DEF store
<1>3. CASE Touch(s) \/ Record(s) \/ RecordOwn(s)
  <2>1. InFlight(s) /\ UNCHANGED <<syncs, archived, conflicted, synced, used, haunted>>
    BY <1>3 DEF Touch, Record, RecordOwn
  <2>2. \A t \in SyncIds \ {s} : pass'[t] = pass[t]
    BY <1>3 DEF Touch, Record, RecordOwn, TypeOK
  <2>3. \E n : SetManifest(s, n)
    BY <1>3 DEF Touch, Record, RecordOwn
  <2>4. \A t \in SyncIds \ {s}, n \in NodeIds : row'[<<t, n>>] = row[<<t, n>>]
    BY <2>3 DEF SetManifest, TypeOK, Pairs
  <2> QED
    BY <2>1, <2>2, <2>4, FreshPass
<1>4. CASE Flag(s) \/ Mark(s) \/ Clear(s)
  <2>1. /\ InFlight(s) /\ UNCHANGED <<syncs, row, archived, used, haunted>>
        /\ conflicted' \in {conflicted, conflicted \cup {s}, conflicted \ {s}}
        /\ synced' \in {synced, synced \cup {s}}
    BY <1>4 DEF Flag, Mark, Clear
  <2>2. \A t \in SyncIds \ {s} : pass'[t] = pass[t]
    BY <1>4 DEF Flag, Mark, Clear, Ended, TypeOK
  <2> QED
    BY <2>1, <2>2, FreshPass
<1>5. ASSUME NEW n \in NodeIds, NEW present \in BOOLEAN, Write(s, n, present)
      PROVE  FreshInv'
  <2>1. /\ InFlight(s) /\ UNCHANGED <<syncs, row, conflicted, synced, used, haunted>>
        /\ archived' \in {archived, archived \cup {<<s, n>>}}
        /\ \A t \in SyncIds \ {s} : pass'[t] = pass[t]
    BY <1>5 DEF Write, TypeOK
  <2> QED
    BY <2>1, FreshPass
<1> QED
  BY <1>1, <1>2, <1>3, <1>4, <1>5
     DEF Engine, StartPoll, StartResolve, StartRestore, Kinds

LEMMA FreshAdmin ==
  ASSUME TypeOK, FreshInv, NEW s \in SyncIds, Admin(s)
  PROVE  FreshInv'
<1>1. ASSUME NEW M \in SUBSET (NodeIds \X Paths), CreateSync(s, M)
      PROVE  FreshInv'
  <2>1. /\ s \notin syncs /\ syncs' = syncs \cup {s} /\ row' = row
        /\ UNCHANGED <<archived, conflicted, synced, pass>>
        /\ used' = used \ {s}
        /\ haunted' = IF InFlight(s) THEN haunted \cup {s} ELSE haunted \ {s}
    BY <1>1 DEF CreateSync, Edited, TypeOK
  <2>2. /\ s \notin conflicted \cup synced
        /\ \A n \in NodeIds : row[<<s, n>>] = None /\ <<s, n>> \notin archived
    BY <2>1 DEF TypeOK, Pairs
  <2>3. FreshStart'
    BY <2>1, <2>2 DEF FreshInv, FreshStart
  <2>4. PassesCounted'
    BY <2>1 DEF FreshInv, PassesCounted, InFlight
  <2> QED
    BY <2>3, <2>4 DEF FreshInv
<1>2. CASE \/ CreateAddsMember(s) \/ DeleteAsked(s)
           \/ \E n \in NodeIds, p \in Paths : HandleSetSyncMember(s, n, p)
  BY <1>2, FreshShrinks DEF CreateAddsMember, DeleteAsked, HandleSetSyncMember, store
<1>3. CASE DeleteSync(s) \/ \E n \in NodeIds : DeleteSyncMember(s, n)
  <2>1. \A x \in Pairs : row'[x] \in {row[x], None}
    BY <1>3 DEF DeleteSync, DeleteSyncMember, Edited
  <2> QED
    BY <1>3, <2>1, FreshShrinks DEF DeleteSync, DeleteSyncMember
<1> QED
  BY <1>1, <1>2, <1>3 DEF Admin

LEMMA FreshStep ==
  ASSUME TypeOK, FreshInv, [Next]_vars
  PROVE  FreshInv'
<1>1. CASE UNCHANGED vars
  BY <1>1, FreshShrinks DEF vars, store
<1>2. ASSUME NEW x \in setting, SetSyncMember(x) \/ SetFails(x)
      PROVE  FreshInv'
  BY <1>2, FreshShrinks DEF SetSyncMember, SetFails, store
<1>3. ASSUME NEW n \in NodeIds,
             DeleteNode(n) \/ \E root \in Roots : CreateNode(n, root) \/ UpdateNode(n, root)
      PROVE  FreshInv'
  BY <1>3, FreshShrinks DEF DeleteNode, CreateNode, UpdateNode
<1> QED
  BY <1>1, <1>2, <1>3, FreshEngine, FreshAdmin DEF Next

(* A sync created under the id of a deleted one has no conflict, no sync time,
   no entries and no versions before a pass of its own begins, unless a pass on
   the deleted one was still running. *)
THEOREM FreshStartHolds == Spec => []FreshStart
<1>1. Init => TypeOK /\ FreshInv
  BY TypeInit DEF Init, FreshInv, FreshStart, PassesCounted
<1>2. TypeOK /\ FreshInv /\ [Next]_vars => (TypeOK /\ FreshInv)'
  BY TypeStep, FreshStep
<1>3. FreshInv => FreshStart
  BY DEF FreshInv
<1> QED
  BY <1>1, <1>2, <1>3, PTL DEF Spec
=============================================================================
