------------------------- MODULE SaveVersionsProofs -------------------------
(***************************************************************************)
(* The version store, for any number of syncs, nodes, contents and rows:    *)
(* its types and foreign keys, the exactness of the blobs, that a seq never *)
(* comes to mean another capture, and that the tables keep a history for    *)
(* every member (Histories).                                                *)
(***************************************************************************)
EXTENDS SaveVersions, CapturesProofs, FiniteSetTheorems

(* A seq is given to one row, and never again. *)
SeqsUnique ==
  /\ \A v \in rows : v.seq < nextSeq
  /\ \A v, w \in rows : v.seq = w.seq => v = w

(* What a user was shown is, or was, that row. *)
ShownKnown ==
  shown # None => /\ shown.seq < nextSeq
                  /\ \A v \in rows : v.seq = shown.seq => v = shown

StoreInv == TypeOK /\ BlobsExact /\ SeqsUnique /\ ShownKnown /\ ShownIsRestored

(* Removing rows and collecting their blobs keeps the blobs exact. *)
LEMMA KeepExact ==
  ASSUME BlobsExact, NEW R, NEW h, Keep(R, h), Hashes(R) \subseteq Hashes(rows) \cup h
  PROVE  BlobsExact'
BY DEF BlobsExact, Keep, Hashes

(* The empty store satisfies the invariant. *)
LEMMA StoreInit ==
  ASSUME Init
  PROVE  StoreInv
BY DEF Init, StoreInv, TypeOK, BlobsExact, Hashes, SeqsUnique, ShownKnown,
       ShownIsRestored

(* An id is created. *)
LEMMA StoreCreate ==
  ASSUME StoreInv,
         (\E s \in SyncIds : CreateSync(s)) \/ (\E n \in NodeIds : CreateNode(n))
  PROVE  StoreInv'
<1> USE DEF StoreInv
<1>1. /\ syncs \subseteq syncs' /\ nodes \subseteq nodes'
      /\ syncs' \subseteq SyncIds /\ nodes' \subseteq NodeIds
      /\ UNCHANGED <<rows, blobs, nextSeq, shown, loaded>>
  BY DEF CreateSync, CreateNode, TypeOK
<1>2. TypeOK'
  BY <1>1 DEF TypeOK
<1> QED
  BY <1>1, <1>2 DEF BlobsExact, SeqsUnique, ShownKnown, ShownIsRestored

(* A capture, with its pruning and collection. *)
LEMMA StorePut ==
  ASSUME StoreInv, NEW s \in SyncIds, NEW n \in NodeIds, NEW h \in Contents,
         PutSaveVersion(s, n, h) \/ PutDuplicate(s, n, h)
  PROVE  StoreInv'
<1> USE DEF StoreInv
<1>1. CASE PutDuplicate(s, n, h)
  BY <1>1 DEF PutDuplicate, TypeOK, BlobsExact, SeqsUnique, ShownKnown, ShownIsRestored
<1>2. CASE PutSaveVersion(s, n, h)
  <2> DEFINE row == [seq |-> nextSeq, sync |-> s, node |-> n, hash |-> h]
             R   == Prune(rows \cup {row}, s, n)
  <2>1. /\ Keep(R, {h}) /\ nextSeq' = nextSeq + 1 /\ s \in syncs /\ n \in nodes
        /\ UNCHANGED <<syncs, nodes, shown, loaded>>
    BY <1>2 DEF PutSaveVersion, Put, AssignedSeq
  <2>2. R \subseteq rows \cup {row}
    BY DEF Prune
  <2>3. row \in [seq: Nat, sync: syncs, node: nodes, hash: Contents] /\ row.hash = h
    BY <2>1 DEF TypeOK
  <2>4. row.seq = nextSeq
    OBVIOUS
  <2> HIDE DEF row, R
  <2>5. rows' = R /\ rows' \subseteq rows \cup {row}
    BY <2>1, <2>2 DEF Keep
  <2>6. BlobsExact'
    <3>1. Hashes(R) \subseteq Hashes(rows) \cup {h}
      BY <2>2, <2>3 DEF Hashes
    <3> QED
      BY <2>1, <3>1, KeepExact
  <2>7. TypeOK'
    <3>1. Hashes(rows') \subseteq Contents
      BY <2>3, <2>5 DEF Hashes, TypeOK
    <3>2. blobs' \subseteq Contents
      BY <2>6, <3>1 DEF BlobsExact
    <3> QED
      BY <2>1, <2>3, <2>5, <3>2 DEF TypeOK
  <2>8. \A v \in rows : v.seq \in Nat /\ v.seq < nextSeq
    BY DEF TypeOK, SeqsUnique
  <2>9. SeqsUnique'
    BY <2>1, <2>4, <2>5, <2>8 DEF SeqsUnique, TypeOK
  <2>10. ShownKnown'
    BY <2>1, <2>4, <2>5 DEF ShownKnown, TypeOK, Row
  <2>11. ShownIsRestored'
    BY <2>1 DEF ShownIsRestored
  <2> QED
    BY <2>6, <2>7, <2>9, <2>10, <2>11
<1> QED
  BY <1>1, <1>2

(* A sync or a node goes, with its rows. *)
LEMMA StoreDelete ==
  ASSUME StoreInv,
         (\E s \in SyncIds : DeleteSync(s)) \/ (\E n \in NodeIds : DeleteNode(n))
  PROVE  StoreInv'
<1> USE DEF StoreInv
<1>1. PICK R \in SUBSET rows :
        /\ Keep(R, {})
        /\ R \subseteq [seq: Nat, sync: syncs', node: nodes', hash: Contents]
  <2>1. ASSUME NEW s \in SyncIds, DeleteSync(s)
        PROVE  \E R \in SUBSET rows :
                 /\ Keep(R, {})
                 /\ R \subseteq [seq: Nat, sync: syncs', node: nodes', hash: Contents]
    <3>1. {v \in rows : v.sync # s}
            \subseteq [seq: Nat, sync: syncs', node: nodes', hash: Contents]
      BY <2>1 DEF DeleteSync, TypeOK
    <3> QED
      BY <2>1, <3>1 DEF DeleteSync
  <2>2. ASSUME NEW n \in NodeIds, DeleteNode(n)
        PROVE  \E R \in SUBSET rows :
                 /\ Keep(R, {})
                 /\ R \subseteq [seq: Nat, sync: syncs', node: nodes', hash: Contents]
    <3>1. {v \in rows : v.node # n}
            \subseteq [seq: Nat, sync: syncs', node: nodes', hash: Contents]
      BY <2>2 DEF DeleteNode, TypeOK
    <3> QED
      BY <2>2, <3>1 DEF DeleteNode
  <2> QED
    BY <2>1, <2>2
<1>2. /\ syncs' \subseteq syncs /\ nodes' \subseteq nodes
      /\ UNCHANGED <<nextSeq, shown, loaded>>
  BY DEF DeleteSync, DeleteNode
<1>3. rows' = R /\ rows' \subseteq rows /\ blobs' \subseteq blobs
  BY <1>1 DEF Keep
<1>4. BlobsExact'
  <2>1. Hashes(R) \subseteq Hashes(rows) \cup {}
    BY DEF Hashes
  <2> QED
    BY <1>1, <2>1, KeepExact
<1>5. TypeOK'
  BY <1>1, <1>2, <1>3 DEF TypeOK
<1>6. SeqsUnique' /\ ShownKnown' /\ ShownIsRestored'
  BY <1>2, <1>3 DEF SeqsUnique, ShownKnown, ShownIsRestored
<1> QED
  BY <1>4, <1>5, <1>6

(* A user's two steps: to see a row, and to load its seq. *)
LEMMA StoreRead ==
  ASSUME StoreInv, ListSaveVersions \/ GetSaveVersionData
  PROVE  StoreInv'
<1> USE DEF StoreInv
<1>1. UNCHANGED <<syncs, nodes, rows, blobs, nextSeq>>
  BY DEF ListSaveVersions, GetSaveVersionData
<1>2. rows \subseteq Row
  BY DEF TypeOK, Row
<1>3. BlobsExact' /\ SeqsUnique'
  BY <1>1 DEF BlobsExact, SeqsUnique
<1>4. CASE ListSaveVersions
  <2>1. shown' \in rows /\ loaded' = None
    BY <1>4 DEF ListSaveVersions
  <2>2. TypeOK'
    BY <1>1, <1>2, <2>1 DEF TypeOK
  <2>3. ShownKnown' /\ ShownIsRestored'
    BY <1>1, <2>1 DEF ShownKnown, ShownIsRestored, SeqsUnique
  <2> QED
    BY <1>3, <2>2, <2>3
<1>5. CASE GetSaveVersionData
  <2>1. shown # None /\ shown' = shown
    BY <1>5 DEF GetSaveVersionData
  <2>2. loaded' = None \/ (loaded' \in rows /\ loaded'.seq = shown.seq)
    BY <1>5 DEF GetSaveVersionData
  <2>3. TypeOK'
    BY <1>1, <1>2, <2>1, <2>2 DEF TypeOK
  <2>4. ShownKnown' /\ ShownIsRestored'
    BY <1>1, <2>1, <2>2 DEF ShownKnown, ShownIsRestored
  <2> QED
    BY <1>3, <2>3, <2>4
<1> QED
  BY <1>4, <1>5

(* Every operation keeps the invariant. *)
LEMMA StoreStep ==
  ASSUME StoreInv, [Next]_vars
  PROVE  StoreInv'
<1>1. CASE UNCHANGED vars
  BY <1>1 DEF vars, StoreInv, TypeOK, BlobsExact, SeqsUnique, ShownKnown, ShownIsRestored
<1>2. ASSUME NEW s \in SyncIds, NEW n \in NodeIds, NEW h \in Contents,
             PutSaveVersion(s, n, h) \/ PutDuplicate(s, n, h)
      PROVE  StoreInv'
  BY <1>2, StorePut
<1> QED
  BY <1>1, <1>2, StoreCreate, StoreDelete, StoreRead DEF Next

(* Every row has its sync and its node, whatever was deleted while the engine
   captured (PutSaveVersion's reference check, the cascades). *)
THEOREM TypeCorrect == Spec => []TypeOK
<1>1. StoreInv => TypeOK
  BY DEF StoreInv
<1> QED
  BY <1>1, StoreInit, StoreStep, PTL DEF Spec

(* Every capture has its bytes and no bytes are left without a capture, however
   many syncs share them (gcBlobsLocked after every prune and cascade). *)
THEOREM BlobsExactHolds == Spec => []BlobsExact
<1>1. StoreInv => BlobsExact
  BY DEF StoreInv
<1> QED
  BY <1>1, StoreInit, StoreStep, PTL DEF Spec

(* A user never restores anything but the capture that was shown, however late
   the request comes (GetSaveVersionData, the bigserial seq). *)
THEOREM ShownIsRestoredHolds == Spec => []ShownIsRestored
<1>1. StoreInv => ShownIsRestored
  BY DEF StoreInv
<1> QED
  BY <1>1, StoreInit, StoreStep, PTL DEF Spec

-----------------------------------------------------------------------------
(* Rows in their order *)

(* Finitely many rows, each with a seq of its own. *)
Ordered(R) ==
  /\ IsFiniteSet(R) /\ R \subseteq Row
  /\ \A v, w \in R : v.seq = w.seq => v = w

(* The rows older than v are finitely many and do not include v. *)
LEMMA OlderRows ==
  ASSUME NEW R, Ordered(R), NEW v \in R
  PROVE  LET O == {w \in R : w.seq < v.seq} IN
         /\ O \subseteq R /\ IsFiniteSet(O) /\ v \notin O
         /\ Cardinality(O) \in Nat /\ Cardinality(R) \in Nat
         /\ Cardinality(O) < Cardinality(R)
<1> DEFINE O == {w \in R : w.seq < v.seq}
<1>1. O \subseteq R /\ v \notin O /\ IsFiniteSet(R)
  BY DEF Ordered, Row
<1> HIDE DEF O
<1>2. IsFiniteSet(O) /\ Cardinality(O) <= Cardinality(R) /\ Cardinality(O) # Cardinality(R)
  BY <1>1, FS_Subset
<1>3. Cardinality(O) \in Nat /\ Cardinality(R) \in Nat
  BY <1>1, <1>2, FS_CardinalityType
<1>4. Cardinality(O) < Cardinality(R)
  BY <1>2, <1>3
<1> QED
  BY <1>1, <1>2, <1>3, <1>4 DEF O

(* Ranks tell rows apart. *)
LEMMA OlderInjective ==
  ASSUME NEW R, Ordered(R), NEW v \in R, NEW w \in R, Older(R, v) = Older(R, w)
  PROVE  v = w
<1>1. \A x, y \in R : x.seq < y.seq => Older(R, x) # Older(R, y)
  <2> TAKE x, y \in R
  <2> HAVE x.seq < y.seq
  <2> DEFINE X == {u \in R : u.seq < x.seq}
             Y == {u \in R : u.seq < y.seq}
  <2>1. X \subseteq Y /\ x \in Y /\ x \notin X
    BY DEF Ordered, Row
  <2>2. IsFiniteSet(Y)
    BY OlderRows
  <2> HIDE DEF X, Y
  <2>3. Cardinality(X) # Cardinality(Y)
    BY <2>1, <2>2, FS_Subset
  <2> QED
    BY <2>3 DEF X, Y, Older
<1>2. v.seq \in Nat /\ w.seq \in Nat
  BY DEF Ordered, Row
<1>3. v.seq = w.seq
  BY <1>1, <1>2
<1> QED
  BY <1>3 DEF Ordered

(* Every rank below the number of rows is some row's. *)
LEMMA OlderRanks ==
  ASSUME NEW R, Ordered(R)
  PROVE  /\ Cardinality(R) \in Nat
         /\ \A v \in R : Older(R, v) \in 0..(Cardinality(R) - 1)
         /\ \A i \in 0..(Cardinality(R) - 1) : \E v \in R : Older(R, v) = i
<1>1. IsFiniteSet(R) /\ Cardinality(R) \in Nat
  BY FS_CardinalityType DEF Ordered
<1>2. \A v \in R : Older(R, v) \in 0..(Cardinality(R) - 1)
  BY <1>1, OlderRows DEF Older
<1>3. ASSUME NEW i \in 0..(Cardinality(R) - 1)
      PROVE  \E v \in R : Older(R, v) = i
  <2> DEFINE f == [v \in R |-> Older(R, v)]
             T == 0..(Cardinality(R) - 1)
  <2>1. f \in [R -> T]
    BY <1>2
  <2>2. \A v, w \in R : f[v] = f[w] => v = w
    BY OlderInjective
  <2>3. IsFiniteSet(T) /\ Cardinality(T) = Cardinality(R)
    BY <1>1, FS_Interval
  <2> HIDE DEF T
  <2>4. f \in Injection(R, T)
    BY <2>1, <2>2 DEF Injection, IsInjective
  <2>5. f \in Surjection(R, T)
    <3> HIDE DEF f
    <3> QED
      BY <2>3, <2>4, FS_Injection
  <2>6. i \in T
    BY DEF T
  <2> QED
    BY <2>5, <2>6 DEF Surjection
<1> QED
  BY <1>1, <1>2, <1>3

(* The contents of rows in their order, by rank. *)
LEMMA InOrderAt ==
  ASSUME NEW R, Ordered(R)
  PROVE  /\ InOrder(R) \in Seq(Contents)
         /\ Len(InOrder(R)) = Cardinality(R)
         /\ \A v \in R : InOrder(R)[Older(R, v) + 1] = v.hash
<1> DEFINE n == Cardinality(R)
           at(i) == CHOOSE v \in R : Older(R, v) = i - 1
<1>1. n \in Nat
  BY OlderRanks
<1>2. InOrder(R) = [i \in 1..n |-> at(i).hash]
  BY DEF InOrder
<1>3. \A v \in R : Older(R, v) + 1 \in 1..n
  BY <1>1, OlderRanks
<1>4. \A i \in 1..n : at(i) \in R /\ Older(R, at(i)) = i - 1
  <2> TAKE i \in 1..n
  <2>1. i - 1 \in 0..(Cardinality(R) - 1)
    BY <1>1
  <2>2. \E v \in R : Older(R, v) = i - 1
    BY <2>1, OlderRanks
  <2> QED
    BY <2>2
<1>5. \A v \in R : at(Older(R, v) + 1) = v
  <2> TAKE v \in R
  <2>1. Older(R, at(Older(R, v) + 1)) = (Older(R, v) + 1) - 1 /\ at(Older(R, v) + 1) \in R
    BY <1>3, <1>4
  <2>2. Older(R, v) \in Nat
    BY <1>1, OlderRanks
  <2>3. (Older(R, v) + 1) - 1 = Older(R, v)
    BY <2>2
  <2> HIDE DEF at
  <2> QED
    BY <2>1, <2>3, OlderInjective
<1> HIDE DEF n, at
<1>6. \A i \in 1..n : at(i).hash \in Contents
  BY <1>4 DEF Ordered, Row
<1>7. InOrder(R) \in [1..n -> Contents]
  BY <1>2, <1>6
<1>8. InOrder(R) \in Seq(Contents) /\ Len(InOrder(R)) = n
  BY <1>1, <1>7
<1>9. \A v \in R : InOrder(R)[Older(R, v) + 1] = v.hash
  BY <1>2, <1>3, <1>5
<1> QED
  BY <1>8, <1>9 DEF n

(* Nothing else has every row's content at its rank. *)
LEMMA InOrderIs ==
  ASSUME NEW R, Ordered(R), NEW f \in Seq(Contents), Len(f) = Cardinality(R),
         \A v \in R : f[Older(R, v) + 1] = v.hash
  PROVE  f = InOrder(R)
<1>1. /\ InOrder(R) \in Seq(Contents) /\ Len(InOrder(R)) = Cardinality(R)
      /\ \A v \in R : InOrder(R)[Older(R, v) + 1] = v.hash
  BY InOrderAt
<1>2. ASSUME NEW i \in 1..Len(f)
      PROVE  f[i] = InOrder(R)[i]
  <2>1. i - 1 \in 0..(Cardinality(R) - 1) /\ (i - 1) + 1 = i
    BY OlderRanks
  <2>2. PICK v \in R : Older(R, v) = i - 1
    BY <2>1, OlderRanks
  <2> QED
    BY <1>1, <2>1, <2>2
<1> QED
  BY <1>1, <1>2, SeqEqual

(* The row after all others comes last. *)
LEMMA AddNewest ==
  ASSUME NEW R, Ordered(R), NEW r \in Row, \A v \in R : v.seq < r.seq
  PROVE  /\ Ordered(R \cup {r})
         /\ Cardinality(R \cup {r}) = Cardinality(R) + 1
         /\ InOrder(R \cup {r}) = Append(InOrder(R), r.hash)
<1> DEFINE Q == R \cup {r}
           f == Append(InOrder(R), r.hash)
<1>1. r \notin R
  BY DEF Row
<1>2. Ordered(Q)
  <2>1. IsFiniteSet(Q)
    BY FS_AddElement DEF Ordered
  <2>2. Q \subseteq Row
    BY DEF Ordered
  <2>3. \A v, w \in Q : v.seq = w.seq => v = w
    BY <2>2 DEF Ordered, Row
  <2> QED
    BY <2>1, <2>2, <2>3 DEF Ordered
<1>3. Cardinality(Q) = Cardinality(R) + 1
  BY <1>1, FS_AddElement DEF Ordered
<1>4. /\ f \in Seq(Contents) /\ Len(f) = Cardinality(Q)
      /\ \A i \in 1..Cardinality(R) : f[i] = InOrder(R)[i]
      /\ f[Cardinality(R) + 1] = r.hash
  <2>1. r.hash \in Contents
    BY DEF Row
  <2> QED
    BY <1>3, <2>1, InOrderAt, AppendProperties
<1>5. Older(Q, r) = Cardinality(R)
  <2>1. {w \in Q : w.seq < r.seq} = R
    BY DEF Row
  <2> QED
    BY <2>1 DEF Older
<1>6. \A v \in R : Older(Q, v) = Older(R, v)
  <2> TAKE v \in R
  <2>1. {w \in Q : w.seq < v.seq} = {w \in R : w.seq < v.seq}
    BY DEF Row, Ordered
  <2> QED
    BY <2>1 DEF Older
<1>7. \A v \in Q : f[Older(Q, v) + 1] = v.hash
  <2> HIDE DEF f
  <2>1. \A v \in R : f[Older(Q, v) + 1] = v.hash
    <3> TAKE v \in R
    <3>1. Older(R, v) + 1 \in 1..Cardinality(R)
      BY OlderRanks
    <3> QED
      BY <1>4, <1>6, <3>1, InOrderAt
  <2> QED
    BY <1>4, <1>5, <2>1
<1> HIDE DEF f
<1>8. f = InOrder(Q)
  BY <1>2, <1>4, <1>7, InOrderIs
<1> QED
  BY <1>2, <1>3, <1>8 DEF f

(* As many rows are newer than v as the others leave. *)
LEMMA NewerRows ==
  ASSUME NEW R, Ordered(R), NEW v \in R
  PROVE  Cardinality({w \in R : w.seq > v.seq}) = Cardinality(R) - 1 - Older(R, v)
<1> DEFINE O == {w \in R : w.seq < v.seq}
           N == {w \in R : w.seq > v.seq}
<1>1. IsFiniteSet(O) /\ v \notin O /\ Cardinality(O) \in Nat /\ Cardinality(R) \in Nat
  BY OlderRows
<1>2. R = (O \cup {v}) \cup N /\ (O \cup {v}) \cap N = {} /\ N \subseteq R
  BY DEF Ordered, Row
<1> HIDE DEF O, N
<1>3. IsFiniteSet(N) /\ Cardinality(N) \in Nat
  BY <1>2, FS_Subset, FS_CardinalityType DEF Ordered
<1>4. IsFiniteSet(O \cup {v}) /\ Cardinality(O \cup {v}) = Cardinality(O) + 1
  BY <1>1, FS_AddElement
<1>5. Cardinality(R) = Cardinality(O) + 1 + Cardinality(N) - Cardinality({})
  BY <1>2, <1>3, <1>4, FS_Union
<1>6. Cardinality(N) = Cardinality(R) - 1 - Cardinality(O)
  BY <1>1, <1>3, <1>5, FS_EmptySet
<1> QED
  BY <1>6 DEF N, O, Older

(* Without the oldest row the others keep their order. *)
LEMMA DropOldest ==
  ASSUME NEW R, Ordered(R), R # {}
  PROVE  LET P == {v \in R : Older(R, v) # 0} IN
         /\ Ordered(P)
         /\ Cardinality(R) \in Nat \ {0}
         /\ Cardinality(P) = Cardinality(R) - 1
         /\ InOrder(P) = SubSeq(InOrder(R), 2, Cardinality(R))
<1> DEFINE P == {v \in R : Older(R, v) # 0}
           n == Cardinality(R)
           f == SubSeq(InOrder(R), 2, n)
<1>1. n \in Nat /\ n # 0
  BY OlderRanks, FS_EmptySet DEF Ordered
<1>2. PICK m \in R : Older(R, m) = 0
  <2>1. 0 \in 0..(n - 1)
    BY <1>1
  <2> QED
    BY <2>1, OlderRanks
<1>3. P = R \ {m}
  BY <1>2, OlderInjective
<1>4. Ordered(P) /\ Cardinality(P) = n - 1
  <2>1. IsFiniteSet(P) /\ Cardinality(P) = n - 1
    BY <1>3, FS_RemoveElement DEF Ordered
  <2> QED
    BY <2>1 DEF Ordered
<1>5. \A v \in P : Older(R, v) = Older(P, v) + 1 /\ Older(P, v) \in 0..(n - 2)
  <2> TAKE v \in P
  <2> DEFINE A == {w \in R : w.seq < v.seq}
             B == {w \in P : w.seq < v.seq}
  <2>1. m.seq < v.seq
    <3>1. m.seq \in Nat /\ v.seq \in Nat /\ (m.seq = v.seq => m = v) /\ m # v
      BY <1>3 DEF Ordered, Row
    <3>2. ~(v.seq < m.seq)
      <4> SUFFICES ASSUME v.seq < m.seq PROVE FALSE
        OBVIOUS
      <4> DEFINE M == {w \in R : w.seq < m.seq}
      <4>1. v \in M /\ IsFiniteSet(M)
        BY OlderRows
      <4>2. Cardinality(M) = 0
        BY <1>2 DEF Older
      <4> HIDE DEF M
      <4> QED
        BY <4>1, <4>2, FS_EmptySet
    <3> QED
      BY <3>1, <3>2
  <2>2. A = B \cup {m} /\ m \notin B
    BY <1>3, <2>1
  <2>3. IsFiniteSet(B)
    BY <1>4, OlderRows
  <2> HIDE DEF A, B
  <2>4. Cardinality(A) = Cardinality(B) + 1
    BY <2>2, <2>3, FS_AddElement
  <2>5. Older(R, v) = Older(P, v) + 1
    BY <2>4 DEF A, B, Older
  <2>6. Older(P, v) \in 0..(Cardinality(P) - 1)
    BY <1>4, OlderRanks
  <2> QED
    BY <1>1, <1>4, <2>5, <2>6
<1>6. /\ InOrder(R) \in Seq(Contents) /\ Len(InOrder(R)) = n
      /\ \A v \in R : InOrder(R)[Older(R, v) + 1] = v.hash
  BY InOrderAt
<1>7. /\ f \in Seq(Contents) /\ Len(f) = n - 1
      /\ \A i \in 1..(n - 1) : f[i] = InOrder(R)[i + 1]
  <2>1. \A i \in 2..n : InOrder(R)[i] \in Contents
    BY <1>1, <1>6, ElementOfSeq
  <2>2. /\ f \in Seq(Contents) /\ Len(f) = IF 2 <= n THEN n - 2 + 1 ELSE 0
        /\ \A i \in 1..(n - 2 + 1) : f[i] = InOrder(R)[2 + i - 1]
    BY <1>1, <2>1, SubSeqProperties
  <2>3. n - 2 + 1 = n - 1 /\ \A i \in 1..(n - 1) : 2 + i - 1 = i + 1
    BY <1>1
  <2> HIDE DEF f
  <2> QED
    BY <1>1, <2>2, <2>3
<1> HIDE DEF f
<1>8. \A v \in P : f[Older(P, v) + 1] = v.hash
  <2> TAKE v \in P
  <2>1. Older(P, v) + 1 \in 1..(n - 1)
    BY <1>1, <1>5
  <2>2. f[Older(P, v) + 1] = InOrder(R)[(Older(P, v) + 1) + 1]
    BY <1>7, <2>1
  <2> QED
    BY <1>5, <1>6, <2>2
<1> HIDE DEF P
<1>9. f = InOrder(P)
  BY <1>4, <1>7, <1>8, InOrderIs
<1> QED
  BY <1>1, <1>4, <1>9 DEF P, f, n

(* What is pruned of a member's rows, few enough before the last capture. *)
LEMMA PrunedInOrder ==
  ASSUME NEW R, Ordered(R), Cardinality(R) <= Retain,
         NEW r \in Row, \A v \in R : v.seq < r.seq
  PROVE  LET Q == R \cup {r}
             P == {v \in Q : Cardinality({w \in Q : w.seq > v.seq}) < Retain}
         IN  /\ Ordered(P) /\ Cardinality(P) <= Retain
             /\ InOrder(P) = Newest(Append(InOrder(R), r.hash))
<1> DEFINE Q == R \cup {r}
           P == {v \in Q : Cardinality({w \in Q : w.seq > v.seq}) < Retain}
           n == Cardinality(R)
<1>1. n \in Nat /\ Retain \in Nat /\ Retain # 0
  BY OlderRanks, RetainAssumption
<1>2. Ordered(Q) /\ Cardinality(Q) = n + 1 /\ InOrder(Q) = Append(InOrder(R), r.hash)
  BY AddNewest
<1>3. Len(InOrder(Q)) = n + 1
  BY <1>2, InOrderAt
<1> HIDE DEF Q
<1>4. P = {v \in Q : Older(Q, v) > n - Retain}
  <2>1. \A v \in Q : /\ Older(Q, v) \in 0..n
                     /\ Cardinality({w \in Q : w.seq > v.seq}) = n - Older(Q, v)
    <3> TAKE v \in Q
    <3>1. Older(Q, v) \in 0..(Cardinality(Q) - 1)
      BY <1>2, OlderRanks
    <3>2. Cardinality({w \in Q : w.seq > v.seq}) = Cardinality(Q) - 1 - Older(Q, v)
      BY <1>2, NewerRows
    <3> QED
      BY <1>1, <1>2, <3>1, <3>2
  <2>2. \A v \in Q : Cardinality({w \in Q : w.seq > v.seq}) < Retain
                      <=> Older(Q, v) > n - Retain
    BY <1>1, <2>1
  <2> QED
    BY <2>2
<1> DEFINE G == Ordered(P) /\ Cardinality(P) <= Retain /\ InOrder(P) = Newest(InOrder(Q))
<1>5. ASSUME n < Retain PROVE G
  <2>1. P = Q
    <3>1. \A v \in Q : Older(Q, v) \in 0..(Cardinality(Q) - 1)
      BY <1>2, OlderRanks
    <3> HIDE DEF P
    <3>2. \A v \in Q : Older(Q, v) > n - Retain
      BY <1>1, <1>5, <1>2, <3>1
    <3> QED
      BY <1>4, <3>2
  <2>2. Newest(InOrder(Q)) = InOrder(Q)
    BY <1>1, <1>3, <1>5 DEF Newest
  <2> HIDE DEF P
  <2> QED
    BY <1>1, <1>2, <1>5, <2>1, <2>2
<1>6. ASSUME n = Retain PROVE G
  <2>1. P = {v \in Q : Older(Q, v) # 0}
    <3>1. \A v \in Q : Older(Q, v) \in 0..(Cardinality(Q) - 1)
      BY <1>2, OlderRanks
    <3> HIDE DEF P
    <3>2. \A v \in Q : Older(Q, v) > n - Retain <=> Older(Q, v) # 0
      BY <1>1, <1>6, <1>2, <3>1
    <3> QED
      BY <1>4, <3>2
  <2>2. Q # {}
    BY DEF Q
  <2> HIDE DEF P
  <2>3. /\ Ordered(P) /\ Cardinality(P) = Cardinality(Q) - 1
        /\ InOrder(P) = SubSeq(InOrder(Q), 2, Cardinality(Q))
    BY <1>2, <2>1, <2>2, DropOldest
  <2>4. Newest(InOrder(Q)) = SubSeq(InOrder(Q), 2, n + 1)
    <3>1. Len(InOrder(Q)) > Retain /\ Len(InOrder(Q)) - Retain + 1 = 2
      BY <1>1, <1>3, <1>6
    <3> QED
      BY <1>3, <3>1 DEF Newest
  <2>5. Cardinality(P) = n /\ InOrder(P) = SubSeq(InOrder(Q), 2, n + 1)
    BY <1>1, <1>2, <2>3
  <2>6. Cardinality(P) <= Retain
    BY <1>1, <1>6, <2>5
  <2>7. InOrder(P) = Newest(InOrder(Q))
    BY <2>4, <2>5
  <2> QED
    BY <2>3, <2>6, <2>7
<1>7. Ordered(P) /\ Cardinality(P) <= Retain /\ InOrder(P) = Newest(InOrder(Q))
  BY <1>1, <1>5, <1>6
<1> QED
  BY <1>2, <1>7 DEF Q

(* A member's last capture is its newest row's. *)
LEMMA LastInOrder ==
  ASSUME NEW R, Ordered(R), NEW h
  PROVE  (\E v \in R : v.hash = h /\ \A w \in R : w.seq <= v.seq)
           <=> (InOrder(R) # <<>> /\ InOrder(R)[Len(InOrder(R))] = h)
<1> DEFINE n == Cardinality(R)
<1>1. /\ n \in Nat /\ InOrder(R) \in Seq(Contents) /\ Len(InOrder(R)) = n
      /\ \A v \in R : InOrder(R)[Older(R, v) + 1] = v.hash
  BY InOrderAt, OlderRanks
<1>2. \A v \in R : (\A w \in R : w.seq <= v.seq) <=> Older(R, v) = n - 1
  <2> TAKE v \in R
  <2> DEFINE N == {w \in R : w.seq > v.seq}
  <2>1. (\A w \in R : w.seq <= v.seq) <=> N = {}
    BY DEF Ordered, Row
  <2>2. IsFiniteSet(N)
    BY FS_Subset DEF Ordered
  <2>3. Cardinality(N) = n - 1 - Older(R, v)
    BY NewerRows
  <2> HIDE DEF N
  <2>4. N = {} <=> Cardinality(N) = 0
    BY <2>2, FS_EmptySet
  <2>5. Older(R, v) \in 0..(n - 1)
    BY OlderRanks
  <2> QED
    BY <1>1, <2>1, <2>3, <2>4, <2>5
<1>3. InOrder(R) # <<>> <=> n # 0
  BY <1>1, EmptySeq
<1>4. ASSUME NEW v \in R, v.hash = h, Older(R, v) = n - 1
      PROVE  n # 0 /\ InOrder(R)[n] = h
  <2>1. Older(R, v) \in 0..(n - 1)
    BY OlderRanks
  <2>2. (n - 1) + 1 = n /\ n # 0
    BY <1>1, <1>4, <2>1
  <2> QED
    BY <1>1, <1>4, <2>2
<1>5. ASSUME n # 0, InOrder(R)[n] = h
      PROVE  \E v \in R : v.hash = h /\ Older(R, v) = n - 1
  <2>1. n - 1 \in 0..(n - 1) /\ (n - 1) + 1 = n
    BY <1>1, <1>5
  <2>2. PICK v \in R : Older(R, v) = n - 1
    BY <2>1, OlderRanks
  <2> QED
    BY <1>1, <1>5, <2>1, <2>2
<1> QED
  BY <1>1, <1>2, <1>3, <1>4, <1>5

(* The rows are finitely many and no member has more than Retain of them. *)
Bounded ==
  /\ IsFiniteSet(rows)
  /\ \A s \in SyncIds, n \in NodeIds : Cardinality(Of(rows, s, n)) <= Retain

(* So they can be put in order by seq. *)
LEMMA MemberOrdered ==
  ASSUME StoreInv, Bounded, NEW s, NEW n
  PROVE  Ordered(Of(rows, s, n))
<1>1. Of(rows, s, n) \subseteq rows /\ rows \subseteq Row
  BY DEF Of, StoreInv, TypeOK, Row
<1>2. IsFiniteSet(Of(rows, s, n))
  BY <1>1, FS_Subset DEF Bounded
<1> QED
  BY <1>1, <1>2 DEF Ordered, StoreInv, SeqsUnique

(* A capture for one member, in its own history and in the others'. *)
LEMMA PutInOrder ==
  ASSUME StoreInv, Bounded,
         NEW s \in SyncIds, NEW n \in NodeIds, NEW h \in Contents,
         PutSaveVersion(s, n, h)
  PROVE  /\ Bounded'
         /\ History(s, n)' = Captured(History(s, n), h)
         /\ \A s2, n2 : <<s2, n2>> # <<s, n>> => Of(rows', s2, n2) = Of(rows, s2, n2)
<1> DEFINE row == [seq |-> nextSeq, sync |-> s, node |-> n, hash |-> h]
           R   == Of(rows, s, n)
           Q   == R \cup {row}
           P   == {v \in Q : Cardinality({w \in Q : w.seq > v.seq}) < Retain}
<1>1. rows' = Prune(rows \cup {row}, s, n)
  BY DEF PutSaveVersion, Keep, AssignedSeq
<1>2. row \in Row /\ row.seq = nextSeq /\ row.sync = s /\ row.node = n /\ row.hash = h
  BY DEF Row, StoreInv, TypeOK
<1>3. Ordered(R) /\ Cardinality(R) <= Retain /\ R \subseteq rows
  BY MemberOrdered DEF Bounded, Of
<1>4. \A v \in R : v.seq < row.seq
  BY <1>2, <1>3 DEF StoreInv, SeqsUnique
<1> HIDE DEF row
<1>5. Of(rows \cup {row}, s, n) = Q
  BY <1>2 DEF Of
<1>6. Of(rows', s, n) = P
  BY <1>1, <1>5 DEF Prune, Of
<1>7. \A s2, n2 : <<s2, n2>> # <<s, n>> => Of(rows', s2, n2) = Of(rows, s2, n2)
  BY <1>1, <1>2 DEF Prune, Of
<1>8. Ordered(P) /\ Cardinality(P) <= Retain /\ InOrder(P) = Newest(Append(InOrder(R), h))
  <2> HIDE DEF R
  <2> QED
    BY <1>2, <1>3, <1>4, PrunedInOrder
<1>9. Bounded'
  <2>1. rows' \subseteq rows \cup {row}
    BY <1>1 DEF Prune
  <2>2. IsFiniteSet(rows \cup {row})
    BY FS_AddElement DEF Bounded
  <2>3. IsFiniteSet(rows')
    BY <2>1, <2>2, FS_Subset
  <2> HIDE DEF P
  <2>4. \A s2 \in SyncIds, n2 \in NodeIds : Cardinality(Of(rows', s2, n2)) <= Retain
    BY <1>6, <1>7, <1>8 DEF Bounded
  <2> QED
    BY <2>3, <2>4 DEF Bounded, Of
<1>10. ~(InOrder(R) # <<>> /\ InOrder(R)[Len(InOrder(R))] = h)
  <2>1. ~Duplicate(s, n, h)
    BY DEF PutSaveVersion
  <2>2. ~\E v \in R : v.hash = h /\ \A w \in R : w.seq <= v.seq
    BY <2>1 DEF Duplicate
  <2> HIDE DEF R
  <2> QED
    BY <1>3, <2>2, LastInOrder
<1> HIDE DEF P, R
<1>11. History(s, n)' = InOrder(P)
  <2>1. History(s, n)' = InOrder(Of(rows', s, n))
    BY DEF History, InOrder, Older, Of
  <2> QED
    BY <1>6, <2>1
<1>12. Captured(History(s, n), h) = Newest(Append(InOrder(R), h))
  BY <1>10 DEF Captured, History, R
<1> QED
  BY <1>7, <1>8, <1>9, <1>11, <1>12

(* Rows of other members than the ones that go stay as they are. *)
LEMMA DeleteInOrder ==
  ASSUME Bounded, NEW S, NEW N,
         rows' = {v \in rows : ~(v.sync \in S \/ v.node \in N)}
  PROVE  /\ Bounded'
         /\ \A s, n : Of(rows', s, n) = IF s \in S \/ n \in N THEN {} ELSE Of(rows, s, n)
<1>1. \A s, n : Of(rows', s, n) = IF s \in S \/ n \in N THEN {} ELSE Of(rows, s, n)
  BY DEF Of
<1>2. IsFiniteSet(rows')
  BY FS_Subset DEF Bounded
<1>3. \A s \in SyncIds, n \in NodeIds : Cardinality(Of(rows', s, n)) <= Retain
  <2> TAKE s \in SyncIds, n \in NodeIds
  <2>1. Cardinality(Of(rows, s, n)) <= Retain
    BY DEF Bounded
  <2>2. Cardinality({}) <= Retain
    BY FS_EmptySet, RetainAssumption
  <2>3. Of(rows', s, n) = {} \/ Of(rows', s, n) = Of(rows, s, n)
    BY <1>1
  <2> QED
    BY <2>1, <2>2, <2>3
<1> QED
  BY <1>1, <1>2, <1>3 DEF Bounded, Of

(* No rows, no contents. *)
LEMMA NoRowsInOrder ==
  InOrder({}) = <<>>
<1>1. Ordered({}) /\ Cardinality({}) = 0
  BY FS_EmptySet DEF Ordered
<1>2. InOrder({}) \in Seq(Contents) /\ Len(InOrder({})) = 0
  BY <1>1, InOrderAt
<1> QED
  BY <1>2, EmptySeq

(* The histories all rows add up to. *)
Kept == [m \in SyncIds \X NodeIds |-> History(m[1], m[2])]

(* A new store keeps an empty history for every member. *)
LEMMA HistoriesInit ==
  ASSUME Init
  PROVE  Bounded /\ Abstract!Init
<1>1. \A s, n : Of(rows, s, n) = {}
  BY DEF Init, Of
<1>2. Bounded
  BY <1>1, FS_EmptySet, RetainAssumption DEF Init, Bounded
<1>3. Abstract!Init
  BY <1>1, NoRowsInOrder DEF Abstract!Init, History
<1> QED
  BY <1>2, <1>3

(* A cascade empties the histories it names and leaves the others. *)
LEMMA HistoriesForget ==
  ASSUME Bounded, NEW S, NEW N, Keep({v \in rows : ~(v.sync \in S \/ v.node \in N)}, {})
  PROVE  Bounded' /\ Abstract!Forget(S, N)
<1>1. rows' = {v \in rows : ~(v.sync \in S \/ v.node \in N)}
  BY DEF Keep
<1>2. /\ Bounded'
      /\ \A s, n : Of(rows', s, n) = IF s \in S \/ n \in N THEN {} ELSE Of(rows, s, n)
  BY <1>1, DeleteInOrder
<1>3. \A s, n : InOrder(Of(rows', s, n))
                 = IF s \in S \/ n \in N THEN <<>> ELSE InOrder(Of(rows, s, n))
  BY <1>2, NoRowsInOrder
<1>4. \A s, n : History(s, n)' = InOrder(Of(rows', s, n))
  BY DEF History, InOrder, Older, Of
<1>5. Kept' = [m \in SyncIds \X NodeIds |->
                IF m[1] \in S \/ m[2] \in N THEN <<>> ELSE Kept[m]]
  <2>1. \A m \in SyncIds \X NodeIds :
          History(m[1], m[2])' = IF m[1] \in S \/ m[2] \in N THEN <<>> ELSE Kept[m]
    BY <1>3, <1>4 DEF Kept, History
  <2> QED
    BY <2>1 DEF Kept
<1> QED
  BY <1>2, <1>5 DEF Abstract!Forget, Kept

(* A capture, with its pruning, is Capture of the abstract store. *)
LEMMA HistoriesCapture ==
  ASSUME StoreInv, Bounded,
         NEW s \in SyncIds, NEW n \in NodeIds, NEW h \in Contents,
         PutSaveVersion(s, n, h)
  PROVE  Bounded' /\ Abstract!Capture(s, n, h)
<1>1. /\ Bounded'
      /\ History(s, n)' = Captured(History(s, n), h)
      /\ \A s2, n2 : <<s2, n2>> # <<s, n>> => Of(rows', s2, n2) = Of(rows, s2, n2)
  BY PutInOrder
<1>2. \A s2, n2 : <<s2, n2>> # <<s, n>> => History(s2, n2)' = History(s2, n2)
  <2>1. \A s2, n2 : History(s2, n2)' = InOrder(Of(rows', s2, n2))
    BY DEF History, InOrder, Older, Of
  <2> QED
    BY <1>1, <2>1 DEF History
<1>3. \A m \in SyncIds \X NodeIds :
        History(m[1], m[2])' = IF m = <<s, n>> THEN Captured(Kept[m], h) ELSE Kept[m]
  <2> TAKE m \in SyncIds \X NodeIds
  <2>1. m = <<m[1], m[2]>> /\ Kept[m] = History(m[1], m[2])
    BY DEF Kept
  <2>2. CASE m = <<s, n>>
    BY <1>1, <2>1, <2>2
  <2>3. CASE m # <<s, n>>
    BY <1>2, <2>1, <2>3
  <2> QED
    BY <2>2, <2>3
<1>4. Kept' = [Kept EXCEPT ![<<s, n>>] = Captured(Kept[<<s, n>>], h)]
  BY <1>3 DEF Kept
<1> QED
  BY <1>1, <1>4 DEF Abstract!Capture, Abstract!Captured, Abstract!Newest, Kept, Captured, Newest

(* Every operation is a step of the abstract store, or leaves it as it is. *)
LEMMA HistoriesStep ==
  ASSUME StoreInv, Bounded, [Next]_vars
  PROVE  Bounded' /\ [Abstract!Next]_Kept
<1>1. ASSUME rows' = rows
      PROVE  Bounded' /\ UNCHANGED Kept
  BY <1>1 DEF Bounded, Of, Kept, History, InOrder, Older
<1>2. CASE UNCHANGED vars
  BY <1>1, <1>2 DEF vars
<1>3. ASSUME NEW s \in SyncIds, CreateSync(s)
      PROVE  rows' = rows
  BY <1>3 DEF CreateSync
<1>4. ASSUME NEW n \in NodeIds, CreateNode(n)
      PROVE  rows' = rows
  BY <1>4 DEF CreateNode
<1>5. ASSUME NEW s \in SyncIds, DeleteSync(s)
      PROVE  Bounded' /\ Abstract!Next
  <2>1. Keep({v \in rows : v.sync # s}, {})
    BY <1>5 DEF DeleteSync
  <2>2. {v \in rows : v.sync # s} = {v \in rows : ~(v.sync \in {s} \/ v.node \in {})}
    OBVIOUS
  <2>3. Bounded' /\ Abstract!Forget({s}, {})
    BY <2>1, <2>2, HistoriesForget
  <2> QED
    BY <2>3 DEF Abstract!Next
<1>6. ASSUME NEW n \in NodeIds, DeleteNode(n)
      PROVE  Bounded' /\ Abstract!Next
  <2>1. Keep({v \in rows : v.node # n}, {})
    BY <1>6 DEF DeleteNode
  <2>2. {v \in rows : v.node # n} = {v \in rows : ~(v.sync \in {} \/ v.node \in {n})}
    OBVIOUS
  <2>3. Bounded' /\ Abstract!Forget({}, {n})
    BY <2>1, <2>2, HistoriesForget
  <2> QED
    BY <2>3 DEF Abstract!Next
<1>7. ASSUME NEW s \in SyncIds, NEW n \in NodeIds, NEW h \in Contents,
             PutSaveVersion(s, n, h)
      PROVE  Bounded' /\ Abstract!Next
  BY <1>7, HistoriesCapture DEF Abstract!Next
<1>8. ASSUME NEW s \in SyncIds, NEW n \in NodeIds, NEW h \in Contents,
             PutDuplicate(s, n, h)
      PROVE  rows' = rows
  BY <1>8 DEF PutDuplicate
<1>9. CASE ListSaveVersions \/ GetSaveVersionData
  BY <1>1, <1>9 DEF ListSaveVersions, GetSaveVersionData
<1> QED
  BY <1>1, <1>2, <1>3, <1>4, <1>5, <1>6, <1>7, <1>8, <1>9 DEF Next

(* The shared tables keep every member's history as a store of its own would
   (PutSaveVersion, pruneVersionsLocked, the cascades of DeleteSync and
   DeleteNode): what the engine's model assumes of its captures. *)
THEOREM ImplementsHistoriesHolds == Spec => ImplementsHistories
<1>1. Init => StoreInv /\ Bounded /\ Abstract!Init
  BY StoreInit, HistoriesInit
<1>2. StoreInv /\ Bounded /\ [Next]_vars => StoreInv' /\ Bounded' /\ [Abstract!Next]_Kept
  BY StoreStep, HistoriesStep
<1> QED
  BY <1>1, <1>2, PTL DEF Spec, ImplementsHistories, Abstract!Spec, Kept
=============================================================================
