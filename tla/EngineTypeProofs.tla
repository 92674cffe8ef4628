-------------------------- MODULE EngineTypeProofs --------------------------
(***************************************************************************)
(* Every variable of the engine has its type, for any number of members,    *)
(* contents, retention and bounds.  The invariant is TypeInv: types alone   *)
(* are not inductive, since metas[src].m, say, is an mtime only because the *)
(* control state knows that the source was stat'ed.                         *)
(***************************************************************************)
EXTENDS EngineInv, CapturesProofs, FiniteSetTheorems, WellFoundedInduction

(* A set of members has a lowest one: the order in which the engine visits
   them is well defined.  The least of the initial segments 1..n, n \in S, is
   found by the well-foundedness of the subset order. *)
LEMMA LowestIsMember ==
  ASSUME NEW S \in SUBSET Nodes, S # {}
  PROVE  /\ Lowest(S) \in S
         /\ \A k \in S : Lowest(S) <= k
<1> DEFINE seg(n) == 1..n
           T == {seg(n) : n \in S}
<1>1. S \subseteq Nat \ {0}
  BY EngineAssumption DEF Nodes
<1>2. T \subseteq FiniteSubsetsOf(Nat)
  <2> SUFFICES ASSUME NEW n \in S PROVE seg(n) \in FiniteSubsetsOf(Nat)
    OBVIOUS
  <2>1. n \in Int /\ seg(n) \subseteq Nat
    BY <1>1
  <2>2. IsFiniteSet(seg(n))
    BY <2>1, FS_Interval
  <2> QED
    BY <2>1, <2>2 DEF FiniteSubsetsOf
<1>3. PICK t \in T : \A u \in T : ~(<<u, t>> \in StrictSubsetOrdering(Nat))
  <2>1. T # {}
    OBVIOUS
  <2>2. IsWellFoundedOn(StrictSubsetOrdering(Nat), FiniteSubsetsOf(Nat))
    BY FS_StrictSubsetOrderingWellFounded
  <2> HIDE DEF T
  <2> QED
    BY <1>2, <2>1, <2>2, WFMin
<1>4. PICK n \in S : t = seg(n)
  OBVIOUS
<1>5. \A k \in S : n <= k
  <2> SUFFICES ASSUME NEW k \in S, k < n PROVE FALSE
    BY <1>1
  <2>1. n \in seg(n) /\ n \notin seg(k) /\ seg(k) \subseteq seg(n)
    BY <1>1
  <2>2. <<seg(k), seg(n)>> \in StrictSubsetOrdering(Nat)
    BY <1>1, <2>1 DEF StrictSubsetOrdering
  <2> QED
    BY <1>3, <1>4, <2>2
<1> QED
  BY <1>5 DEF Lowest

-----------------------------------------------------------------------------
(* What the rules of detection return. *)
LEMMA MicroType ==
  ASSUME NEW t \in Nat
  PROVE  Micro(t) \in Nat
BY ResAssumption DEF Micro

(* A stat is a metadata record, or None for an absent file. *)
LEMMA MetaOfType ==
  ASSUME NEW f \in FileOrNone
  PROVE  /\ MetaOf(f) \in {None} \cup Meta
         /\ f # None => MetaOf(f) \in Meta /\ MetaOf(f) # None
BY ContentsAssumption, NoneAssumption DEF MetaOf, FileOrNone, File, Meta, Mtime

(* A recorded stat and hash make an entry. *)
LEMMA EntryOfType ==
  ASSUME NEW meta \in Meta, NEW h \in Contents
  PROVE  EntryOf(meta, h) \in Entry
BY MicroType DEF EntryOf, Entry, Meta, Mtime

(* The mtime a write asks for is an mtime. *)
LEMMA PublishMtimeType ==
  ASSUME NEW s \in Mtime, NEW d \in {None} \cup Mtime, NEW u \in BOOLEAN
  PROVE  PublishMtime(s, d, u) \in Mtime
BY MicroType, ResAssumption, NoneAssumption DEF PublishMtime, Mtime, MtimeEqual

(* Members are the positive numbers up to N. *)
LEMMA NodesFacts ==
  /\ Nodes \subseteq Nat /\ 0 \notin Nodes /\ 1 \in Nodes
  /\ \A n \in Nodes : n # N => n + 1 \in Nodes
  /\ \A n \in Nodes : n <= N
<1>1. N \in Nat /\ N >= 1
  BY EngineAssumption
<1> QED
  BY <1>1 DEF Nodes

(* The mtime a write starts from is known when it is used. *)
LEMMA SrcMtimeType ==
  ASSUME TypeInv, pc \in WritePcs
  PROVE  SrcMtime \in Mtime
<1>1. metas[IF src = 0 THEN at ELSE src] \in Meta
  BY NodesFacts DEF TypeInv, Control, SourceKnown, WritePcs, FanPcs
<1> QED
  BY <1>1 DEF SrcMtime, Meta

(* Recording an entry keeps the store typed. *)
LEMMA RecordType ==
  ASSUME TypeOK, NEW n \in Nodes, NEW meta \in Meta, NEW h \in Contents,
         Record(n, meta, h)
  PROVE  /\ manifest' \in [Nodes -> {None} \cup Entry]
         /\ fresh' \subseteq Nodes
         /\ edited' \subseteq Nodes
BY EntryOfType DEF TypeOK, Record

(* Where a fan-out goes from member n: to the lowest destination left, or to
   the first entry of its owners, or to the end. *)
LEMMA NextDstCases ==
  ASSUME TypeOK, NEW n \in Nat, kind = "resolve" => src \in Nodes, NextDst(n)
  PROVE  \/ /\ pc' = "dstStat" /\ at' \in Later(n)
            /\ \A k \in Later(n) : at' <= k
         \/ /\ pc' = "own" /\ at' \in Owners /\ at' \in Nodes /\ Later(n) = {}
            /\ \A k \in Owners : at' <= k
         \/ pc' = "mark" /\ at' = 0 /\ Later(n) = {} /\ Owners = {}
<1>1. Later(n) \in SUBSET Nodes
  BY DEF Later
<1>2. Owners \in SUBSET Nodes
  BY DEF TypeOK, Owners
<1>3. CASE Later(n) # {}
  BY <1>1, <1>3, LowestIsMember DEF NextDst
<1>4. CASE Later(n) = {} /\ Owners # {}
  BY <1>2, <1>4, LowestIsMember DEF NextDst
<1>5. CASE Later(n) = {} /\ Owners = {}
  BY <1>5 DEF NextDst
<1> QED
  BY <1>3, <1>4, <1>5

(* The engine's own variables stay typed and its control state consistent. *)
LEMMA TypeInit ==
  ASSUME Init
  PROVE  TypeInv
<1>1. file \in [Nodes -> FileOrNone]
  BY EngineAssumption DEF Init, FileOrNone, File
<1>2. versions \in [Nodes -> Seq(Contents)]
  BY EmptySeq DEF Init
<1>3. TypeOK
  BY <1>1, <1>2 DEF Init, TypeOK, AllNone
<1>4. Control
  BY DEF Init, Control, IdleClean, ScanControl, ChangersHashed, SourceKnown,
         WriteControl, FanPcs, WritePcs
<1> QED
  BY <1>3, <1>4 DEF TypeInv

(* The operation returns: nothing of it is left. *)
LEMMA TypeReturn ==
  ASSUME TypeInv, Return,
         file' \in [Nodes -> FileOrNone], manifest' \in [Nodes -> {None} \cup Entry],
         fresh' \subseteq Nodes, conflicted' \in BOOLEAN, synced' \in BOOLEAN,
         versions' \in [Nodes -> Seq(Contents)],
         writes' \in Nat, faults' \in Nat, requests' \in Nat, edited' \subseteq Nodes
  PROVE  TypeInv'
<1>1. TypeOK'
  BY DEF TypeOK, Return, AllNone
<1>2. Control'
  BY DEF Return, Control, IdleClean, ScanControl, ChangersHashed, SourceKnown,
         WriteControl, FanPcs, WritePcs, AllNone
<1> QED
  BY <1>1, <1>2 DEF TypeInv

(* What devices and time do leaves the operation in flight where it is. *)
LEMMA TypeWorld ==
  ASSUME TypeInv, NEW n \in Nodes, NEW f \in {None} \cup [c: Contents, m: Mtimes],
         DeviceWrite(n, f) \/ Age(n)
  PROVE  TypeInv'
<1> USE DEF TypeInv, TypeOK
<1>1. f \in FileOrNone
  BY EngineAssumption DEF FileOrNone, File
<1>2. /\ file' \in [Nodes -> FileOrNone] /\ fresh' \subseteq Nodes
      /\ writes' \in Nat /\ moved' \subseteq Nodes /\ edited' \subseteq Nodes
      /\ UNCHANGED <<manifest, conflicted, synced, versions, opVars, faults, requests>>
  <2>1. CASE DeviceWrite(n, f)
    <3>1. file' = [file EXCEPT ![n] = f] /\ writes' = writes + 1
      BY <2>1 DEF DeviceWrite
    <3>2. moved' \subseteq moved \cup {n} /\ edited' = edited \cup {n}
      BY <2>1 DEF DeviceWrite
    <3> QED
      BY <1>1, <2>1, <3>1, <3>2 DEF DeviceWrite, storeVars
  <2>2. CASE Age(n)
    BY <2>2 DEF Age, history
  <2> QED
    BY <2>1, <2>2
<1>3. TypeOK'
  BY <1>2 DEF opVars
<1>4. pc = "idle" => moved' = moved
  BY DEF DeviceWrite, Age, history
<1>5. Control'
  BY <1>2, <1>4 DEF opVars, Control, IdleClean, ScanControl, ChangersHashed,
                    SourceKnown, WriteControl, Skip, Owners
<1> QED
  BY <1>3, <1>5

(* A poll begins, is skipped, or an operation is aborted. *)
LEMMA TypeIdle ==
  ASSUME TypeInv, Abort \/ PollStart \/ PollPaused
  PROVE  TypeInv'
<1> USE DEF TypeInv, TypeOK
<1>1. CASE Abort
  BY <1>1, TypeReturn DEF Abort, storeVars
<1>2. CASE PollStart
  <2>1. pc' = "stat" /\ at' = 1
    BY <1>2 DEF PollStart
  <2>2. UNCHANGED <<file, storeVars, kind, metas, changed, hash, src, data,
                    dstMtime, published, history>>
    BY <1>2 DEF PollStart
  <2>3. changed = {} /\ kind = "poll" /\ src = 0
    BY <1>2 DEF PollStart, Control, IdleClean
  <2>4. TypeOK'
    BY <2>1, <2>2, NodesFacts DEF storeVars, history
  <2>5. Control'
    BY <2>1, <2>2, <2>3, NodesFacts
       DEF Control, IdleClean, ScanControl, ChangersHashed, SourceKnown,
           WriteControl, FanPcs, WritePcs
  <2> QED
    BY <2>4, <2>5
<1>3. CASE PollPaused
  BY <1>3 DEF PollPaused, vars, storeVars, opVars, history, Control, IdleClean,
              ScanControl, ChangersHashed, SourceKnown, WriteControl, Skip, Owners
<1> QED
  BY <1>1, <1>2, <1>3

(* The scan: whoever it visits, it has stat'ed, and it goes up. *)
LEMMA TypeStat ==
  ASSUME TypeInv, StatFast \/ StatSlow
  PROVE  TypeInv'
<1> USE NodesFacts DEF TypeInv, TypeOK
<1>1. /\ pc = "stat" /\ kind = "poll" /\ src = 0 /\ at \in Nodes
      /\ \A n \in changed : n < at
  BY DEF StatFast, StatSlow, Stat, Control, ScanControl
<1>2. /\ metas' = [metas EXCEPT ![at] = MetaOf(file[at])]
      /\ UNCHANGED <<file, storeVars, kind, hash, src, data, dstMtime, published, history>>
  BY DEF StatFast, StatSlow, Stat
<1>3. MetaOf(file[at]) \in {None} \cup Meta
  BY <1>1, MetaOfType
<1>4. metas' \in [Nodes -> {None} \cup Meta]
  BY <1>2, <1>3
<1>5. CASE StatFast
  <2>1. changed' \subseteq changed \cup {at} /\ (at \in changed' => metas'[at] = None)
    BY <1>1, <1>2, <1>5 DEF StatFast, MetaOf
  <2>2. \/ pc' = "decide" /\ at' = 0
        \/ pc' = "stat" /\ at' = at + 1 /\ at' \in Nodes
    BY <1>1, <1>5 DEF StatFast, NextScan
  <2>3. TypeOK'
    BY <1>1, <1>2, <1>4, <2>1, <2>2 DEF storeVars, history
  <2>4. \A n \in changed' : metas'[n] # None => hash'[n] \in Contents
    BY <1>1, <1>2, <2>1 DEF Control, ChangersHashed
  <2>5. \A n \in changed' : pc' = "stat" => n < at'
    BY <1>1, <2>1, <2>2
  <2>6. Control'
    BY <1>1, <1>2, <2>2, <2>4, <2>5
       DEF Control, IdleClean, ScanControl, ChangersHashed, SourceKnown,
           WriteControl, FanPcs, WritePcs
  <2> QED
    BY <2>3, <2>6
<1>6. CASE StatSlow
  <2>1. pc' = "hash" /\ UNCHANGED <<at, changed>>
    BY <1>6 DEF StatSlow
  <2>2. metas'[at] \in Meta
    BY <1>1, <1>2, <1>6, MetaOfType DEF StatSlow
  <2>3. TypeOK'
    BY <1>2, <1>4, <2>1 DEF storeVars, history
  <2>4. \A n \in changed' : metas'[n] # None => hash'[n] \in Contents
    BY <1>1, <1>2, <2>1 DEF Control, ChangersHashed
  <2>5. Control'
    BY <1>1, <1>2, <2>1, <2>2, <2>4
       DEF Control, IdleClean, ScanControl, ChangersHashed, SourceKnown,
           WriteControl, FanPcs, WritePcs
  <2> QED
    BY <2>3, <2>5
<1> QED
  BY <1>5, <1>6

(* Tier 2 of the scan. *)
LEMMA TypeHash ==
  ASSUME TypeInv, HashTouch \/ HashChanged \/ HashGone
  PROVE  TypeInv'
<1> USE NodesFacts DEF TypeInv, TypeOK
<1>1. /\ pc = "hash" /\ kind = "poll" /\ src = 0 /\ at \in Nodes /\ metas[at] \in Meta
      /\ \A n \in changed : n < at
  BY DEF HashTouch, HashChanged, HashGone, Control, ScanControl
<1>2. CASE HashGone
  BY <1>2, TypeReturn DEF HashGone, storeVars
<1>3. CASE HashTouch \/ HashChanged
  <2>1. /\ UNCHANGED <<file, conflicted, synced, versions, kind, metas, src, data,
                       dstMtime, published, writes, faults, requests>>
        /\ moved' \subseteq moved
    BY <1>3 DEF HashTouch, HashChanged, storeVars
  <2>2. file[at].c \in Contents
    BY <1>1, <1>3 DEF HashTouch, HashChanged, FileOrNone, File
  <2>3. \/ pc' = "decide" /\ at' = 0
        \/ pc' = "stat" /\ at' = at + 1 /\ at' \in Nodes
    BY <1>1, <1>3 DEF HashTouch, HashChanged, NextScan
  <2>4. /\ manifest' \in [Nodes -> {None} \cup Entry]
        /\ fresh' \subseteq Nodes /\ edited' \subseteq Nodes
    BY <1>1, <1>3, <2>2, RecordType DEF HashTouch, HashChanged, storeVars
  <2>5. /\ changed' \subseteq changed \cup {at}
        /\ hash' \in [Nodes -> {None} \cup Contents]
        /\ \A n \in changed' : metas'[n] # None => hash'[n] \in Contents
    <3>1. CASE HashTouch
      BY <2>1, <3>1 DEF HashTouch, Control, ChangersHashed
    <3>2. CASE HashChanged
      BY <1>1, <2>1, <2>2, <3>2 DEF HashChanged, Control, ChangersHashed
    <3> QED
      BY <1>3, <3>1, <3>2
  <2>6. TypeOK'
    BY <1>1, <2>1, <2>3, <2>4, <2>5
  <2>7. \A n \in changed' : pc' = "stat" => n < at'
    BY <1>1, <2>3, <2>5
  <2>8. Control'
    BY <1>1, <2>1, <2>3, <2>5, <2>7
       DEF Control, IdleClean, ScanControl, ChangersHashed, SourceKnown,
           WriteControl, FanPcs, WritePcs
  <2> QED
    BY <2>6, <2>8
<1> QED
  BY <1>2, <1>3

(* The decision: a propagation begins with a changer as its source. *)
LEMMA TypeDecide ==
  ASSUME TypeInv, Decide
  PROVE  TypeInv'
<1> USE NodesFacts DEF TypeInv, TypeOK
<1>1. CASE DecideNoop
  BY <1>1, TypeReturn DEF DecideNoop, storeVars
<1>2. CASE DecideConflict
  BY <1>2, TypeReturn DEF DecideConflict
<1>3. CASE DecidePropagate
  <2>1. src' \in changed /\ pc' = "read"
    BY <1>3, LowestIsMember DEF DecidePropagate
  <2>2. UNCHANGED <<file, storeVars, kind, at, metas, changed, hash, data, dstMtime,
                    published, history>>
    BY <1>3 DEF DecidePropagate
  <2>3. \A n \in changed : metas[n] # None
    BY <1>3 DEF DecidePropagate, Fork, Vanished
  <2>4. TypeOK'
    BY <2>1, <2>2 DEF storeVars, history
  <2>5. SourceKnown'
    BY <2>1, <2>2, <2>3 DEF SourceKnown
  <2>6. Control'
    BY <2>1, <2>2, <2>5
       DEF Control, IdleClean, ScanControl, ChangersHashed, WriteControl, FanPcs, WritePcs
  <2> QED
    BY <2>4, <2>6
<1> QED
  BY <1>1, <1>2, <1>3 DEF Decide

(* A user's request begins with its winner or its target stat'ed. *)
LEMMA TypeRequest ==
  ASSUME TypeInv, Request
  PROVE  TypeInv'
<1> USE NodesFacts, NoneAssumption DEF TypeInv, TypeOK
<1>1. ASSUME NEW n \in Nodes, Resolve(n)
      PROVE  TypeInv'
  <2>1. /\ pc' = "read" /\ kind' = "resolve" /\ src' = n /\ requests' = requests + 1
        /\ metas' = [metas EXCEPT ![n] = MetaOf(file[n])]
        /\ UNCHANGED <<file, storeVars, at, changed, hash, data, dstMtime, published,
                       writes, faults, moved, edited>>
    BY <1>1 DEF Resolve
  <2>2. MetaOf(file[n]) \in Meta
    BY <1>1, MetaOfType DEF Resolve
  <2>3. changed = {}
    BY <1>1 DEF Resolve, Control, IdleClean
  <2>4. TypeOK'
    BY <2>1, <2>2 DEF storeVars
  <2>5. Control'
    BY <2>1, <2>2, <2>3
       DEF Control, IdleClean, ScanControl, ChangersHashed, SourceKnown,
           WriteControl, FanPcs, WritePcs
  <2> QED
    BY <2>4, <2>5
<1>2. ASSUME NEW n \in Nodes, NEW i \in 1..Retain, NEW now \in Mtimes, Restore(n, i, now)
      PROVE  TypeInv'
  <2> DEFINE meta == [m |-> now, s |-> SizeOf[versions[n][i]]]
  <2>1. /\ pc' = "dstStat" /\ kind' = "restore" /\ at' = n /\ requests' = requests + 1
        /\ data' = versions[n][i] /\ metas' = [metas EXCEPT ![n] = meta]
        /\ UNCHANGED <<file, storeVars, changed, hash, src, dstMtime, published,
                       writes, faults, moved, edited>>
    BY <1>2 DEF Restore
  <2>2. versions[n][i] \in Contents
    BY <1>2, ElementOfSeq, LenProperties DEF Restore
  <2>3. meta \in Meta
    BY <1>2, <2>2, EngineAssumption, ContentsAssumption DEF Meta, Mtime
  <2>4. changed = {} /\ src = 0
    BY <1>2 DEF Restore, Control, IdleClean
  <2> HIDE DEF meta
  <2>5. TypeOK'
    BY <2>1, <2>2, <2>3 DEF storeVars
  <2>6. Control'
    BY <2>1, <2>2, <2>3, <2>4
       DEF Control, IdleClean, ScanControl, ChangersHashed, SourceKnown,
           WriteControl, FanPcs, WritePcs, Skip
  <2> QED
    BY <2>5, <2>6
<1> QED
  BY <1>1, <1>2 DEF Request

(* The fan-out up to a destination's capture. *)
LEMMA TypeSource ==
  ASSUME TypeInv, SourceRead \/ SourceGone
  PROVE  TypeInv'
<1> USE NodesFacts, NoneAssumption DEF TypeInv, TypeOK
<1>1. CASE SourceGone
  BY <1>1, TypeReturn DEF SourceGone, storeVars
<1>2. CASE SourceRead
  <2>1. /\ data' = file[src].c /\ moved' \subseteq moved
        /\ UNCHANGED <<file, storeVars, kind, metas, changed, hash, src, dstMtime,
                       published, writes, faults, requests, edited>>
    BY <1>2 DEF SourceRead
  <2>2. src \in Nodes /\ metas[src] \in Meta
    BY <1>2 DEF SourceRead, Control, SourceKnown, FanPcs, WritePcs
  <2>3. data' \in Contents
    BY <1>2, <2>1, <2>2 DEF SourceRead, FileOrNone, File
  <2>4. \/ pc' = "dstStat" /\ at' \in Later(0)
        \/ pc' = "own" /\ at' \in Owners /\ at' \in Nodes
        \/ pc' = "mark" /\ at' = 0
    BY <1>2, <2>2, NextDstCases DEF SourceRead
  <2>5. at' \in {0} \cup Nodes
    BY <2>4 DEF Later
  <2>6. TypeOK'
    BY <2>1, <2>3, <2>4, <2>5 DEF storeVars
  <2>7. SourceKnown'
    BY <1>2, <2>1, <2>2, <2>4 DEF SourceRead, Control, SourceKnown, FanPcs, WritePcs
  <2>8. WriteControl'
    BY <2>1, <2>3, <2>4 DEF WriteControl, Later, Skip, Owners, FanPcs, WritePcs
  <2>9. IdleClean' /\ ScanControl' /\ ChangersHashed'
    BY <2>1, <2>4 DEF Control, IdleClean, ScanControl, ChangersHashed
  <2> QED
    BY <2>6, <2>7, <2>8, <2>9 DEF Control
<1> QED
  BY <1>1, <1>2

(* Within one destination: stat, capture and write move on in the same place. *)
LEMMA TypeDst ==
  ASSUME TypeInv, DstStat \/ DstStatFails \/ DstCapture \/ DstWrite
  PROVE  TypeInv'
<1> USE NodesFacts DEF TypeInv, TypeOK
<1>1. /\ pc \in {"dstStat", "capture", "write"} /\ pc' \in {"capture", "write", "record"}
      /\ pc' = "record" => DstWrite
      /\ UNCHANGED <<manifest, fresh, conflicted, synced, kind, at, metas, changed,
                     hash, src, data, writes, requests, edited>>
      /\ moved' \subseteq moved
  BY DEF DstStat, DstStatFails, DstCapture, DstWrite, storeVars, history
<1>2. at \in Nodes /\ data \in Contents
  BY <1>1 DEF Control, WriteControl, FanPcs, WritePcs
<1>3. faults' \in Nat
  BY DEF DstStat, DstStatFails, DstCapture, DstWrite, history
<1>4. versions' \in [Nodes -> Seq(Contents)]
  <2>1. CASE DstCapture /\ file[at] # None
    <3>1. file[at].c \in Contents
      BY <1>2, <2>1 DEF FileOrNone, File
    <3>2. Captured(versions[at], file[at].c) \in Seq(Contents)
      BY <1>2, <3>1, CapturedKeeps
    <3> QED
      BY <2>1, <3>2 DEF DstCapture
  <2> QED
    BY <2>1 DEF DstStat, DstStatFails, DstCapture, DstWrite, storeVars
<1>5. dstMtime' \in {None} \cup Mtime
  <2>1. file[at] # None => file[at].m \in Mtime
    BY <1>2 DEF FileOrNone, File
  <2> QED
    BY <2>1 DEF DstStat, DstStatFails, DstCapture, DstWrite
<1>6. /\ published' \in {None} \cup Mtime
      /\ DstWrite => published' \in Nat
      /\ file' \in [Nodes -> FileOrNone]
  <2>1. CASE DstWrite
    <3>1. SrcMtime \in Mtime /\ UserChose \in BOOLEAN
      BY <1>1, SrcMtimeType DEF WritePcs, UserChose
    <3>2. published' \in Mtime
      BY <2>1, <3>1, PublishMtimeType DEF DstWrite
    <3>3. [c |-> data, m |-> published'] \in FileOrNone
      BY <1>2, <3>2 DEF FileOrNone, File
    <3>4. file' = [file EXCEPT ![at] = [c |-> data, m |-> published']]
      BY <2>1 DEF DstWrite
    <3> QED
      BY <3>2, <3>3, <3>4 DEF Mtime
  <2>2. CASE ~DstWrite
    BY <2>2 DEF DstStat, DstStatFails, DstCapture
  <2> QED
    BY <2>1, <2>2
<1>7. TypeOK'
  BY <1>1, <1>3, <1>4, <1>5, <1>6
<1>8. Control'
  BY <1>1, <1>6 DEF Control, IdleClean, ScanControl, ChangersHashed, SourceKnown,
                    WriteControl, Skip, FanPcs, WritePcs
<1> QED
  BY <1>7, <1>8

(* A written member, or a restore's target, is recorded. *)
LEMMA TypeRecord ==
  ASSUME TypeInv, DstRecord \/ TargetRecord
  PROVE  TypeInv'
<1> USE NodesFacts, NoneAssumption DEF TypeInv, TypeOK
<1>1. /\ pc = "record" /\ at \in Nodes /\ data \in Contents /\ published \in Nat
      /\ Record(at, Written, data)
      /\ dstMtime' = None /\ published' = None
      /\ UNCHANGED <<file, conflicted, synced, versions, kind, changed, hash, data,
                     writes, faults, requests, moved>>
  BY DEF DstRecord, TargetRecord, Control, WriteControl, FanPcs, WritePcs
<1>2. Written \in Meta
  BY <1>1, ContentsAssumption DEF Written, Meta, Mtime
<1>3. /\ manifest' \in [Nodes -> {None} \cup Entry]
      /\ fresh' \subseteq Nodes /\ edited' \subseteq Nodes
  BY <1>1, <1>2, RecordType
<1>4. CASE DstRecord
  <2>1. /\ src \in Nodes /\ metas[src] \in Meta
        /\ UNCHANGED <<metas, src>>
    BY <1>1, <1>4 DEF DstRecord, Control, SourceKnown, FanPcs
  <2>2. \/ pc' = "dstStat" /\ at' \in Later(at)
        \/ pc' = "own" /\ at' \in Owners /\ at' \in Nodes
        \/ pc' = "mark" /\ at' = 0
    BY <1>1, <1>4, <2>1, NextDstCases DEF DstRecord
  <2>3. at' \in {0} \cup Nodes
    BY <2>2 DEF Later
  <2>4. TypeOK'
    BY <1>1, <1>3, <2>1, <2>2, <2>3
  <2>5. SourceKnown'
    BY <1>1, <2>1, <2>2 DEF Control, SourceKnown, FanPcs, WritePcs
  <2>6. WriteControl'
    BY <1>1, <2>1, <2>2 DEF WriteControl, Later, Skip, Owners, FanPcs, WritePcs
  <2>7. IdleClean' /\ ScanControl' /\ ChangersHashed'
    BY <1>1, <2>1, <2>2 DEF Control, IdleClean, ScanControl, ChangersHashed
  <2> QED
    BY <2>4, <2>5, <2>6, <2>7 DEF Control
<1>5. CASE TargetRecord
  <2>1. /\ src = 0 /\ src' = at /\ at' = 0 /\ pc' = "read"
        /\ metas' = [metas EXCEPT ![at] = Written]
    BY <1>5 DEF TargetRecord
  <2>2. kind = "restore" /\ changed = {}
    BY <1>1, <2>1 DEF Control, SourceKnown, ChangersHashed, FanPcs
  <2>3. TypeOK'
    BY <1>1, <1>2, <1>3, <2>1
  <2>4. Control'
    BY <1>1, <1>2, <2>1, <2>2
       DEF Control, IdleClean, ScanControl, ChangersHashed, SourceKnown,
           WriteControl, FanPcs, WritePcs
  <2> QED
    BY <2>3, <2>4
<1> QED
  BY <1>4, <1>5

(* The owners' entries and the end of the operation. *)
LEMMA TypeSettle ==
  ASSUME TypeInv, Settle
  PROVE  TypeInv'
<1> USE NodesFacts, NoneAssumption DEF TypeInv, TypeOK
<1>1. CASE OwnRecord
  <2> DEFINE rest == {n \in Owners : n > at}
  <2>1. /\ pc = "own" /\ at \in Owners /\ data \in Contents
        /\ src \in Nodes /\ metas[src] \in Meta
        /\ kind = "poll" => src \in changed /\ \A n \in changed : metas[n] # None
    BY <1>1 DEF OwnRecord, Control, WriteControl, SourceKnown, FanPcs, WritePcs
  <2>2. /\ Owners \subseteq Nodes
        /\ metas[at] \in Meta /\ (at # src => hash[at] \in Contents)
    BY <2>1 DEF Owners, Control, ChangersHashed
  <2>3. /\ manifest' \in [Nodes -> {None} \cup Entry]
        /\ fresh' \subseteq Nodes /\ edited' \subseteq Nodes
    BY <1>1, <2>1, <2>2, RecordType DEF OwnRecord
  <2>4. \/ pc' = "own" /\ at' \in Owners
        \/ pc' = "mark" /\ at' = 0
    BY <1>1, <2>2, LowestIsMember DEF OwnRecord
  <2>5. UNCHANGED <<file, conflicted, synced, versions, kind, metas, changed, hash,
                    src, data, dstMtime, published, writes, faults, requests, moved>>
    BY <1>1 DEF OwnRecord
  <2>6. TypeOK'
    BY <2>2, <2>3, <2>4, <2>5
  <2>7. SourceKnown'
    BY <2>1, <2>4, <2>5 DEF SourceKnown, FanPcs, WritePcs
  <2>8. WriteControl'
    BY <2>1, <2>4, <2>5 DEF WriteControl, Owners, FanPcs, WritePcs
  <2>9. IdleClean' /\ ScanControl' /\ ChangersHashed'
    BY <2>4, <2>5 DEF Control, IdleClean, ScanControl, ChangersHashed
  <2> QED
    BY <2>6, <2>7, <2>8, <2>9 DEF Control
<1>2. CASE MarkPoll
  BY <1>2, TypeReturn DEF MarkPoll
<1>3. CASE MarkChosen
  BY <1>3 DEF MarkChosen, history, Control, IdleClean, ScanControl, ChangersHashed,
              SourceKnown, WriteControl, FanPcs, WritePcs
<1>4. CASE Clear
  BY <1>4, TypeReturn DEF Clear
<1> QED
  BY <1>1, <1>2, <1>3, <1>4 DEF Settle

(* Every step keeps types and control. *)
LEMMA TypeStep ==
  ASSUME TypeInv, [Next]_vars
  PROVE  TypeInv'
<1>1. CASE World
  BY <1>1, TypeWorld DEF World
<1>2. CASE Abort \/ PollStart \/ PollPaused
  BY <1>2, TypeIdle
<1>3. CASE Request
  BY <1>3, TypeRequest
<1>4. CASE Scan
  BY <1>4, TypeStat, TypeHash DEF Scan
<1>5. CASE Decide
  BY <1>5, TypeDecide
<1>6. CASE FanOut
  BY <1>6, TypeSource, TypeDst, TypeRecord DEF FanOut
<1>7. CASE Settle
  BY <1>7, TypeSettle
<1>8. CASE UNCHANGED vars
  BY <1>8 DEF vars, storeVars, opVars, history, TypeInv, TypeOK, Control, IdleClean,
              ScanControl, ChangersHashed, SourceKnown, WriteControl, Skip, Owners
<1> QED
  BY <1>1, <1>2, <1>3, <1>4, <1>5, <1>6, <1>7, <1>8 DEF Next, Step

(* Every variable has its type in every reachable state, and the operation in
   flight is where its own variables say it is. *)
THEOREM TypeCorrect == Spec => []TypeOK
<1>1. Init => TypeInv
  BY TypeInit
<1>2. TypeInv /\ [Next]_vars => TypeInv'
  BY TypeStep
<1>3. TypeInv => TypeOK
  BY DEF TypeInv
<1> QED
  BY <1>1, <1>2, <1>3, PTL DEF Spec
=============================================================================
