------------------------- MODULE EngineBetweenProofs -------------------------
(***************************************************************************)
(* The engine when devices write between operations only (~MidPass), for    *)
(* any number of members, contents, writes and requests: what it promises   *)
(* as long as no call has failed, and what its first failure leaves.        *)
(***************************************************************************)
EXTENDS EngineProofs

(* Between operations no device disturbs one. *)
LEMMA UndisturbedWorld ==
  ASSUME ~MidPass, TypeInv, World
  PROVE  /\ UNCHANGED <<opVars, moved, manifest, conflicted, versions, faults>>
         /\ \/ UNCHANGED <<file, edited>>
            \/ /\ pc = "idle"
               /\ \E n \in Nodes : /\ \A k \in Nodes \ {n} : file'[k] = file[k]
                                   /\ edited' = edited \cup {n}
BY DEF World, DeviceWrite, Age, storeVars, opVars, history, TypeInv, TypeOK

(* So an operation always knows the bytes that it is about. *)
LEMMA MovedStep ==
  ASSUME ~MidPass, TypeInv, moved = {}, [Next]_vars
  PROVE  moved' = {}
<1>1. CASE World
  BY <1>1, UndisturbedWorld
<1>2. CASE Abort \/ PollPaused \/ PollStart \/ UNCHANGED vars
  BY <1>2 DEF Abort, PollPaused, PollStart, Return, vars, history
<1>3. CASE Request
  BY <1>3 DEF Request, Resolve, Restore
<1>4. CASE Scan \/ Decide
  BY <1>4 DEF Scan, StatFast, StatSlow, HashTouch, HashChanged, HashGone,
              Decide, DecideNoop, DecideConflict, DecidePropagate, Return, history
<1>5. CASE FanOut \/ Settle
  BY <1>5 DEF FanOut, SourceRead, SourceGone, DstStat, DstStatFails, DstCapture, DstWrite,
              DstRecord, TargetRecord, Settle, OwnRecord, MarkPoll, MarkChosen, Clear, Return,
              history
<1> QED
  BY <1>1, <1>2, <1>3, <1>4, <1>5 DEF Next, Step

(* The stats of the operation in flight stay true. *)
LEMMA StatsStep ==
  ASSUME ~MidPass, TypeInv, UndisturbedInv, [Next]_vars
  PROVE  StatsInv'
<1> USE NodesFacts DEF TypeInv, TypeOK, UndisturbedInv, StatsInv
<1>1. CASE World
  BY <1>1, UndisturbedWorld DEF Statted, opVars, FanPcs
<1>2. CASE Abort \/ PollPaused \/ PollStart \/ UNCHANGED vars
  BY <1>2 DEF Abort, PollPaused, PollStart, Return, Statted, FanPcs, vars, opVars
<1>3. CASE Request
  <2>1. changed = {} /\ src = 0
    BY <1>3 DEF Request, Resolve, Restore, Control, IdleClean
  <2> QED
    BY <1>3, <2>1 DEF Request, Resolve, Restore, Statted, FanPcs
<1>4. CASE Scan
  <2>1. CASE HashGone
    BY <2>1 DEF HashGone, Return, Statted, FanPcs
  <2>2. CASE StatFast \/ StatSlow \/ HashTouch \/ HashChanged
    <3>1. /\ pc \in {"stat", "hash"} /\ at \in Nodes /\ file' = file
          /\ \A n \in Nodes \ {at} : metas'[n] = metas[n]
      BY <2>2 DEF StatFast, StatSlow, HashTouch, HashChanged, Stat, Control, ScanControl
    <3>2. \/ pc' = "stat" /\ at' = at + 1
          \/ pc' = "hash" /\ at' = at
          \/ pc' = "decide" /\ at = N
      BY <2>2 DEF StatFast, StatSlow, HashTouch, HashChanged, NextScan
    <3>3. ASSUME NEW n \in Statted' PROVE n \in Nodes /\ n <= at
      <4>1. n \in Nodes
        BY <3>2 DEF Statted, FanPcs
      <4>2. CASE pc' = "stat" /\ at' = at + 1
        BY <3>1, <4>1, <4>2 DEF Statted, FanPcs
      <4>3. CASE pc' = "hash" /\ at' = at
        BY <4>1, <4>3 DEF Statted, FanPcs
      <4>4. CASE pc' = "decide" /\ at = N
        BY <4>1, <4>4
      <4> QED
        BY <3>2, <4>1, <4>2, <4>3, <4>4
    <3>4. \A n \in Nodes : n < at => n \in Statted
      <4>1. CASE pc = "stat"
        BY <4>1 DEF Statted, FanPcs
      <4>2. CASE pc = "hash"
        BY <3>1, <4>2 DEF Statted, FanPcs
      <4> QED
        BY <3>1, <4>1, <4>2
    <3>5. metas'[at] = MetaOf(file[at])
      <4>1. CASE StatFast \/ StatSlow
        BY <3>1, <4>1 DEF StatFast, StatSlow, Stat
      <4>2. CASE HashTouch \/ HashChanged
        <5>1. at \in Statted /\ metas' = metas
          BY <3>1, <4>2 DEF HashTouch, HashChanged, Statted, FanPcs
        <5> QED
          BY <5>1
      <4> QED
        BY <2>2, <4>1, <4>2
    <3>6. ASSUME NEW n \in Statted' PROVE metas'[n] = MetaOf(file[n])
      <4>0. n \in Nodes /\ n <= at /\ n \in Nat /\ at \in Nat
        BY <3>1, <3>3
      <4>1. n \in Nodes /\ (n = at \/ n < at)
        BY <4>0
      <4> QED
        BY <3>1, <3>4, <3>5, <4>1
    <3> QED
      BY <3>1, <3>6
  <2> QED
    BY <1>4, <2>1, <2>2 DEF Scan
<1>5. CASE Decide
  <2>1. CASE DecideNoop \/ DecideConflict
    BY <2>1 DEF DecideNoop, DecideConflict, Return, Statted, FanPcs
  <2>2. CASE DecidePropagate
    <3>1. Lowest(changed) \in Nodes
      BY <2>2, LowestIsMember DEF DecidePropagate
    <3>2. Statted = Nodes /\ Statted' \subseteq Nodes /\ UNCHANGED <<file, metas>>
      BY <2>2, <3>1 DEF DecidePropagate, Statted, FanPcs
    <3> QED
      BY <3>2
  <2> QED
    BY <1>5, <2>1, <2>2 DEF Decide
<1>6. CASE SourceRead \/ SourceGone \/ DstStat \/ DstStatFails \/ DstCapture \/ DstRecord
  <2>1. CASE SourceGone
    BY <2>1 DEF SourceGone, Return, Statted, FanPcs
  <2>2. CASE SourceRead \/ DstStat \/ DstStatFails \/ DstCapture \/ DstRecord
    <3>1. UNCHANGED <<file, src, changed, metas>> /\ pc \in FanPcs
      BY <2>2 DEF SourceRead, DstStat, DstStatFails, DstCapture, DstRecord, FanPcs
    <3>2. pc' \in FanPcs
      BY <2>2 DEF SourceRead, DstStat, DstStatFails, DstCapture, DstRecord, FanPcs, NextDst
    <3> QED
      BY <3>1, <3>2 DEF Statted, FanPcs
  <2> QED
    BY <1>6, <2>1, <2>2
<1>7. CASE DstWrite
  <2>1. /\ pc = "write" /\ pc' = "record" /\ UNCHANGED <<src, changed, metas>>
        /\ at \in Nodes /\ at # src /\ at \notin changed
        /\ \A n \in Nodes \ {at} : file'[n] = file[n]
    BY <1>7 DEF DstWrite, Control, WriteControl, WritePcs, Skip, ChangersHashed
  <2> QED
    BY <2>1 DEF Statted, FanPcs
<1>8. CASE TargetRecord
  <2>1. /\ pc = "record" /\ pc' = "read" /\ src' = at /\ changed' = {} /\ file' = file
        /\ metas'[at] = Written /\ at \in Nodes
    BY <1>8 DEF TargetRecord, Control, SourceKnown, WriteControl, ChangersHashed, FanPcs,
                WritePcs
  <2>2. MetaOf(file[at]) = Written
    <3>1. file[at] = [c |-> data, m |-> published] /\ file[at] # None
      BY <2>1, NoneAssumption DEF WrittenInv, Control, WriteControl, WritePcs, FanPcs, File, Mtime
    <3> QED
      BY <3>1 DEF MetaOf, Written
  <2> QED
    BY <2>1, <2>2 DEF Statted, FanPcs
<1>9. CASE Settle
  BY <1>9 DEF Settle, OwnRecord, MarkPoll, MarkChosen, Clear, Return, Statted, FanPcs
<1> QED
  BY <1>1, <1>2, <1>3, <1>4, <1>5, <1>6, <1>7, <1>8, <1>9 DEF Next, Step, FanOut

(* What was written stays as it was written until it is recorded. *)
LEMMA WrittenStep ==
  ASSUME ~MidPass, TypeInv, UndisturbedInv, [Next]_vars
  PROVE  WrittenInv'
<1> USE DEF TypeInv, TypeOK, UndisturbedInv, WrittenInv
<1>1. CASE World
  BY <1>1, UndisturbedWorld DEF opVars, Holds
<1>2. CASE Abort \/ PollPaused \/ PollStart \/ UNCHANGED vars
  BY <1>2 DEF Abort, PollPaused, PollStart, Return, vars, opVars, Holds
<1>3. CASE Request
  BY <1>3 DEF Request, Resolve, Restore
<1>4. CASE Scan
  BY <1>4 DEF Scan, StatFast, StatSlow, HashTouch, HashChanged, HashGone, NextScan, Return
<1>5. CASE Decide
  BY <1>5 DEF Decide, DecideNoop, DecideConflict, DecidePropagate, Return, Control, ScanControl
<1>6. CASE FanOut /\ ~TargetRecord /\ ~DstWrite
  BY <1>6 DEF FanOut, SourceRead, SourceGone, DstStat, DstStatFails, DstCapture,
              DstRecord, NextDst, Return
<1>7. CASE DstWrite
  <2>1. at \in Nodes
    BY <1>7 DEF DstWrite, Control, WriteControl, WritePcs
  <2> QED
    BY <1>7, <2>1 DEF DstWrite
<1>8. CASE TargetRecord
  <2>1. /\ pc = "record" /\ pc' = "read" /\ src' = at /\ file' = file /\ data' = data
        /\ at \in Nodes
    BY <1>8 DEF TargetRecord, Control, WriteControl, WritePcs
  <2>2. file[at] = [c |-> data, m |-> published] /\ file[at] # None
    BY <2>1, NoneAssumption DEF Control, WriteControl, WritePcs, FanPcs, File, Mtime
  <2> QED
    BY <2>1, <2>2 DEF Holds
<1>9. CASE Settle
  BY <1>9 DEF Settle, OwnRecord, MarkPoll, MarkChosen, Clear, Return
<1> QED
  BY <1>1, <1>2, <1>3, <1>4, <1>5, <1>6, <1>7, <1>8, <1>9 DEF Next, Step

(* A changer differs from its entry until the entry is recorded. *)
LEMMA UnsettledStep ==
  ASSUME ~MidPass, TypeInv, UndisturbedInv, [Next]_vars
  PROVE  UnsettledInv'
<1> USE NodesFacts DEF TypeInv, TypeOK, UndisturbedInv, UnsettledInv, Settled
<1>1. CASE World
  BY <1>1, UndisturbedWorld DEF opVars, Unrecorded
<1>2. CASE Abort \/ PollPaused \/ PollStart \/ UNCHANGED vars
  BY <1>2 DEF Abort, PollPaused, PollStart, Return, vars, storeVars, opVars, Unrecorded,
              Control, IdleClean
<1>3. CASE Request
  BY <1>3 DEF Request, Resolve, Restore, Unrecorded, Control, IdleClean
<1>4. CASE StatFast \/ StatSlow \/ HashTouch \/ HashChanged
  <2>1. /\ pc \in {"stat", "hash"} /\ pc' \in {"stat", "hash", "decide"} /\ at \in Nodes
        /\ file' = file /\ at \notin changed
        /\ \A n \in Nodes \ {at} : manifest'[n] = manifest[n]
        /\ changed' \subseteq changed \cup {at}
    BY <1>4 DEF StatFast, StatSlow, HashTouch, HashChanged, Stat, NextScan, Record,
                Control, ScanControl, storeVars
  <2>2. Unrecorded = changed /\ Unrecorded' = changed'
    BY <2>1 DEF Unrecorded
  <2>3. \A n \in {at} : n \in changed' => ~Settled(n)'
    <3>1. CASE StatFast
      BY <2>1, <3>1 DEF StatFast, storeVars
    <3>2. CASE StatSlow \/ HashTouch
      BY <2>1, <3>2 DEF StatSlow, HashTouch
    <3>3. CASE HashChanged
      BY <2>1, <3>3 DEF HashChanged, SameBytes, storeVars
    <3> QED
      BY <1>4, <3>1, <3>2, <3>3
  <2> QED
    BY <2>1, <2>2, <2>3
<1>5. CASE HashGone \/ SourceGone \/ Decide
  BY <1>5 DEF HashGone, SourceGone, Decide, DecideNoop, DecideConflict, DecidePropagate,
              Return, Unrecorded, storeVars
<1>6. CASE SourceRead \/ DstStat \/ DstStatFails \/ DstCapture
  <2>1. /\ pc \in {"read", "dstStat", "capture"} /\ pc' \notin {"idle", "clear"}
        /\ UNCHANGED <<file, manifest, changed>>
    BY <1>6 DEF SourceRead, DstStat, DstStatFails, DstCapture, NextDst, storeVars
  <2>2. Unrecorded = changed /\ Unrecorded' \subseteq changed'
    BY <2>1 DEF Unrecorded
  <2> QED
    BY <2>1, <2>2
<1>7. CASE DstWrite \/ DstRecord \/ TargetRecord
  <2>1. /\ pc \in {"write", "record"} /\ pc' \notin {"idle", "clear"}
        /\ changed' = changed /\ at \in Nodes /\ at \notin changed
        /\ \A n \in Nodes \ {at} : file'[n] = file[n] /\ manifest'[n] = manifest[n]
    <3>1. at \in Nodes /\ at \notin changed
      BY <1>7 DEF DstWrite, DstRecord, TargetRecord, Control, WriteControl, WritePcs, Skip,
                  ChangersHashed
    <3> QED
      BY <1>7, <3>1 DEF DstWrite, DstRecord, TargetRecord, Record, NextDst, storeVars
  <2>2. Unrecorded = changed /\ Unrecorded' \subseteq changed'
    BY <2>1 DEF Unrecorded
  <2> QED
    BY <2>1, <2>2
<1>8. CASE OwnRecord
  <2>1. /\ pc = "own" /\ UNCHANGED <<file, changed>> /\ at \in Nodes
        /\ \A n \in Nodes \ {at} : manifest'[n] = manifest[n]
    <3>1. at \in Nodes
      BY <1>8 DEF OwnRecord, Control, WriteControl, Owners, SourceKnown, FanPcs, WritePcs
    <3> QED
      BY <1>8, <3>1 DEF OwnRecord, Record
  <2>2. \/ pc' = "mark"
        \/ pc' = "own" /\ at' \in Nodes /\ at' > at
    <3> DEFINE rest == {n \in Owners : n > at}
    <3>1. rest \in SUBSET Nodes
      BY <1>8 DEF Owners, OwnRecord, Control, SourceKnown, FanPcs, WritePcs
    <3>2. rest # {} => Lowest(rest) \in rest
      BY <3>1, LowestIsMember
    <3> QED
      BY <1>8, <3>1, <3>2 DEF OwnRecord
  <2>3. \A n \in Unrecorded' : n \in Unrecorded /\ n # at
    BY <2>1, <2>2 DEF Unrecorded
  <2> QED
    BY <2>1, <2>3 DEF Unrecorded
<1>9. CASE MarkPoll \/ MarkChosen \/ Clear
  BY <1>9 DEF MarkPoll, MarkChosen, Clear, Return, Unrecorded
<1> QED
  BY <1>1, <1>2, <1>3, <1>4, <1>5, <1>6, <1>7, <1>8, <1>9
     DEF Next, Step, Scan, FanOut, Settle

(* A poll fans out what all its changers hold. *)
LEMMA AgreeStep ==
  ASSUME ~MidPass, TypeInv, BytesInv, UndisturbedInv, [Next]_vars
  PROVE  ChangersAgree'
<1> USE DEF TypeInv, TypeOK, UndisturbedInv, ChangersAgree, FanPcs, PastRead
<1>1. CASE World
  BY <1>1, UndisturbedWorld DEF opVars
<1>2. CASE Abort \/ PollPaused \/ PollStart \/ UNCHANGED vars
  BY <1>2 DEF Abort, PollPaused, PollStart, Return, vars, opVars
<1>3. CASE Request
  BY <1>3 DEF Request, Resolve, Restore
<1>4. CASE Scan
  BY <1>4 DEF Scan, StatFast, StatSlow, HashTouch, HashChanged, HashGone, NextScan, Return
<1>5. CASE DecideNoop \/ DecideConflict \/ SourceGone
  BY <1>5 DEF DecideNoop, DecideConflict, SourceGone, Return
<1>6. CASE DecidePropagate
  <2>1. Lowest(changed) \in changed
    BY <1>6, LowestIsMember DEF DecidePropagate
  <2> QED
    BY <1>6, <2>1 DEF DecidePropagate, Fork
<1>7. CASE SourceRead
  <2>1. kind = "poll" => Holds(src, hash[src])
    <3> SUFFICES ASSUME kind = "poll" PROVE Holds(src, hash[src])
      OBVIOUS
    <3>1. src \in changed \ moved /\ metas[src] # None /\ ~PastRead
      BY <1>7 DEF SourceRead, Control, SourceKnown
    <3> QED
      BY <3>1 DEF BytesInv
  <2> QED
    BY <1>7, <2>1 DEF SourceRead, Holds
<1>8. CASE DstStat \/ DstStatFails \/ DstCapture \/ DstWrite \/ DstRecord
  <2>1. pc \in FanPcs \ {"read"} /\ UNCHANGED <<kind, changed, hash, src, data>>
    BY <1>8 DEF DstStat, DstStatFails, DstCapture, DstWrite, DstRecord
  <2> QED
    BY <2>1
<1>9. CASE TargetRecord
  BY <1>9, NodesFacts DEF TargetRecord, Control, SourceKnown
<1>10. CASE Settle
  BY <1>10 DEF Settle, OwnRecord, MarkPoll, MarkChosen, Clear, Return
<1> QED
  BY <1>1, <1>2, <1>3, <1>4, <1>5, <1>6, <1>7, <1>8, <1>9, <1>10
     DEF Next, Step, Decide, FanOut

(* Where a fan-out moves on to, everyone before was written or skipped. *)
LEMMA MirrorNext ==
  ASSUME TypeInv, kind = "resolve" => src \in Nodes, UNCHANGED <<src, kind, changed>>,
         NEW n \in Nat, NextDst(n)
  PROVE  \A k \in Reached' : k \in Nodes /\ (k = src \/ k <= n \/ k \in Skip)
<1>1. \/ /\ pc' = "dstStat" /\ at' \in Later(n)
         /\ \A k \in Later(n) : at' <= k
      \/ pc' \in {"own", "mark"} /\ Later(n) = {}
  BY NextDstCases DEF TypeInv
<1>2. \A k \in Nodes : k # src /\ ~(k <= n) /\ k \notin Skip => k \in Later(n)
  BY NodesFacts DEF Later
<1>3. CASE pc' = "dstStat" /\ at' \in Later(n) /\ \A k \in Later(n) : at' <= k
  <2>1. Reached' = {k \in Nodes : k = src \/ k < at'}
    BY <1>3 DEF Reached
  <2>2. \A k \in Later(n) : ~(k < at')
    BY <1>3, NodesFacts DEF Later
  <2> QED
    BY <1>2, <2>1, <2>2
<1>4. CASE pc' \in {"own", "mark"} /\ Later(n) = {}
  BY <1>2, <1>4 DEF Reached
<1> QED
  BY <1>1, <1>3, <1>4

(* A fan-out leaves every member it passes with its data. *)
LEMMA MirrorStep ==
  ASSUME ~MidPass, TypeInv, BytesInv, UndisturbedInv, [Next]_vars
  PROVE  MirrorInv'
<1> USE NodesFacts DEF TypeInv, TypeOK, UndisturbedInv, MirrorInv, FanPcs, PastRead
<1>1. CASE World
  BY <1>1, UndisturbedWorld DEF opVars, Reached, Skip, Holds
<1>2. CASE Abort \/ PollPaused \/ PollStart \/ UNCHANGED vars
  BY <1>2 DEF Abort, PollPaused, PollStart, Return, vars, opVars, Reached, Skip, Holds
<1>3. CASE Request
  BY <1>3 DEF Request, Resolve, Restore, Control, IdleClean
<1>4. CASE Scan \/ Decide \/ SourceGone
  BY <1>4 DEF Scan, StatFast, StatSlow, HashTouch, HashChanged, HashGone, NextScan, Return,
              Decide, DecideNoop, DecideConflict, DecidePropagate, SourceGone
<1>5. CASE SourceRead
  <2>1. /\ UNCHANGED <<file, src, kind, changed>> /\ src \in Nodes /\ NextDst(0)
        /\ Holds(src, data')
    BY <1>5 DEF SourceRead, Control, SourceKnown, WritePcs, Holds
  <2>2. \A k \in Reached' : k \in Nodes /\ (k = src \/ k \in Skip)
    <3>1. \A k \in Reached' : k \in Nodes /\ (k = src \/ k <= 0 \/ k \in Skip)
      BY <2>1, MirrorNext
    <3>2. \A k \in Nodes : ~(k <= 0)
      OBVIOUS
    <3> QED
      BY <3>1, <3>2
  <2>3. \A k \in Skip : Holds(k, data')
    <3> TAKE k \in Skip
    <3>1. kind = "poll" /\ k \in changed /\ metas[k] # None /\ ~PastRead
      BY <1>5 DEF Skip, SourceRead, Control, SourceKnown
    <3>2. Holds(k, hash[k])
      BY <3>1 DEF BytesInv
    <3>3. src \in changed /\ metas[src] # None
      BY <1>5, <3>1 DEF SourceRead, Control, SourceKnown
    <3>4. Holds(src, hash[src])
      BY <3>1, <3>3 DEF BytesInv
    <3>5. hash[k] = hash[src]
      BY <1>5, <3>1 DEF SourceRead, ChangersAgree
    <3> QED
      BY <2>1, <3>2, <3>4, <3>5 DEF Holds
  <2>4. Skip' = Skip
    BY <2>1 DEF Skip
  <2> QED
    BY <2>1, <2>2, <2>3, <2>4 DEF Holds
<1>6. CASE DstStat \/ DstStatFails \/ DstCapture
  <2>1. /\ pc \in {"dstStat", "capture"} /\ pc' \in {"capture", "write"}
        /\ UNCHANGED <<file, kind, src, at, changed, data>>
    BY <1>6 DEF DstStat, DstStatFails, DstCapture
  <2>2. Reached' = Reached /\ Skip' = Skip
    BY <2>1 DEF Reached, Skip
  <2> QED
    BY <2>1, <2>2 DEF Holds
<1>7. CASE DstWrite
  <2>1. /\ pc = "write" /\ pc' = "record" /\ UNCHANGED <<kind, src, at, changed, data>>
        /\ at \in Nodes
        /\ \A n \in Nodes \ {at} : file'[n] = file[n]
        /\ file'[at] = [c |-> data, m |-> published']
    BY <1>7 DEF DstWrite, Control, WriteControl, WritePcs
  <2>2. file'[at] # None
    <3>1. data \in Contents /\ published' \in Mtime
      <4>1. pc \in WritePcs /\ data \in Contents
        BY <2>1 DEF Control, WriteControl, WritePcs
      <4>2. UserChose \in BOOLEAN
        BY DEF UserChose
      <4> QED
        BY <1>7, <4>1, <4>2, SrcMtimeType, PublishMtimeType DEF DstWrite
    <3>2. [c |-> data, m |-> published'] \in File
      BY <3>1 DEF File
    <3> QED
      BY <2>1, <3>2, NoneAssumption
  <2>3. Skip' = Skip /\ Reached' \subseteq Reached \cup {at}
    BY <2>1 DEF Skip, Reached
  <2>4. Holds(at, data)'
    BY <2>1, <2>2 DEF Holds
  <2>5. \A k \in Reached \cup Skip : k \in Nodes
    BY DEF Reached, Skip
  <2> QED
    BY <2>1, <2>3, <2>4, <2>5 DEF Holds
<1>8. CASE DstRecord
  <2>1. /\ pc = "record" /\ src \in Nodes /\ at \in Nodes /\ NextDst(at)
        /\ UNCHANGED <<file, kind, src, data, changed>>
    BY <1>8 DEF DstRecord, Control, SourceKnown, WriteControl, WritePcs
  <2>2. Skip' = Skip
    BY <2>1 DEF Skip
  <2>3. \A k \in Reached' : k \in Nodes /\ (k = src \/ k <= at \/ k \in Skip)
    BY <2>1, MirrorNext
  <2>4. Reached = {k \in Nodes : k = src \/ k <= at}
    BY <2>1 DEF Reached
  <2> QED
    BY <2>1, <2>2, <2>3, <2>4 DEF Holds
<1>9. CASE TargetRecord
  BY <1>9 DEF TargetRecord
<1>10. CASE Settle
  <2>1. CASE OwnRecord \/ MarkChosen
    <3>1. /\ pc \in {"own", "mark"} /\ pc' \in {"own", "mark", "clear"}
          /\ UNCHANGED <<file, kind, src, data, changed>>
      BY <2>1 DEF OwnRecord, MarkChosen
    <3>2. Skip' = Skip /\ Reached' = Reached
      BY <3>1 DEF Skip, Reached
    <3> QED
      BY <3>1, <3>2 DEF Holds
  <2>2. CASE MarkPoll \/ Clear
    BY <2>2 DEF MarkPoll, Clear, Return
  <2> QED
    BY <1>10, <2>1, <2>2 DEF Settle
<1> QED
  BY <1>1, <1>2, <1>3, <1>4, <1>5, <1>6, <1>7, <1>8, <1>9, <1>10 DEF Next, Step, FanOut

(* A conflict being resolved stays flagged. *)
LEMMA ResolveStep ==
  ASSUME TypeInv, kind = "resolve" => conflicted, [Next]_vars
  PROVE  kind' = "resolve" => conflicted'
<1> SUFFICES ASSUME kind' = "resolve" PROVE conflicted'
  OBVIOUS
<1>1. conflicted
  <2>1. kind = "resolve" \/ \E w \in Nodes : Resolve(w)
    <3>1. CASE World \/ UNCHANGED vars
      BY <3>1 DEF World, DeviceWrite, Age, vars, opVars
    <3>2. CASE Abort \/ PollPaused \/ PollStart
      BY <3>2 DEF Abort, PollPaused, PollStart, Return, vars, opVars
    <3>3. CASE Request
      BY <3>3 DEF Request, Restore
    <3>4. CASE Scan \/ Decide
      BY <3>4 DEF Scan, StatFast, StatSlow, HashTouch, HashChanged, HashGone,
                  Decide, DecideNoop, DecideConflict, DecidePropagate, Return
    <3>5. CASE FanOut \/ Settle
      BY <3>5 DEF FanOut, SourceRead, SourceGone, DstStat, DstStatFails, DstCapture,
                  DstWrite, DstRecord, TargetRecord, Settle, OwnRecord, MarkPoll,
                  MarkChosen, Clear, Return
    <3> QED
      BY <3>1, <3>2, <3>3, <3>4, <3>5 DEF Next, Step
  <2> QED
    BY <2>1 DEF Resolve
<1> QED
  BY <1>1, OnlyClearClears DEF Clear, Return

(* Every step keeps what holds while devices wait for the lock. *)
LEMMA UndisturbedStep ==
  ASSUME ~MidPass, TypeInv, BytesInv, UndisturbedInv, [Next]_vars
  PROVE  UndisturbedInv'
BY MovedStep, StatsStep, WrittenStep, UnsettledStep, AgreeStep, MirrorStep, ResolveStep
   DEF UndisturbedInv

-----------------------------------------------------------------------------
(* As long as no call has failed *)

(* Neither of the steps that fail is taken. *)
LEMMA NoFailure ==
  ASSUME TypeInv, faults = 0, faults' = 0
  PROVE  ~Abort /\ ~DstStatFails
BY DEF Abort, DstStatFails, TypeInv, TypeOK

(* A member recorded as it is, is quiet. *)
LEMMA RecordQuiet ==
  ASSUME TypeInv, moved = {}, NEW n \in Nodes, NEW meta, NEW h \in Contents,
         Record(n, meta, h), file' = file, Holds(n, h), meta = MetaOf(file[n])
  PROVE  /\ Quiet(n)' /\ manifest'[n] # None /\ manifest'[n].h = h
         /\ edited' = edited \ {n}
         /\ \A k \in Nodes \ {n} : manifest'[k] = manifest[k] /\ (Quiet(k) => Quiet(k)')
<1> USE DEF TypeInv, TypeOK
<1>1. manifest' = [manifest EXCEPT ![n] = EntryOf(meta, h)] /\ edited' = edited \ {n}
  BY DEF Record
<1>2. meta \in Meta
  BY MetaOfType DEF Holds
<1>3. EntryOf(meta, h) \in Entry /\ ~StatDiffers(EntryOf(meta, h), meta)
  BY <1>2, EntryOfType, RecordedIsQuiet
<1>4. EntryOf(meta, h) # None /\ EntryOf(meta, h).h = h
  BY <1>3, NoneAssumption DEF EntryOf
<1>5. manifest'[n] = EntryOf(meta, h)
  BY <1>1
<1>6. Quiet(n)'
  BY <1>3, <1>4, <1>5 DEF Quiet, Settled, Holds
<1>7. \A k \in Nodes \ {n} : manifest'[k] = manifest[k] /\ (Quiet(k) => Quiet(k)')
  BY <1>1 DEF Quiet, Settled
<1> QED
  BY <1>1, <1>4, <1>5, <1>6, <1>7

(* What is recorded of an owner is what it holds, which is what the others
   received. *)
LEMMA OwnIsHeld ==
  ASSUME TypeInv, BytesInv, UndisturbedInv, OwnRecord
  PROVE  /\ at \in Nodes /\ data \in Contents /\ Holds(at, data)
         /\ metas[at] = MetaOf(file[at])
         /\ Record(at, metas[at], data)
<1> USE DEF TypeInv, TypeOK, UndisturbedInv, FanPcs, WritePcs
<1>1. /\ pc = "own" /\ at \in Owners /\ src \in Nodes /\ data \in Contents
      /\ Record(at, metas[at], IF at = src THEN data ELSE hash[at])
  BY DEF OwnRecord, Control, WriteControl, SourceKnown
<1>2. PastRead
  BY <1>1, NodesFacts DEF PastRead
<1>3. at = src \/ (kind = "poll" /\ at \in changed /\ src \in changed)
  BY <1>1 DEF Owners, Control, SourceKnown
<1>4. at \in Nodes /\ at \in Statted
  BY <1>1, <1>3, NodesFacts DEF Statted
<1>5. at # src => hash[at] = data
  BY <1>1, <1>2, <1>3 DEF ChangersAgree
<1>6. Holds(at, data)
  BY <1>1, <1>2, <1>4, NodesFacts DEF MirrorInv, Reached
<1> QED
  BY <1>1, <1>4, <1>5, <1>6 DEF StatsInv

(* What a touch records is what the member holds. *)
LEMMA TouchIsHeld ==
  ASSUME TypeInv, UndisturbedInv, HashTouch
  PROVE  /\ at \in Nodes /\ file[at].c \in Contents /\ Holds(at, file[at].c)
         /\ metas[at] = MetaOf(file[at]) /\ file' = file
         /\ Record(at, metas[at], file[at].c)
<1> USE NodesFacts DEF TypeInv, TypeOK, UndisturbedInv
<1>1. pc = "hash" /\ at \in Nodes /\ file[at] # None
  BY DEF HashTouch, Control, ScanControl
<1>2. at \in Statted
  BY <1>1 DEF Statted, FanPcs
<1>3. file[at].c \in Contents
  BY <1>1 DEF FileOrNone, File
<1> QED
  BY <1>1, <1>2, <1>3 DEF StatsInv, HashTouch, Holds

(* What is recorded of a written member is what was written. *)
LEMMA WrittenIsHeld ==
  ASSUME TypeInv, UndisturbedInv, DstRecord \/ TargetRecord
  PROVE  /\ at \in Nodes /\ data \in Contents /\ Holds(at, data)
         /\ Written = MetaOf(file[at]) /\ file' = file
         /\ Record(at, Written, data)
<1> USE DEF TypeInv, TypeOK, UndisturbedInv
<1>1. pc = "record" /\ at \in Nodes /\ data \in Contents
  BY DEF DstRecord, TargetRecord, Control, WriteControl, WritePcs, FanPcs
<1>2. file[at] = [c |-> data, m |-> published] /\ file[at] # None
  BY <1>1, NoneAssumption DEF WrittenInv, Control, WriteControl, File, Mtime
<1>3. Holds(at, data) /\ Written = MetaOf(file[at])
  BY <1>2 DEF Holds, Written, MetaOf
<1> QED
  BY <1>1, <1>3 DEF DstRecord, TargetRecord

(* Only a device unsettles a member, and only until it is recorded again. *)
LEMMA QuietStep ==
  ASSUME ~MidPass, TypeInv, BytesInv, UndisturbedInv, QuietInv, faults = 0, faults' = 0,
         [Next]_vars
  PROVE  QuietInv'
<1> USE DEF TypeInv, TypeOK
<1>0. ASSUME UNCHANGED <<file, manifest, edited>>, pc # "record"
      PROVE  QuietInv'
  BY <1>0 DEF QuietInv, Quiet, Settled
<1>1. CASE World
  <2>1. CASE pc = "idle"
    BY <1>1, <2>1, UndisturbedWorld DEF QuietInv, Quiet, Settled
  <2>2. CASE pc # "idle"
    BY <1>1, <2>2, UndisturbedWorld DEF QuietInv, Quiet, Settled, opVars
  <2> QED
    BY <2>1, <2>2
<1>2. CASE PollPaused \/ UNCHANGED vars
  BY <1>2 DEF PollPaused, QuietInv, Quiet, Settled, vars, storeVars, opVars, history
<1>3. CASE PollStart \/ Request
  BY <1>0, <1>3 DEF PollStart, Request, Resolve, Restore, storeVars, history
<1>4. CASE StatFast \/ StatSlow \/ HashChanged \/ HashGone \/ Decide
  BY <1>0, <1>4 DEF StatFast, StatSlow, Stat, HashChanged, HashGone, Decide, DecideNoop,
                    DecideConflict, DecidePropagate, storeVars, history
<1>5. CASE SourceRead \/ SourceGone \/ DstStat \/ DstCapture
  BY <1>0, <1>5 DEF SourceRead, SourceGone, DstStat, DstCapture, storeVars, history
<1>6. CASE DstWrite
  <2>1. /\ pc = "write" /\ pc' = "record" /\ at' = at
        /\ UNCHANGED <<manifest, edited>>
        /\ \A n \in Nodes \ {at} : file'[n] = file[n]
    BY <1>6 DEF DstWrite, storeVars
  <2> QED
    BY <2>1 DEF QuietInv, Quiet, Settled
<1>8. ASSUME NEW n \in Nodes, NEW meta, NEW h \in Contents,
             Record(n, meta, h), file' = file, Holds(n, h), meta = MetaOf(file[n]),
             pc = "record" => n = at
      PROVE  QuietInv'
  <2>1. /\ Quiet(n)' /\ edited' = edited \ {n}
        /\ \A k \in Nodes \ {n} : Quiet(k) => Quiet(k)'
    BY <1>8, RecordQuiet DEF UndisturbedInv
  <2> QED
    BY <1>8, <2>1 DEF QuietInv
<1>9. CASE HashTouch
  BY <1>8, <1>9, TouchIsHeld DEF HashTouch
<1>10. CASE DstRecord \/ TargetRecord
  BY <1>8, <1>10, WrittenIsHeld
<1>11. CASE OwnRecord
  BY <1>8, <1>11, OwnIsHeld DEF OwnRecord
<1>12. CASE MarkPoll \/ MarkChosen \/ Clear
  BY <1>0, <1>12 DEF MarkPoll, MarkChosen, Clear, history
<1> QED
  BY <1>1, <1>2, <1>3, <1>4, <1>5, <1>6, <1>9, <1>10, <1>11, <1>12, NoFailure
     DEF Next, Step, Scan, FanOut, Settle

(* Where a fan-out moves on to, everyone before has been recorded. *)
LEMMA RecordedNext ==
  ASSUME TypeInv, src \in Nodes, kind = "poll" => src \in changed,
         UNCHANGED <<src, kind, changed>>, NEW n \in Nat, NextDst(n)
  PROVE  /\ ~Untouched'
         /\ \A k \in Recorded' :
              /\ k \in Nodes
              /\ \/ k = src /\ kind = "restore"
                 \/ k # src /\ k \notin Skip /\ k <= n
<1> USE NodesFacts DEF TypeInv, TypeOK
<1>1. Skip' = Skip /\ Owners' = Owners
  BY DEF Skip, Owners
<1>2. \A k \in Nodes : k # src /\ ~(k <= n) /\ k \notin Skip => k \in Later(n)
  BY DEF Later
<1>3. CASE pc' = "dstStat" /\ at' \in Later(n) /\ \A k \in Later(n) : at' <= k
  <2>1. Recorded' = {k \in Nodes \ (Skip \cup {src}) : k < at'}
                      \cup {k \in {src} : kind = "restore"}
    BY <1>1, <1>3 DEF Recorded, WritePcs
  <2>2. \A k \in Later(n) : ~(k < at')
    BY <1>3 DEF Later
  <2> QED
    BY <1>2, <1>3, <2>1, <2>2 DEF Untouched
<1>4. CASE pc' = "own" /\ at' \in Nodes /\ Later(n) = {} /\ \A k \in Owners : at' <= k
  <2>1. Recorded' = {k \in Nodes : k \in Owners => k < at'}
    BY <1>1, <1>4 DEF Recorded, WritePcs
  <2>2. \A k \in Nodes : k \in Owners => ~(k < at')
    BY <1>4
  <2>3. \A k \in Recorded' : k \in Nodes /\ k \notin Owners
    BY <2>1, <2>2
  <2>4. \A k \in Nodes : k \notin Owners => (k = src => kind = "restore") /\ k \notin Skip
    BY DEF Owners, Skip
  <2> QED
    BY <1>2, <1>4, <2>3, <2>4 DEF Untouched, WritePcs
<1>5. CASE pc' = "mark" /\ Later(n) = {} /\ Owners = {}
  <2>1. kind = "restore" /\ Skip = {}
    BY <1>5 DEF Owners, Skip
  <2> QED
    BY <1>2, <1>5, <2>1 DEF Untouched, WritePcs, Recorded
<1> QED
  BY <1>3, <1>4, <1>5, NextDstCases

(* No operation ends with entries of two contents. *)
LEMMA EntriesStep ==
  ASSUME ~MidPass, TypeInv, BytesInv, UndisturbedInv, EntriesInv, faults = 0, faults' = 0,
         [Next]_vars
  PROVE  EntriesInv'
<1> USE DEF TypeInv, TypeOK
<1>0. ASSUME manifest' = manifest, Untouched, Untouched'
      PROVE  EntriesInv'
  BY <1>0 DEF EntriesInv, Agreed
<1>1. CASE World \/ PollPaused \/ UNCHANGED vars
  <2>1. UNCHANGED <<manifest, opVars>>
    BY <1>1, UndisturbedWorld DEF PollPaused, vars, storeVars
  <2> QED
    BY <2>1 DEF EntriesInv, Agreed, Untouched, Recorded, Skip, Owners, opVars
<1>2. CASE PollStart \/ Request
  BY <1>0, <1>2 DEF PollStart, Request, Resolve, Restore, storeVars, Untouched, WritePcs,
                    Control, IdleClean
<1>3. CASE StatFast \/ StatSlow \/ HashChanged \/ HashGone \/ Decide
  BY <1>0, <1>3 DEF StatFast, StatSlow, Stat, HashChanged, HashGone, Decide, DecideNoop,
                    DecideConflict, DecidePropagate, NextScan, Return, storeVars, Untouched,
                    Control, ScanControl
<1>4. CASE HashTouch
  <2>1. /\ at \in Nodes /\ file[at].c \in Contents
        /\ manifest'[at] # None /\ manifest'[at].h = file[at].c
        /\ \A k \in Nodes \ {at} : manifest'[k] = manifest[k]
    BY <1>4, TouchIsHeld, RecordQuiet DEF UndisturbedInv
  <2>2. manifest[at] # None /\ manifest[at].h = file[at].c
    BY <1>4 DEF HashTouch, SameBytes
  <2>3. Untouched /\ Untouched'
    BY <1>4 DEF HashTouch, NextScan, Untouched
  <2> QED
    BY <2>1, <2>2, <2>3 DEF EntriesInv, Agreed
<1>5. CASE SourceGone
  <2>1. kind # "restore"
    BY <1>5 DEF SourceGone, UndisturbedInv, WrittenInv, Holds
  <2> QED
    BY <1>0, <1>5, <2>1 DEF SourceGone, Return, Untouched, storeVars
<1>6. CASE SourceRead
  <2>1. /\ src \in Nodes
        /\ kind = "poll" => src \in changed
        /\ UNCHANGED <<manifest, src, kind, changed>> /\ NextDst(0) /\ data' = file[src].c
    BY <1>6 DEF SourceRead, storeVars, Control, SourceKnown, FanPcs, WritePcs
  <2>2. /\ ~Untouched'
        /\ \A k \in Recorded' : k \in Nodes /\ ((k = src /\ kind = "restore") \/ k <= 0)
    BY <2>1, RecordedNext
  <2>3. \A k \in Recorded' : k = src /\ kind = "restore"
    <3>1. \A k \in Nodes : k \in Nat /\ k # 0
      BY NodesFacts
    <3>2. \A k \in Nodes : ~(k <= 0)
      BY <3>1
    <3> QED
      BY <2>2, <3>2
  <2>4. kind = "restore" => manifest[src] # None /\ manifest[src].h = data'
    <3> SUFFICES ASSUME kind = "restore" PROVE manifest[src] # None /\ manifest[src].h = data'
      OBVIOUS
    <3>1. data' = data
      BY <1>6, <2>1 DEF SourceRead, UndisturbedInv, WrittenInv, Holds
    <3>2. ~Untouched /\ src \in Recorded
      BY <1>6 DEF SourceRead, Untouched, Recorded, WritePcs
    <3> QED
      BY <3>1, <3>2 DEF EntriesInv
  <2> QED
    BY <2>1, <2>2, <2>3, <2>4 DEF EntriesInv
<1>7. CASE DstStat \/ DstCapture \/ DstWrite
  <2>1. /\ UNCHANGED <<manifest, kind, changed, src, at, data>>
        /\ pc \in WritePcs /\ pc' \in WritePcs
    BY <1>7 DEF DstStat, DstCapture, DstWrite, storeVars, WritePcs
  <2>2. (Untouched <=> src = 0) /\ (Untouched' <=> src = 0)
    BY <2>1 DEF Untouched, WritePcs
  <2>3. Recorded' = Recorded
    BY <2>1 DEF Recorded, WritePcs, Skip
  <2> QED
    BY <2>1, <2>2, <2>3 DEF EntriesInv, Agreed
<1>8. CASE DstRecord
  <2>1. /\ src \in Nodes
        /\ kind = "poll" => src \in changed
        /\ UNCHANGED <<data, src, kind, changed>> /\ NextDst(at) /\ pc = "record"
    BY <1>8 DEF DstRecord, Control, SourceKnown, FanPcs, WritePcs
  <2>2. /\ at \in Nodes /\ manifest'[at] # None /\ manifest'[at].h = data
        /\ \A k \in Nodes \ {at} : manifest'[k] = manifest[k]
    BY <1>8, WrittenIsHeld, RecordQuiet DEF UndisturbedInv
  <2>3. ~Untouched /\ Recorded = {n \in Nodes \ (Skip \cup {src}) : n < at}
                                   \cup {n \in {src} : kind = "restore"}
    BY <2>1, NodesFacts DEF Untouched, Recorded, WritePcs
  <2>4. /\ ~Untouched'
        /\ \A k \in Recorded' :
             /\ k \in Nodes
             /\ \/ k = src /\ kind = "restore"
                \/ k # src /\ k \notin Skip /\ k <= at
    BY <2>1, <2>2, NodesFacts, RecordedNext
  <2>5. \A k \in Recorded' : k \in Nodes /\ (k = at \/ k \in Recorded)
    BY <2>2, <2>3, <2>4, NodesFacts
  <2> QED
    BY <2>1, <2>2, <2>3, <2>4, <2>5 DEF EntriesInv
<1>9. CASE TargetRecord
  <2>1. /\ pc' = "read" /\ src' = at /\ data' = data /\ kind' = "restore"
    BY <1>9, NodesFacts DEF TargetRecord, Control, SourceKnown, FanPcs
  <2>2. /\ at \in Nodes /\ manifest'[at] # None /\ manifest'[at].h = data
    BY <1>9, WrittenIsHeld, RecordQuiet DEF UndisturbedInv
  <2>3. ~Untouched' /\ Recorded' = {at}
    BY <2>1 DEF Untouched, Recorded, WritePcs
  <2> QED
    BY <2>1, <2>2, <2>3 DEF EntriesInv
<1>10. CASE OwnRecord
  <2>1. /\ at \in Nodes /\ manifest'[at] # None /\ manifest'[at].h = data
        /\ \A k \in Nodes \ {at} : manifest'[k] = manifest[k]
    BY <1>10, OwnIsHeld, RecordQuiet DEF UndisturbedInv, OwnRecord
  <2>2. /\ pc = "own" /\ UNCHANGED <<kind, changed, src, data>>
        /\ \/ pc' = "mark" /\ {n \in Owners : n > at} = {}
           \/ /\ pc' = "own" /\ at' \in Nodes
              /\ \A k \in Owners : k > at => at' <= k
    <3> DEFINE rest == {n \in Owners : n > at}
    <3>1. rest \in SUBSET Nodes
      BY <1>10 DEF Owners, OwnRecord, Control, SourceKnown, FanPcs, WritePcs
    <3>2. rest # {} => Lowest(rest) \in rest /\ \A k \in rest : Lowest(rest) <= k
      BY <3>1, LowestIsMember
    <3> QED
      BY <1>10, <3>1, <3>2 DEF OwnRecord
  <2>3. /\ ~Untouched /\ ~Untouched' /\ Owners' = Owners
        /\ Recorded = {n \in Nodes : n \in Owners => n < at}
    BY <2>2 DEF Untouched, WritePcs, Recorded, Owners
  <2>4. \A k \in Recorded' : k \in Nodes /\ (k = at \/ k \in Recorded)
    <3>1. CASE pc' = "mark" /\ {n \in Owners : n > at} = {}
      <4>1. \A k \in Nodes : k \in Owners => ~(k > at)
        BY <3>1
      <4> QED
        BY <2>1, <2>3, <3>1, <4>1, NodesFacts DEF Recorded, WritePcs
    <3>2. CASE pc' = "own" /\ at' \in Nodes /\ \A k \in Owners : k > at => at' <= k
      <4>1. Recorded' = {n \in Nodes : n \in Owners => n < at'}
        BY <2>3, <3>2 DEF Recorded, WritePcs
      <4>2. ASSUME NEW k \in Recorded' PROVE k \in Nodes /\ (k = at \/ k \in Recorded)
        <5>1. k \in Nodes /\ at \in Nodes /\ at' \in Nodes /\ (k \in Owners => k < at')
          BY <2>1, <3>2, <4>1
        <5>2. k \in Nat /\ at \in Nat /\ at' \in Nat
          BY <5>1, NodesFacts
        <5>3. k \in Owners => ~(k > at)
          BY <3>2, <5>1, <5>2
        <5> QED
          BY <2>3, <5>1, <5>2, <5>3
      <4> QED
        BY <4>2
    <3> QED
      BY <2>2, <3>1, <3>2
  <2> QED
    BY <2>1, <2>2, <2>3, <2>4 DEF EntriesInv
<1>11. CASE MarkPoll \/ Clear \/ MarkChosen
  <2>1. /\ pc \in {"mark", "clear"} /\ manifest' = manifest /\ data \in Contents
        /\ \/ pc' = "idle"
           \/ pc' = "clear" /\ data' = data
    BY <1>11 DEF MarkPoll, Clear, MarkChosen, Return, Control, WriteControl, FanPcs, WritePcs
  <2>2. \A k \in Nodes : manifest[k] # None /\ manifest[k].h = data
    BY <2>1 DEF EntriesInv, Untouched, Recorded, WritePcs
  <2>3. CASE pc' = "idle"
    BY <2>1, <2>2, <2>3 DEF EntriesInv, Untouched, Agreed
  <2>4. CASE pc' = "clear" /\ data' = data
    BY <2>1, <2>2, <2>4 DEF EntriesInv, Untouched, Recorded, WritePcs
  <2> QED
    BY <2>1, <2>3, <2>4
<1> QED
  BY <1>1, <1>2, <1>3, <1>4, <1>5, <1>6, <1>7, <1>8, <1>9, <1>10, <1>11, NoFailure
     DEF Next, Step, Scan, FanOut, Settle

(* A sync just created satisfies the invariant. *)
LEMMA QuietInit ==
  ASSUME Init
  PROVE  BetweenIInv
<1>1. TypeInv /\ BytesInv
  BY TypeInit DEF Init, BytesInv, PastRead, FanPcs
<1>2. UndisturbedInv
  BY DEF Init, UndisturbedInv, StatsInv, Statted, WrittenInv, UnsettledInv, Unrecorded,
         ChangersAgree, MirrorInv, PastRead, FanPcs
<1>3. QuietInv
  <2> SUFFICES ASSUME NEW n \in Nodes \ edited PROVE Quiet(n)
    BY DEF QuietInv
  <2>1. file[n] = None /\ manifest[n] = None
    BY DEF Init, AllNone
  <2> QED
    BY <2>1 DEF Quiet, Settled, StatDiffers, MetaOf
<1>4. EntriesInv
  BY DEF Init, EntriesInv, Untouched, Agreed, AllNone
<1> QED
  BY <1>1, <1>2, <1>3, <1>4 DEF BetweenIInv, FaultlessInv

(* Failures are only ever counted up. *)
LEMMA FaultsGrow ==
  ASSUME TypeInv, [Next]_vars, faults' = 0
  PROVE  faults = 0
<1> USE DEF TypeInv, TypeOK
<1>1. CASE World
  BY <1>1 DEF World, DeviceWrite, Age, history
<1>2. CASE Abort \/ PollPaused \/ PollStart \/ UNCHANGED vars
  BY <1>2 DEF Abort, PollPaused, PollStart, vars, history
<1>3. CASE Request
  BY <1>3 DEF Request, Resolve, Restore
<1>4. CASE Scan \/ Decide
  BY <1>4 DEF Scan, StatFast, StatSlow, HashTouch, HashChanged, HashGone,
              Decide, DecideNoop, DecideConflict, DecidePropagate, history
<1>5. CASE FanOut \/ Settle
  BY <1>5 DEF FanOut, SourceRead, SourceGone, DstStat, DstStatFails, DstCapture, DstWrite,
              DstRecord, TargetRecord, Settle, OwnRecord, MarkPoll, MarkChosen, Clear, history
<1> QED
  BY <1>1, <1>2, <1>3, <1>4, <1>5 DEF Next, Step

(* Every step keeps the invariant. *)
LEMMA QuietIStep ==
  ASSUME ~MidPass, BetweenIInv, [Next]_vars
  PROVE  BetweenIInv'
<1>1. TypeInv' /\ BytesInv'
  BY TypeStep, BytesStep DEF BetweenIInv
<1>2. UndisturbedInv'
  BY UndisturbedStep DEF BetweenIInv
<1>3. ASSUME faults' = 0 PROVE QuietInv' /\ EntriesInv'
  <2>1. faults = 0
    BY <1>3, FaultsGrow DEF BetweenIInv
  <2>2. QuietInv /\ EntriesInv
    BY <2>1 DEF BetweenIInv, FaultlessInv
  <2> QED
    BY <1>3, <2>1, <2>2, QuietStep, EntriesStep DEF BetweenIInv
<1> QED
  BY <1>1, <1>2, <1>3 DEF BetweenIInv, FaultlessInv

(* Between two reads of it nothing an operation knows can change, and as long
   as no call failed every entry describes its file unless a device wrote it,
   and all entries agree but while a fan-out is recording (Poll, fanOut). *)
THEOREM BetweenInvariantHolds ==
  ASSUME ~MidPass
  PROVE  Spec => []BetweenIInv
BY QuietInit, QuietIStep, PTL DEF Spec

(* Entries of one content and files as their entries say: a mirror. *)
LEMMA AgreedMirrors ==
  ASSUME Agreed, \A n \in Nodes : Settled(n)
  PROVE  Mirrored
<1>1. CASE \A n \in Nodes : manifest[n] = None
  BY <1>1 DEF Settled, Mirrored
<1>2. ASSUME NEW h \in Contents, \A n \in Nodes : manifest[n] # None /\ manifest[n].h = h
      PROVE  Mirrored
  <2>1. \A n \in Nodes : Holds(n, h)
    BY <1>2 DEF Settled, Holds
  <2> QED
    BY <2>1 DEF Mirrored
<1> QED
  BY <1>1, <1>2 DEF Agreed

(* A sync at rest is a mirror: when every entry describes its file and nobody
   is waiting for a human, all members hold the same save (Poll, fanOut,
   ResolveConflict, RestoreVersion). *)
THEOREM SettledMeansMirroredHolds ==
  ASSUME ~MidPass
  PROVE  Spec => []SettledMeansMirroredFaultless
<1>1. BetweenIInv => SettledMeansMirroredFaultless
  <2> SUFFICES ASSUME BetweenIInv, faults = 0, pc = "idle", \A n \in Nodes : Settled(n)
               PROVE  Mirrored
    BY DEF SettledMeansMirroredFaultless, SettledMeansMirrored
  <2>1. Agreed
    BY DEF BetweenIInv, FaultlessInv, EntriesInv, Untouched
  <2> QED
    BY <2>1, AgreedMirrors
<1> QED
  BY <1>1, BetweenInvariantHolds, PTL

(* Only a decision flags a conflict. *)
LEMMA OnlyDecideFlags ==
  ASSUME TypeInv, [Next]_vars, ~conflicted, conflicted'
  PROVE  DecideConflict
<1>1. CASE World \/ Request
  BY <1>1 DEF World, DeviceWrite, Age, Request, Resolve, Restore, storeVars
<1>2. CASE Abort \/ PollStart \/ PollPaused \/ UNCHANGED vars
  BY <1>2 DEF Abort, PollStart, PollPaused, vars, storeVars
<1>3. CASE Scan \/ DecideNoop \/ DecidePropagate
  BY <1>3 DEF Scan, StatFast, StatSlow, HashTouch, HashChanged, HashGone,
              DecideNoop, DecidePropagate, storeVars
<1>4. CASE FanOut \/ Settle
  BY <1>4 DEF FanOut, SourceRead, SourceGone, DstStat, DstStatFails, DstCapture, DstWrite,
              DstRecord, TargetRecord, Settle, OwnRecord, MarkPoll, MarkChosen, Clear, storeVars
<1> QED
  BY <1>1, <1>2, <1>3, <1>4 DEF Next, Step, Decide

(* No conflict without a cause: a deletion, or two different saves written
   since the last records (Poll's decision, flagConflict). *)
THEOREM ConflictIsGenuineHolds ==
  ASSUME ~MidPass
  PROVE  Spec => ConflictIsGenuine
<1>1. BetweenIInv /\ [Next]_vars
        => [~conflicted /\ conflicted' /\ faults = 0
              => \/ \E n \in Nodes : file[n] = None /\ manifest[n] # None
                 \/ \E a, b \in edited : file[a] # None /\ file[b] # None
                                           /\ file[a].c # file[b].c]_vars
  <2> SUFFICES ASSUME BetweenIInv, [Next]_vars, ~conflicted, conflicted', faults = 0
               PROVE  \/ \E n \in Nodes : file[n] = None /\ manifest[n] # None
                      \/ \E a, b \in edited : file[a] # None /\ file[b] # None
                                                /\ file[a].c # file[b].c
    OBVIOUS
  <2> USE DEF BetweenIInv, TypeInv, TypeOK, UndisturbedInv
  <2>1. pc = "decide" /\ Fork
    BY OnlyDecideFlags DEF DecideConflict
  <2>2. \A n \in changed : /\ n \in Nodes /\ ~Settled(n) /\ metas[n] = MetaOf(file[n])
                           /\ metas[n] # None => Holds(n, hash[n])
    <3>1. Statted = Nodes /\ Unrecorded = changed /\ ~PastRead
      BY <2>1 DEF Statted, Unrecorded, PastRead, FanPcs
    <3> QED
      BY <3>1 DEF StatsInv, UnsettledInv, BytesInv
  <2>3. \A n \in changed : n \in edited
    BY <2>1, <2>2 DEF FaultlessInv, QuietInv, Quiet
  <2>4. CASE Vanished
    <3>1. PICK n \in changed : metas[n] = None
      BY <2>4 DEF Vanished
    <3>2. file[n] = None
      BY <2>2, <3>1, MetaOfType
    <3> QED
      BY <2>2, <3>2 DEF Settled
  <2>5. CASE ~Vanished
    <3>1. PICK a \in changed, b \in changed : hash[a] # hash[b]
      BY <2>1, <2>5 DEF Fork
    <3>2. Holds(a, hash[a]) /\ Holds(b, hash[b])
      BY <2>2, <2>5 DEF Vanished
    <3> QED
      BY <2>3, <3>1, <3>2 DEF Holds
  <2> QED
    BY <2>4, <2>5
<1> QED
  BY <1>1, BetweenInvariantHolds, PTL DEF Spec, ConflictIsGenuine

(* No poll reads bytes for nothing: what the engine itself wrote and recorded
   passes the stat gate, the truncated mtimes included (statDiffers). *)
THEOREM QuietPollHashFreeHolds ==
  ASSUME ~MidPass
  PROVE  Spec => QuietPollHashFree
<1>1. BetweenIInv /\ [Next]_vars
        => [pc = "stat" /\ pc' = "hash" /\ faults = 0
              => at \in edited \/ at \notin fresh]_vars
  <2> SUFFICES ASSUME BetweenIInv, [Next]_vars, pc = "stat", pc' = "hash", faults = 0,
                      at \notin edited
               PROVE  at \notin fresh
    OBVIOUS
  <2>1. StatSlow
    <3>1. CASE World \/ Request
      BY <3>1 DEF World, DeviceWrite, Age, Request, Resolve, Restore, opVars
    <3>2. CASE Abort \/ PollStart \/ PollPaused \/ UNCHANGED vars
      BY <3>2 DEF Abort, PollStart, PollPaused, Return, vars, opVars
    <3>3. CASE Scan \/ Decide
      BY <3>3 DEF Scan, StatFast, NextScan, HashTouch, HashChanged, HashGone,
                  Decide, DecideNoop, DecideConflict, DecidePropagate
    <3>4. CASE FanOut \/ Settle
      BY <3>4 DEF FanOut, SourceRead, SourceGone, DstStat, DstStatFails, DstCapture,
                  DstWrite, DstRecord, TargetRecord, Settle, OwnRecord, MarkPoll,
                  MarkChosen, Clear
    <3> QED
      BY <3>1, <3>2, <3>3, <3>4 DEF Next, Step
  <2>2. at \in Nodes
    BY DEF BetweenIInv, TypeInv, Control, ScanControl
  <2>3. ~StatDiffers(manifest[at], MetaOf(file[at]))
    BY <2>2 DEF BetweenIInv, FaultlessInv, QuietInv, Quiet
  <2> QED
    BY <2>1, <2>3 DEF StatSlow, MustHash, DueForVerify
<1> QED
  BY <1>1, BetweenInvariantHolds, PTL DEF Spec, QuietPollHashFree

(* Only the abort of an operation both fails and ends it. *)
LEMMA OnlyAbortAborts ==
  ASSUME TypeInv, [Next]_vars, faults' = faults + 1, pc' = "idle"
  PROVE  Abort
<1>0. faults' # faults
  BY DEF TypeInv, TypeOK
<1>1. CASE World \/ Request
  BY <1>0, <1>1 DEF World, DeviceWrite, Age, Request, Resolve, Restore, history
<1>2. CASE PollStart \/ PollPaused \/ UNCHANGED vars
  BY <1>0, <1>2 DEF PollStart, PollPaused, vars, history
<1>3. CASE Scan \/ Decide
  BY <1>0, <1>3 DEF Scan, StatFast, StatSlow, HashTouch, HashChanged, HashGone,
              Decide, DecideNoop, DecideConflict, DecidePropagate, history
<1>4. CASE FanOut \/ Settle
  BY <1>0, <1>4 DEF FanOut, SourceRead, SourceGone, DstStat, DstStatFails, DstCapture, DstWrite,
              DstRecord, TargetRecord, Settle, OwnRecord, MarkPoll, MarkChosen, Clear, history
<1> QED
  BY <1>1, <1>2, <1>3, <1>4 DEF Next, Step

(* The first call to fail, wherever it stops a poll or a resolution, loses
   nothing of the divergence (the manifest trails the writes). *)
THEOREM AbortIsRedetectedHolds ==
  ASSUME ~MidPass
  PROVE  Spec => AbortIsRedetected
<1>1. BetweenIInv /\ [Next]_vars
        => [(Aborts("poll") \/ Aborts("resolve")) /\ faults = 0 => Redetected']_vars
  <2> SUFFICES ASSUME BetweenIInv, [Next]_vars, Aborts("poll") \/ Aborts("resolve"), faults = 0
               PROVE  Redetected'
    OBVIOUS
  <2> USE DEF BetweenIInv, TypeInv, TypeOK, UndisturbedInv, FaultlessInv
  <2>1. Abort /\ pc # "idle" /\ kind \in {"poll", "resolve"}
    BY OnlyAbortAborts DEF Aborts
  <2>2. UNCHANGED <<file, manifest, conflicted>>
    BY <2>1 DEF Abort, storeVars
  <2>3. Redetected
    <3>1. CASE kind = "resolve"
      BY <3>1 DEF Redetected
    <3>2. CASE kind = "poll" /\ Untouched
      BY <3>2, AgreedMirrors DEF EntriesInv, Redetected
    <3>3. CASE kind = "poll" /\ ~Untouched
      <4>1. pc \in FanPcs /\ src \in changed /\ src \in Nodes /\ data \in Contents
        BY <2>1, <3>3, NodesFacts DEF Untouched, FanPcs, WritePcs, Control, SourceKnown,
                                      WriteControl
      <4>2. CASE pc \in WritePcs
        <5>1. src \in Unrecorded
          BY <4>1, <4>2 DEF Unrecorded, WritePcs
        <5> QED
          BY <4>1, <5>1 DEF UnsettledInv, Redetected
      <4>3. CASE pc \in {"own", "mark", "clear"}
        <5>1. \A n \in Nodes : Holds(n, data)
          BY <4>1, <4>3, NodesFacts DEF MirrorInv, PastRead, Reached, FanPcs
        <5> QED
          BY <4>1, <5>1 DEF Redetected, Mirrored
      <4> QED
        BY <3>3, <4>1, <4>2, <4>3 DEF Untouched, FanPcs, WritePcs
    <3> QED
      BY <2>1, <3>1, <3>2, <3>3
  <2> QED
    BY <2>2, <2>3 DEF Redetected, Mirrored, Holds, Settled
<1> QED
  BY <1>1, BetweenInvariantHolds, PTL DEF Spec, AbortIsRedetected

(* The promise of docs/state-machine.md that nothing is destroyed uncaptured,
   which a device's write inside the capture's window breaks, holds without
   such writes, whatever fails (captureBeforeOverwrite). *)
THEOREM NothingDestroyedUncapturedBetween ==
  ASSUME ~MidPass
  PROVE  Spec => NothingDestroyedUncaptured
<1> DEFINE Inv == TypeInv /\ CapturedInv /\ moved = {}
<1>1. Init => Inv
  BY TypeInit DEF Init, CapturedInv
<1>2. Inv /\ [Next]_vars => Inv'
  BY TypeStep, CaptureStep, MovedStep
<1>3. Inv /\ [Next]_vars
        => [\A n \in Nodes : Overwrites(n) /\ file[n] # None => Stored(n, file[n].c)]_vars
  <2> SUFFICES ASSUME Inv, [Next]_vars, NEW n \in Nodes, Overwrites(n), file[n] # None
               PROVE  Stored(n, file[n].c)
    OBVIOUS
  <2>1. DstWrite /\ n = at
    BY OnlyDstWriteOverwrites
  <2> QED
    BY <2>1 DEF DstWrite, CapturedInv
<1> QED
  BY <1>1, <1>2, <1>3, PTL DEF Spec, NothingDestroyedUncaptured
=============================================================================
