---------------------------- MODULE EngineProofs ----------------------------
(***************************************************************************)
(* The safety of the engine, for any number of members, contents, device    *)
(* writes, failures and requests.  Each part of IInv is shown inductive on  *)
(* top of TypeInv, and the action property it serves follows from it.       *)
(***************************************************************************)
EXTENDS EngineTypeProofs

-----------------------------------------------------------------------------
(* Capture before overwrite *)

(* The engine touches a share in one place: DstWrite. *)
LEMMA OnlyDstWriteOverwrites ==
  ASSUME TypeInv, [Next]_vars, NEW n \in Nodes, Overwrites(n)
  PROVE  DstWrite /\ n = at
<1> USE DEF Overwrites
<1>1. CASE World
  <2>1. ASSUME NEW k \in Nodes, NEW f \in {None} \cup [c: Contents, m: Mtimes],
               DeviceWrite(k, f)
        PROVE  FALSE
    BY <2>1 DEF DeviceWrite, TypeInv, TypeOK
  <2>2. ASSUME NEW k \in Nodes, Age(k)
        PROVE  FALSE
    BY <2>2 DEF Age
  <2> QED
    BY <1>1, <2>1, <2>2 DEF World
<1>2. CASE Abort \/ PollStart \/ PollPaused
  BY <1>2 DEF Abort, PollStart, PollPaused, vars
<1>3. CASE Request
  BY <1>3 DEF Request, Resolve, Restore
<1>4. CASE Scan
  BY <1>4 DEF Scan, StatFast, StatSlow, HashTouch, HashChanged, HashGone
<1>5. CASE Decide
  BY <1>5 DEF Decide, DecideNoop, DecideConflict, DecidePropagate
<1>6. CASE FanOut /\ ~DstWrite
  BY <1>6 DEF FanOut, SourceRead, SourceGone, DstStat, DstStatFails, DstCapture,
              DstRecord, TargetRecord
<1>7. CASE DstWrite
  BY <1>7 DEF DstWrite, TypeInv, TypeOK, Control, WriteControl, WritePcs
<1>8. CASE Settle
  BY <1>8 DEF Settle, OwnRecord, MarkPoll, MarkChosen, Clear
<1>9. CASE UNCHANGED vars
  BY <1>9 DEF vars
<1> QED
  BY <1>1, <1>2, <1>3, <1>4, <1>5, <1>6, <1>7, <1>8, <1>9 DEF Next, Step

(* An operation comes to its write only by its capture. *)
LEMMA BeforeWrite ==
  ASSUME [Next]_vars, pc' = "write"
  PROVE  \/ DstCapture
         \/ \E n \in Nodes, f \in {None} \cup [c: Contents, m: Mtimes] : DeviceWrite(n, f)
         \/ UNCHANGED <<file, versions, pc, at, moved>>
<1>1. CASE World
  BY <1>1 DEF World, Age, opVars, history
<1>2. CASE Abort \/ PollStart \/ PollPaused
  BY <1>2 DEF Abort, PollStart, PollPaused, Return, vars, storeVars, opVars, history
<1>3. CASE Request
  BY <1>3 DEF Request, Resolve, Restore
<1>4. CASE Scan
  BY <1>4 DEF Scan, StatFast, StatSlow, HashTouch, HashChanged, HashGone, NextScan, Return
<1>5. CASE Decide
  BY <1>5 DEF Decide, DecideNoop, DecideConflict, DecidePropagate, Return
<1>6. CASE FanOut
  BY <1>6 DEF FanOut, SourceRead, SourceGone, DstStat, DstStatFails, DstWrite,
              DstRecord, TargetRecord, NextDst, Return
<1>7. CASE Settle
  BY <1>7 DEF Settle, OwnRecord, MarkPoll, MarkChosen, Clear, Return
<1>8. CASE UNCHANGED vars
  BY <1>8 DEF vars, storeVars, opVars, history
<1> QED
  BY <1>1, <1>2, <1>3, <1>4, <1>5, <1>6, <1>7, <1>8 DEF Next, Step

(* Between the capture and the write only a device changes the bytes. *)
LEMMA CaptureStep ==
  ASSUME TypeInv, CapturedInv, [Next]_vars
  PROVE  CapturedInv'
<1> SUFFICES ASSUME pc' = "write", file'[at'] # None, at' \notin moved'
             PROVE  Stored(at, file[at].c)'
  BY DEF CapturedInv
<1>1. CASE DstCapture
  <2>1. /\ pc = "capture" /\ at' = at /\ file' = file
        /\ versions' = [versions EXCEPT ![at] = Captured(versions[at], file[at].c)]
    BY <1>1 DEF DstCapture
  <2>2. at \in Nodes /\ file[at].c \in Contents /\ versions[at] \in Seq(Contents)
    BY <2>1 DEF TypeInv, TypeOK, Control, WriteControl, WritePcs, FileOrNone, File
  <2>3. \E i \in DOMAIN Captured(versions[at], file[at].c) :
          Captured(versions[at], file[at].c)[i] = file[at].c
    <3> DEFINE s == versions[at]
               c == file[at].c
    <3>1. s \in Seq(Contents) /\ c \in Contents
      BY <2>2
    <3> HIDE DEF s, c
    <3>2. \E i \in DOMAIN Captured(s, c) : Captured(s, c)[i] = c
      BY <3>1, CapturedKeeps, Zenon
    <3> QED
      BY <3>2 DEF s, c
  <2>4. versions'[at] = Captured(versions[at], file[at].c)
    BY <2>1, <2>2 DEF TypeInv, TypeOK
  <2> QED
    BY <2>1, <2>3, <2>4 DEF Stored
<1>2. ASSUME NEW n \in Nodes, NEW f \in {None} \cup [c: Contents, m: Mtimes],
             DeviceWrite(n, f)
      PROVE  Stored(at, file[at].c)'
  <2>1. /\ pc = "write" /\ at' = at /\ versions' = versions /\ moved' = moved \cup {n}
        /\ file' = [file EXCEPT ![n] = f]
    BY <1>2 DEF DeviceWrite, storeVars, opVars
  <2>2. at # n /\ file'[at] = file[at]
    BY <2>1 DEF TypeInv, TypeOK
  <2> QED
    BY <2>1, <2>2 DEF CapturedInv, Stored
<1>3. CASE UNCHANGED <<file, versions, pc, at, moved>>
  BY <1>3 DEF CapturedInv, Stored
<1> QED
  BY <1>1, <1>2, <1>3, BeforeWrite

(* The hard gate, for any number of members, writes, failures and requests:
   no operation replaces a save whose bytes it has not stored first, unless a
   device put them there after the capture. *)
THEOREM CaptureGateHolds == Spec => CaptureGate
<1> DEFINE Inv == TypeInv /\ CapturedInv
<1>1. Init => Inv
  BY TypeInit DEF Init, CapturedInv
<1>2. Inv /\ [Next]_vars => Inv'
  BY TypeStep, CaptureStep
<1>3. Inv /\ [Next]_vars
        => [\A n \in Nodes : Overwrites(n) /\ file[n] # None /\ n \notin moved
                               => Stored(n, file[n].c)]_vars
  <2> SUFFICES ASSUME TypeInv, CapturedInv, [Next]_vars, NEW n \in Nodes,
                      Overwrites(n), file[n] # None, n \notin moved
               PROVE  Stored(n, file[n].c)
    OBVIOUS
  <2>1. DstWrite /\ n = at
    BY OnlyDstWriteOverwrites
  <2> QED
    BY <2>1 DEF DstWrite, CapturedInv
<1> QED
  BY <1>1, <1>2, <1>3, PTL DEF Spec, CaptureGate

-----------------------------------------------------------------------------
(* A poll leaves the members that changed alone *)

(* What the manifest records of a stat, the stat gate accepts. *)
LEMMA RecordedIsQuiet ==
  ASSUME NEW meta \in Meta, NEW h \in Contents
  PROVE  ~StatDiffers(EntryOf(meta, h), meta)
<1>1. meta # None /\ EntryOf(meta, h) # None
  BY NoneAssumption, EntryOfType
<1> QED
  BY <1>1 DEF StatDiffers, EntryOf

(* The scan passes a member only if it changed or is as its entry says. *)
LEMMA SpareScan ==
  ASSUME TypeInv, SpareInv, Scan
  PROVE  SpareInv'
<1> USE NodesFacts DEF TypeInv, TypeOK
<1>1. CASE StatSlow
  <2>1. pc = "stat" /\ pc' = "hash" /\ at \in Nodes
    BY <1>1 DEF StatSlow, Stat, Control, ScanControl
  <2>2. \A n \in Nodes : n < at => metas'[n] = metas[n]
    BY <1>1, <2>1 DEF StatSlow, Stat
  <2> QED
    BY <1>1, <2>1, <2>2 DEF StatSlow, storeVars, SpareInv, Pending
<1>2. CASE HashGone
  BY <1>2 DEF HashGone, Return, SpareInv, Pending
<1>3. CASE StatFast \/ HashTouch \/ HashChanged
  <2>1. /\ pc \in {"stat", "hash"} /\ kind = "poll" /\ at \in Nodes
        /\ changed \subseteq changed'
    BY <1>3 DEF StatFast, HashTouch, HashChanged, Stat, Control, ScanControl
  <2>2. Pending' = Pending \cup {at}
    BY <1>3, <2>1 DEF StatFast, HashTouch, HashChanged, NextScan, Pending
  <2>3. \A n \in Nodes \ {at} : manifest'[n] = manifest[n] /\ metas'[n] = metas[n]
    BY <1>3, <2>1 DEF StatFast, HashTouch, HashChanged, Stat, Record, storeVars
  <2>4. at \in changed' \/ ~StatDiffers(manifest'[at], metas'[at])
    <3>1. CASE StatFast
      <4>1. metas'[at] = MetaOf(file[at]) /\ manifest' = manifest
        BY <2>1, <3>1 DEF StatFast, Stat, storeVars
      <4> QED
        BY <3>1, <4>1 DEF StatFast, MustHash, StatDiffers, MetaOf
    <3>2. CASE HashTouch
      <4>1. metas[at] \in Meta /\ file[at].c \in Contents
        BY <2>1, <3>2 DEF HashTouch, Control, ScanControl, FileOrNone, File
      <4>2. manifest'[at] = EntryOf(metas[at], file[at].c) /\ metas' = metas
        BY <2>1, <3>2 DEF HashTouch, Record
      <4> QED
        BY <4>1, <4>2, RecordedIsQuiet
    <3>3. CASE HashChanged
      BY <3>3 DEF HashChanged
    <3> QED
      BY <1>3, <3>1, <3>2, <3>3
  <2>5. ASSUME NEW n \in Pending' \ changed'
        PROVE  ~StatDiffers(manifest'[n], metas'[n])
    <3>1. CASE n = at
      BY <2>4, <2>5, <3>1
    <3>2. CASE n # at
      <4>1. n \in Pending \ changed /\ n \in Nodes
        BY <2>1, <2>2, <2>5, <3>2 DEF Pending
      <4> QED
        BY <2>1, <2>3, <3>2, <4>1 DEF SpareInv
    <3> QED
      BY <3>1, <3>2
  <2> QED
    BY <2>5 DEF SpareInv
<1> QED
  BY <1>1, <1>2, <1>3 DEF Scan

(* A fan-out changes no entry of a member it has yet to write. *)
LEMMA SpareFanOut ==
  ASSUME TypeInv, SpareInv, FanOut
  PROVE  SpareInv'
<1> USE NodesFacts DEF TypeInv, TypeOK
<1>1. CASE SourceGone
  BY <1>1 DEF SourceGone, Return, SpareInv, Pending
<1>2. CASE TargetRecord
  BY <1>2 DEF TargetRecord, Control, SourceKnown, FanPcs, SpareInv
<1>3. CASE DstStat \/ DstStatFails \/ DstCapture \/ DstWrite
  <2>1. /\ UNCHANGED <<manifest, metas, changed, kind, at>>
        /\ Pending' \subseteq Pending
    BY <1>3 DEF DstStat, DstStatFails, DstCapture, DstWrite, storeVars, Pending
  <2> QED
    BY <2>1 DEF SpareInv
<1>4. CASE SourceRead
  <2>1. UNCHANGED <<manifest, metas, changed, kind>> /\ Pending = Nodes
    BY <1>4 DEF SourceRead, storeVars, Pending
  <2>2. Pending' \subseteq Nodes
    BY DEF Pending
  <2> QED
    BY <2>1, <2>2 DEF SpareInv
<1>5. CASE DstRecord
  <2>1. /\ at \in Nodes /\ UNCHANGED <<metas, changed, kind>>
        /\ \A n \in Nodes \ {at} : manifest'[n] = manifest[n]
        /\ Pending = {n \in Nodes : n > at}
    BY <1>5 DEF DstRecord, Record, Control, WriteControl, WritePcs, Pending
  <2>2. \/ pc' = "dstStat" /\ at' \in Later(at)
        \/ pc' \in {"own", "mark"}
    BY <1>5, <2>1, NextDstCases
       DEF DstRecord, Control, SourceKnown, FanPcs
  <2>3. Pending' \subseteq Pending
    BY <2>1, <2>2 DEF Pending, Later
  <2>4. at \notin Pending
    BY <2>1
  <2> QED
    BY <2>1, <2>3, <2>4 DEF SpareInv, Pending
<1> QED
  BY <1>1, <1>2, <1>3, <1>4, <1>5 DEF FanOut

(* Every step keeps what a poll found of the members it has yet to write. *)
LEMMA SpareStep ==
  ASSUME TypeInv, SpareInv, [Next]_vars
  PROVE  SpareInv'
<1> USE DEF SpareInv, Pending
<1>1. CASE World
  BY <1>1 DEF World, DeviceWrite, Age, storeVars, opVars
<1>2. CASE Abort \/ PollPaused
  BY <1>2 DEF Abort, PollPaused, Return, vars, storeVars, opVars
<1>3. CASE PollStart
  BY <1>3, NodesFacts DEF PollStart
<1>4. CASE Request
  BY <1>4 DEF Request, Resolve, Restore
<1>5. CASE Scan
  BY <1>5, SpareScan
<1>6. CASE Decide
  BY <1>6 DEF Decide, DecideNoop, DecideConflict, DecidePropagate, Return, storeVars
<1>7. CASE FanOut
  BY <1>7, SpareFanOut
<1>8. CASE Settle
  BY <1>8 DEF Settle, OwnRecord, MarkPoll, MarkChosen, Clear, Return
<1>9. CASE UNCHANGED vars
  BY <1>9 DEF vars, storeVars, opVars
<1> QED
  BY <1>1, <1>2, <1>3, <1>4, <1>5, <1>6, <1>7, <1>8, <1>9 DEF Next, Step

(* A fork and a deletion are never propagated over anyone's save: whatever a
   poll overwrites, it had found as the manifest describes it. *)
THEOREM PollSparesChangersHolds == Spec => PollSparesChangers
<1> DEFINE Inv == TypeInv /\ SpareInv
<1>1. Init => Inv
  BY TypeInit DEF Init, SpareInv, Pending
<1>2. Inv /\ [Next]_vars => Inv'
  BY TypeStep, SpareStep
<1>3. Inv /\ [Next]_vars
        => [\A n \in Nodes : Overwrites(n) /\ kind = "poll"
                               => /\ ~StatDiffers(manifest[n], metas[n])
                                  /\ n \notin changed]_vars
  <2> SUFFICES ASSUME TypeInv, SpareInv, [Next]_vars, NEW n \in Nodes,
                      Overwrites(n), kind = "poll"
               PROVE  ~StatDiffers(manifest[n], metas[n]) /\ n \notin changed
    OBVIOUS
  <2>1. DstWrite /\ n = at
    BY OnlyDstWriteOverwrites
  <2>2. n \in Pending /\ n \notin changed
    BY <2>1, NodesFacts
       DEF DstWrite, TypeInv, Control, WriteControl, WritePcs, Skip, Pending
  <2> QED
    BY <2>2 DEF SpareInv
<1> QED
  BY <1>1, <1>2, <1>3, PTL DEF Spec, PollSparesChangers

-----------------------------------------------------------------------------
(* The manifest describes real bytes *)

(* A device's write is remembered for as long as the operation lasts. *)
LEMMA BytesWorld ==
  ASSUME TypeInv, BytesInv, World
  PROVE  BytesInv'
<1> USE DEF TypeInv, TypeOK
<1>1. ASSUME NEW n \in Nodes, NEW f \in {None} \cup [c: Contents, m: Mtimes],
             DeviceWrite(n, f)
      PROVE  BytesInv'
  <2>1. /\ UNCHANGED opVars
        /\ \A k \in Nodes \ {n} : file'[k] = file[k]
        /\ pc # "idle" => moved' = moved \cup {n}
        /\ pc = "idle" => changed = {}
    BY <1>1 DEF DeviceWrite, Control, IdleClean
  <2>2. pc \in WritePcs => at \in Nodes
    BY DEF Control, WriteControl
  <2> QED
    BY <2>1, <2>2, NodesFacts
       DEF BytesInv, Holds, PastRead, opVars, FanPcs, WritePcs
<1>2. ASSUME NEW n \in Nodes, Age(n)
      PROVE  BytesInv'
  BY <1>2 DEF Age, BytesInv, Holds, PastRead, opVars, history
<1> QED
  BY <1>1, <1>2 DEF World

(* Tier 2 reads the bytes whose hash it keeps. *)
LEMMA BytesScan ==
  ASSUME TypeInv, BytesInv, Scan
  PROVE  BytesInv'
<1> USE DEF TypeInv, TypeOK
<1>1. CASE HashGone
  BY <1>1 DEF HashGone, Return, BytesInv, PastRead, FanPcs
<1>2. CASE ~HashGone
  <2>1. /\ pc \in {"stat", "hash"} /\ pc' \in {"stat", "hash", "decide"}
        /\ at \in Nodes /\ at \notin changed
        /\ UNCHANGED <<file, src, data>> /\ moved \ {at} \subseteq moved'
    BY <1>2, NodesFacts
       DEF Scan, StatFast, StatSlow, HashTouch, HashChanged, Stat, NextScan, history,
           Control, ScanControl
  <2>2. ASSUME NEW n \in changed' \ moved', metas'[n] # None
        PROVE  Holds(n, hash[n])'
    <3>1. CASE n = at
      <4>1. HashChanged
        BY <1>2, <2>1, <2>2, <3>1
           DEF Scan, StatFast, StatSlow, HashTouch, Stat, MetaOf
      <4> QED
        BY <2>1, <3>1, <4>1 DEF HashChanged, Holds
    <3>2. CASE n # at
      <4>1. /\ n \in changed \ moved /\ metas'[n] = metas[n] /\ hash'[n] = hash[n]
        BY <1>2, <2>1, <2>2, <3>2
           DEF Scan, StatFast, StatSlow, HashTouch, HashChanged, Stat, history
      <4> QED
        BY <2>1, <2>2, <4>1 DEF BytesInv, Holds, PastRead, FanPcs
    <3> QED
      BY <3>1, <3>2
  <2> QED
    BY <2>1, <2>2 DEF BytesInv, PastRead, FanPcs
<1> QED
  BY <1>1, <1>2

(* A fan-out's data is what its source held when it was read. *)
LEMMA BytesFanOut ==
  ASSUME TypeInv, BytesInv, FanOut
  PROVE  BytesInv'
<1> USE DEF TypeInv, TypeOK
<1>1. CASE SourceGone
  BY <1>1 DEF SourceGone, Return, BytesInv, PastRead, FanPcs
<1>2. CASE SourceRead
  <2>1. /\ pc = "read" /\ pc' # "record" /\ pc' \in FanPcs \ {"read"} /\ src \in Nodes
        /\ data' = file[src].c /\ file[src] # None /\ moved' = moved \ {src}
        /\ UNCHANGED <<file, metas, changed, hash, src>>
    BY <1>2, NextDstCases DEF SourceRead, Control, SourceKnown, FanPcs, WritePcs
  <2> QED
    BY <2>1, NodesFacts DEF BytesInv, Holds, PastRead
<1>3. CASE DstStat \/ DstStatFails
  BY <1>3 DEF DstStat, DstStatFails, BytesInv, Holds, PastRead, FanPcs, history
<1>4. CASE DstCapture \/ DstWrite
  <2>1. /\ pc \in WritePcs \ {"record"} /\ at \in Nodes
        /\ at # src /\ at \notin changed
    BY <1>4 DEF DstCapture, DstWrite, Control, WriteControl, ChangersHashed, WritePcs, Skip
  <2>2. /\ UNCHANGED <<metas, changed, hash, src, data, at>> /\ moved' = moved \ {at}
        /\ pc' \in {"write", "record"}
        /\ \A n \in Nodes \ {at} : file'[n] = file[n]
        /\ pc' = "record" => file'[at] # None /\ file'[at].c = data
    <3>1. CASE DstCapture
      BY <3>1 DEF DstCapture
    <3>2. CASE DstWrite
      <4>1. [c |-> data, m |-> published'] # None
        <5>1. published' \in Mtime /\ data \in Contents
          <6>1. SrcMtime \in Mtime /\ UserChose \in BOOLEAN
            BY <2>1, SrcMtimeType DEF UserChose
          <6> QED
            BY <2>1, <3>2, <6>1, PublishMtimeType
               DEF DstWrite, Control, WriteControl, FanPcs, WritePcs
        <5> QED
          BY <5>1, NoneAssumption DEF File
      <4> QED
        BY <2>1, <3>2, <4>1 DEF DstWrite
    <3> QED
      BY <1>4, <3>1, <3>2
  <2> QED
    BY <2>1, <2>2, NodesFacts DEF BytesInv, Holds, PastRead, FanPcs, WritePcs
<1>5. CASE DstRecord
  <2>1. /\ pc = "record" /\ pc' \in {"dstStat", "own", "mark"} /\ src \in Nodes
        /\ UNCHANGED <<file, metas, changed, hash, src, data, moved>>
    BY <1>5, NodesFacts, NextDstCases
       DEF DstRecord, Control, SourceKnown, WriteControl, FanPcs, WritePcs
  <2> QED
    BY <2>1, NodesFacts DEF BytesInv, Holds, PastRead, FanPcs
<1>6. CASE TargetRecord
  <2>1. changed = {}
    BY <1>6, NodesFacts DEF TargetRecord, Control, SourceKnown, ChangersHashed, FanPcs
  <2> QED
    BY <1>6, <2>1 DEF TargetRecord, BytesInv, PastRead, FanPcs
<1> QED
  BY <1>1, <1>2, <1>3, <1>4, <1>5, <1>6 DEF FanOut

(* Every step keeps what the operation believes of the members' bytes. *)
LEMMA BytesStep ==
  ASSUME TypeInv, BytesInv, [Next]_vars
  PROVE  BytesInv'
<1> USE DEF BytesInv, PastRead, Holds, FanPcs
<1>1. CASE World
  BY <1>1, BytesWorld
<1>2. CASE Abort \/ PollPaused \/ UNCHANGED vars
  BY <1>2 DEF Abort, PollPaused, Return, vars, storeVars, opVars, history
<1>3. CASE PollStart
  BY <1>3 DEF PollStart, history
<1>4. CASE Request
  BY <1>4 DEF Request, Resolve, Restore, TypeInv, Control, IdleClean
<1>5. CASE Scan
  BY <1>5, BytesScan
<1>6. CASE Decide
  BY <1>6 DEF Decide, DecideNoop, DecideConflict, DecidePropagate, Return, history
<1>7. CASE FanOut
  BY <1>7, BytesFanOut
<1>8. CASE Settle
  BY <1>8 DEF Settle, OwnRecord, MarkPoll, MarkChosen, Clear, Return, history
<1> QED
  BY <1>1, <1>2, <1>3, <1>4, <1>5, <1>6, <1>7, <1>8 DEF Next, Step

(* An entry is recorded in four places only. *)
LEMMA WhoRecords ==
  ASSUME [Next]_vars, manifest' # manifest
  PROVE  HashTouch \/ DstRecord \/ TargetRecord \/ OwnRecord
<1>1. CASE World \/ Request
  BY <1>1 DEF World, DeviceWrite, Age, Request, Resolve, Restore, storeVars
<1>2. CASE Abort \/ PollStart \/ PollPaused \/ UNCHANGED vars
  BY <1>2 DEF Abort, PollStart, PollPaused, vars, storeVars
<1>3. CASE Scan \/ Decide
  BY <1>3 DEF Scan, StatFast, StatSlow, HashChanged, HashGone,
              Decide, DecideNoop, DecideConflict, DecidePropagate, storeVars
<1>4. CASE FanOut \/ Settle
  BY <1>4 DEF FanOut, SourceRead, SourceGone, DstStat, DstStatFails, DstCapture, DstWrite,
              Settle, MarkPoll, MarkChosen, Clear, storeVars
<1> QED
  BY <1>1, <1>2, <1>3, <1>4 DEF Next, Step

(* No entry is ever recorded for bytes the member does not hold, unless a
   device wrote the member behind the operation's back. *)
THEOREM ManifestDescribesRealBytesHolds == Spec => ManifestDescribesRealBytes
<1> DEFINE Inv == TypeInv /\ BytesInv
<1>1. Init => Inv
  BY TypeInit DEF Init, BytesInv, PastRead, FanPcs
<1>2. Inv /\ [Next]_vars => Inv'
  BY TypeStep, BytesStep
<1>3. Inv /\ [Next]_vars
        => [\A n \in Nodes : manifest'[n] # manifest[n] /\ n \notin moved'
                               => Holds(n, manifest'[n].h)]_vars
  <2> SUFFICES ASSUME TypeInv, BytesInv, [Next]_vars, NEW n \in Nodes,
                      manifest'[n] # manifest[n], n \notin moved'
               PROVE  Holds(n, manifest'[n].h)
    OBVIOUS
  <2> USE DEF TypeInv, TypeOK
  <2>1. CASE HashTouch
    <3>1. n = at /\ manifest'[n].h = file[at].c /\ file[at] # None
      BY <2>1 DEF HashTouch, Record, EntryOf
    <3> QED
      BY <3>1 DEF Holds
  <2>2. CASE DstRecord \/ TargetRecord
    <3>1. /\ n = at /\ manifest'[n].h = data /\ pc = "record" /\ moved' = moved
      BY <2>2 DEF DstRecord, TargetRecord, Record, EntryOf
    <3> QED
      BY <3>1 DEF BytesInv
  <2>3. CASE OwnRecord
    <3>1. /\ n = at /\ manifest'[n].h = (IF at = src THEN data ELSE hash[at])
          /\ pc = "own" /\ moved' = moved
      BY <2>3 DEF OwnRecord, Record, EntryOf
    <3>2. /\ at \in Owners /\ src \in Nodes
          /\ kind = "poll" => \A k \in changed : metas[k] # None
      BY <3>1 DEF Control, WriteControl, SourceKnown, FanPcs, WritePcs
    <3>3. CASE at = src
      BY <3>1, <3>2, <3>3, NodesFacts DEF BytesInv, PastRead, FanPcs
    <3>4. CASE at # src
      BY <3>1, <3>2, <3>4 DEF BytesInv, Owners
    <3> QED
      BY <3>3, <3>4
  <2> QED
    BY <2>1, <2>2, <2>3, WhoRecords
<1> QED
  BY <1>1, <1>2, <1>3, PTL DEF Spec, ManifestDescribesRealBytes

-----------------------------------------------------------------------------
(* A choice reaches everyone before its conflict is cleared *)

(* Where a fan-out moves on to, everyone before has been reached. *)
LEMMA ReachedNext ==
  ASSUME TypeInv, kind # "poll", src \in Nodes, src' = src, NEW n \in Nat, NextDst(n)
  PROVE  \A k \in Reached' : k \in Nodes /\ (k = src \/ k <= n)
<1>1. Skip = {}
  BY DEF Skip
<1>2. \/ /\ pc' = "dstStat" /\ at' \in Later(n)
         /\ \A k \in Later(n) : at' <= k
      \/ pc' \in {"own", "mark"} /\ Later(n) = {}
  BY NextDstCases DEF TypeInv
<1>3. \A k \in Nodes : k # src /\ ~(k <= n) => k \in Later(n)
  BY <1>1, NodesFacts DEF Later
<1>4. CASE pc' = "dstStat" /\ at' \in Later(n) /\ \A k \in Later(n) : at' <= k
  <2>1. Reached' = {k \in Nodes : k = src \/ k < at'}
    BY <1>4 DEF Reached
  <2>2. \A k \in Later(n) : ~(k < at')
    BY <1>4, NodesFacts DEF Later
  <2> QED
    BY <1>3, <2>1, <2>2
<1>5. CASE pc' \in {"own", "mark"} /\ Later(n) = {}
  BY <1>3, <1>5 DEF Reached
<1> QED
  BY <1>2, <1>4, <1>5

(* A fan-out leaves every member it has passed with its data. *)
LEMMA ReachedFanOut ==
  ASSUME TypeInv, BytesInv', ReachedInv, FanOut
  PROVE  ReachedInv'
<1> USE NodesFacts DEF TypeInv, TypeOK
<1> SUFFICES ASSUME kind' # "poll", PastRead', NEW k \in Reached' \ moved'
             PROVE  Holds(k, data)'
  BY DEF ReachedInv
<1>1. CASE SourceGone \/ TargetRecord
  BY <1>1 DEF SourceGone, TargetRecord, Return, PastRead, FanPcs
<1>2. CASE SourceRead
  <2>1. src \in Nodes /\ src' = src /\ kind' = kind /\ NextDst(0)
    BY <1>2 DEF SourceRead, Control, SourceKnown, FanPcs, WritePcs
  <2>2. kind # "poll" /\ 0 \in Nat
    BY <2>1
  <2>3. \A j \in Reached' : j \in Nodes /\ (j = src \/ j <= 0)
    BY <2>1, <2>2, ReachedNext
  <2>4. k \in Nodes /\ (k = src \/ k <= 0)
    BY <2>3
  <2>5. k \in Nat \ {0}
    BY <2>4
  <2>6. k = src'
    BY <2>1, <2>4, <2>5
  <2> QED
    BY <2>6 DEF BytesInv
<1>3. CASE DstStat \/ DstStatFails
  BY <1>3 DEF DstStat, DstStatFails, ReachedInv, Reached, Holds, PastRead, FanPcs, history
<1>4. CASE DstCapture
  <2>1. /\ pc = "capture" /\ pc' = "write" /\ at # src /\ at \in Nodes
        /\ UNCHANGED <<file, kind, src, at, data>> /\ moved' = moved \ {at}
    BY <1>4 DEF DstCapture, Control, WriteControl, WritePcs
  <2>2. k \in Reached \ moved
    BY <2>1 DEF Reached
  <2> QED
    BY <2>1, <2>2 DEF ReachedInv, Holds, PastRead, FanPcs
<1>5. CASE DstWrite
  <2>1. /\ pc = "write" /\ pc' = "record" /\ at # src /\ at \in Nodes
        /\ UNCHANGED <<kind, src, at, data>> /\ moved' = moved \ {at}
        /\ \A n \in Nodes \ {at} : file'[n] = file[n]
    BY <1>5 DEF DstWrite, Control, WriteControl, WritePcs
  <2>2. CASE k = at
    BY <2>1, <2>2 DEF BytesInv
  <2>3. CASE k # at
    <3>1. k \in Reached \ moved /\ k \in Nodes
      BY <2>1, <2>3 DEF Reached
    <3> QED
      BY <2>1, <2>3, <3>1 DEF ReachedInv, Holds, PastRead, FanPcs
  <2> QED
    BY <2>2, <2>3
<1>6. CASE DstRecord
  <2>1. /\ pc = "record" /\ src \in Nodes /\ at \in Nodes /\ NextDst(at)
        /\ UNCHANGED <<file, kind, src, data, moved>>
    BY <1>6 DEF DstRecord, Control, SourceKnown, WriteControl, FanPcs, WritePcs
  <2>2. k \in Nodes /\ (k = src \/ k <= at)
    BY <2>1, ReachedNext
  <2>3. k \in Reached \ moved
    BY <2>1, <2>2 DEF Reached
  <2> QED
    BY <2>1, <2>3 DEF ReachedInv, Holds, PastRead, FanPcs
<1> QED
  BY <1>1, <1>2, <1>3, <1>4, <1>5, <1>6 DEF FanOut

(* Every step keeps the members reached. *)
LEMMA ReachedStep ==
  ASSUME TypeInv, BytesInv', ReachedInv, [Next]_vars
  PROVE  ReachedInv'
<1> USE DEF ReachedInv, PastRead, FanPcs
<1>1. CASE World
  <2>1. ASSUME NEW n \in Nodes, NEW f \in {None} \cup [c: Contents, m: Mtimes],
               DeviceWrite(n, f)
        PROVE  ReachedInv'
    <3>1. /\ UNCHANGED opVars
          /\ \A k \in Nodes \ {n} : file'[k] = file[k]
          /\ pc # "idle" => moved' = moved \cup {n}
      BY <2>1 DEF DeviceWrite, TypeInv, TypeOK
    <3>2. Reached' = Reached /\ Reached \subseteq Nodes
      BY <3>1 DEF Reached, opVars
    <3> QED
      BY <3>1, <3>2 DEF Holds, opVars
  <2>2. ASSUME NEW n \in Nodes, Age(n)
        PROVE  ReachedInv'
    BY <2>2 DEF Age, Reached, Holds, opVars, history
  <2> QED
    BY <1>1, <2>1, <2>2 DEF World
<1>2. CASE Abort \/ PollPaused \/ UNCHANGED vars
  BY <1>2 DEF Abort, PollPaused, Return, Reached, Holds, vars, storeVars, opVars, history
<1>3. CASE PollStart
  BY <1>3 DEF PollStart
<1>4. CASE Request
  BY <1>4 DEF Request, Resolve, Restore, TypeInv, Control, IdleClean
<1>5. CASE Scan \/ Decide
  BY <1>5 DEF Scan, StatFast, StatSlow, HashTouch, HashChanged, HashGone, NextScan,
              Decide, DecideNoop, DecideConflict, DecidePropagate, Return
<1>6. CASE FanOut
  BY <1>6, ReachedFanOut
<1>7. CASE Settle
  BY <1>7 DEF Settle, OwnRecord, MarkPoll, MarkChosen, Clear, Return, Reached, Holds, history
<1> QED
  BY <1>1, <1>2, <1>3, <1>4, <1>5, <1>6, <1>7 DEF Next, Step

(* A conflict is cleared in one place only. *)
LEMMA OnlyClearClears ==
  ASSUME TypeInv, [Next]_vars, conflicted, ~conflicted'
  PROVE  Clear
<1>1. CASE World \/ Request
  BY <1>1 DEF World, DeviceWrite, Age, Request, Resolve, Restore, storeVars
<1>2. CASE Abort \/ PollStart \/ PollPaused \/ UNCHANGED vars
  BY <1>2 DEF Abort, PollStart, PollPaused, vars, storeVars
<1>3. CASE Scan \/ Decide
  BY <1>3 DEF Scan, StatFast, StatSlow, HashTouch, HashChanged, HashGone,
              Decide, DecideNoop, DecideConflict, DecidePropagate, storeVars
<1>4. CASE FanOut \/ Settle
  BY <1>4 DEF FanOut, SourceRead, SourceGone, DstStat, DstStatFails, DstCapture, DstWrite,
              DstRecord, TargetRecord, Settle, OwnRecord, MarkPoll, MarkChosen, storeVars
<1> QED
  BY <1>1, <1>2, <1>3, <1>4 DEF Next, Step

(* The pause ends only when every member holds the content a human chose, but
   for those a device wrote meanwhile. *)
THEOREM ResolutionReachesAllHolds == Spec => ResolutionReachesAll
<1> DEFINE Inv == TypeInv /\ BytesInv /\ ReachedInv
<1>1. Init => Inv
  BY TypeInit DEF Init, BytesInv, ReachedInv, PastRead, FanPcs
<1>2. Inv /\ [Next]_vars => Inv'
  BY TypeStep, BytesStep, ReachedStep
<1>3. Inv /\ [Next]_vars
        => [conflicted /\ ~conflicted'
              => /\ synced
                 /\ \E c \in Contents : \A n \in Nodes \ moved : Holds(n, c)]_vars
  <2> SUFFICES ASSUME TypeInv, ReachedInv, [Next]_vars, conflicted, ~conflicted'
               PROVE  /\ synced
                      /\ \E c \in Contents : \A n \in Nodes \ moved : Holds(n, c)
    OBVIOUS
  <2>1. pc = "clear"
    BY OnlyClearClears DEF Clear
  <2>2. kind # "poll" /\ synced /\ data \in Contents /\ src \in Nodes
    BY <2>1 DEF TypeInv, Control, WriteControl, SourceKnown, FanPcs, WritePcs
  <2>3. \A n \in Nodes \ moved : Holds(n, data)
    BY <2>1, <2>2, NodesFacts DEF ReachedInv, Reached, PastRead, FanPcs
  <2> QED
    BY <2>2, <2>3
<1> QED
  BY <1>1, <1>2, <1>3, PTL DEF Spec, ResolutionReachesAll

-----------------------------------------------------------------------------
(* A human's choice can be seen *)

(* publishMtime never asks, for a write a human chose, for the microsecond
   that its destination is on. *)
LEMMA PublishMtimeVisible ==
  ASSUME NEW s \in Mtime, NEW d \in Mtime
  PROVE  ~MtimeEqual(PublishMtime(s, d, TRUE), d)
<1>1. d # None
  BY NoneAssumption DEF Mtime
<1>2. CASE ~MtimeEqual(s, d)
  BY <1>2 DEF PublishMtime
<1>3. CASE MtimeEqual(s, d)
  <2> DEFINE q == Micro(d)
  <2>1. q \in Nat
    BY MicroType DEF Mtime
  <2>2. PublishMtime(s, d, TRUE) = (q + 1) * Res
    BY <1>1, <1>3 DEF PublishMtime
  <2>3. Micro(d) = q
    OBVIOUS
  <2> HIDE DEF q
  <2>4. ((q + 1) * Res) \div Res = q + 1
    BY <2>1, ResAssumption
  <2>5. Micro(PublishMtime(s, d, TRUE)) = q + 1
    BY <2>2, <2>4 DEF Micro
  <2>6. q + 1 # q
    BY <2>1
  <2> QED
    BY <2>3, <2>5, <2>6 DEF MtimeEqual
<1> QED
  BY <1>2, <1>3

(* A resolution, a restore or a first mirror is never a write that no stat
   gate can see. *)
THEOREM UserChoiceVisibleHolds == Spec => UserChoiceVisible
<1>1. Init => TypeInv
  BY TypeInit
<1>2. TypeInv /\ [Next]_vars => TypeInv'
  BY TypeStep
<1>3. TypeInv /\ [Next]_vars
        => [\A n \in Nodes : Overwrites(n) /\ UserChose /\ dstMtime # None
                               => ~MtimeEqual(file'[n].m, dstMtime)]_vars
  <2> SUFFICES ASSUME TypeInv, [Next]_vars, NEW n \in Nodes,
                      Overwrites(n), UserChose, dstMtime # None
               PROVE  ~MtimeEqual(file'[n].m, dstMtime)
    OBVIOUS
  <2>1. DstWrite /\ n = at
    BY OnlyDstWriteOverwrites
  <2>2. SrcMtime \in Mtime /\ dstMtime \in Mtime
    BY <2>1, SrcMtimeType DEF DstWrite, WritePcs, TypeInv, TypeOK
  <2>3. file'[n].m = PublishMtime(SrcMtime, dstMtime, UserChose)
    BY <2>1 DEF DstWrite, TypeInv, TypeOK
  <2>4. UserChose = TRUE
    BY DEF UserChose
  <2> QED
    BY <2>2, <2>3, <2>4, PublishMtimeVisible
<1> QED
  BY <1>1, <1>2, <1>3, PTL DEF Spec, UserChoiceVisible

-----------------------------------------------------------------------------
(* The whole invariant *)

(* Whatever devices, users and failures do, the operation in flight knows what
   it believes it knows: the conjunction the theorems above are drawn from. *)
THEOREM InvariantHolds == Spec => []IInv
<1>1. Init => IInv
  BY TypeInit DEF Init, IInv, CapturedInv, SpareInv, Pending, BytesInv, ReachedInv,
                  PastRead, FanPcs
<1>2. IInv /\ [Next]_vars => IInv'
  BY TypeStep, CaptureStep, SpareStep, BytesStep, ReachedStep DEF IInv
<1> QED
  BY <1>1, <1>2, PTL DEF Spec
=============================================================================
