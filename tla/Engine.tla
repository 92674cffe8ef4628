------------------------------- MODULE Engine -------------------------------
(***************************************************************************)
(* The auto-mirror engine on one sync (internal/engine/engine.go): Poll,    *)
(* ResolveConflict and RestoreVersion, each taken apart into the file and   *)
(* store operations between which a device, Syncthing or a crash can act.   *)
(*                                                                          *)
(* The sync's mutex (lockSync) is held for a whole operation, so at most    *)
(* one is in flight; pc says how far it is and "idle" that the lock is      *)
(* free.  Members are 1..N in the order of their node ids, and stay members *)
(* while the sync lives: so nobody but the operation in flight writes the   *)
(* manifest, and it is read here when Poll uses it, not when it lists it.   *)
(*                                                                          *)
(* Definitions marked "Faulty" are variants of the one below them, each     *)
(* with a mistake the properties must find; the specification uses none.    *)
(***************************************************************************)
EXTENDS Detect, Captures, FiniteSets

CONSTANTS
  N,            \* members of the sync
  Mtimes,       \* the mtimes a device's write and the server's clock may show
  MidPass,      \* may a device write while an operation is in flight?
  MaxWrites,    \* bound: writes and deletions by devices
  MaxFaults,    \* bound: failed calls, timeouts and crashes
  MaxRequests   \* bound: resolve and restore requests by users

ASSUME EngineAssumption ==
  /\ N \in Nat \ {0}
  /\ Mtimes \subseteq Mtime
  /\ MidPass \in BOOLEAN
  /\ MaxWrites \in Nat
  /\ MaxFaults \in Nat
  /\ MaxRequests \in Nat

Nodes == 1..N

VARIABLES
  \* The devices' shares, as localfs sees them.
  file,         \* each member's save: a File, or None
  \* The store.
  manifest,     \* each member's last recorded state: an Entry, or None
  fresh,        \* the members whose LastChecked is within verifyInterval
  conflicted,   \* conflict_at # nil
  synced,       \* last_synced # nil
  versions,     \* each member's captured contents, oldest first
  \* The operation in flight.
  pc,           \* its next step
  kind,         \* "poll", "resolve" or "restore"
  at,           \* the member the scan, fan-out or record loop is at, or 0
  metas,        \* what Stat returned for each member
  changed,      \* changedSet: the members that changed
  hash,         \* the tier-2 hash of each member of changedSet
  src,          \* the member fanned out from; 0 while a restore writes its target
  data,         \* the bytes being written
  dstMtime,     \* dstMtimeBefore: the destination's mtime before the overwrite
  published,    \* the mtime WriteAtomic reported
  \* Bounds and history, read by no step of the engine.
  writes, faults, requests,
  moved,        \* members written by a device since the operation read or wrote them
  edited        \* members written by a device since their entry was recorded

storeVars == <<manifest, fresh, conflicted, synced, versions>>
opVars    == <<pc, kind, at, metas, changed, hash, src, data, dstMtime, published>>
history   == <<writes, faults, requests, moved, edited>>
vars      == <<file, storeVars, opVars, history>>

-----------------------------------------------------------------------------
(* Helpers *)

Lowest(S) == CHOOSE n \in S : \A k \in S : n <= k

(* Faulty: the members that changed are written too. *)
NoSkip == {}

(* fanOut's skip set: a poll leaves alone the members that changed. *)
Skip == IF kind = "poll" THEN changed ELSE {}

(* Faulty: the loop steps over a member. *)
LaterOffByOne(n) == {d \in Nodes : d > n + 1 /\ d # src /\ d \notin Skip}

(* Faulty: only members that hold a file are written. *)
LaterUnlessAbsent(n) ==
  {d \in Nodes : d > n /\ d # src /\ d \notin Skip /\ file[d] # None}

(* The members a fan-out has still to write, past the n lowest. *)
Later(n) == {d \in Nodes : d > n /\ d # src /\ d \notin Skip}

(* Whose own entry is recorded after the fan-out: the changers of a poll,
   the winner of a resolution (a restore recorded its target before it). *)
Owners == CASE kind = "poll"    -> changed
            [] kind = "resolve" -> {src}
            [] OTHER            -> {}

(* writeIntent: a first fan-out, a resolution and a restore are a human's. *)
UserChose == kind # "poll" \/ ~synced

(* The mtime a write starts from: the source's, or, while a restore writes
   its target, the resolution time. *)
SrcMtime == metas[IF src = 0 THEN at ELSE src].m

AllNone == [n \in Nodes |-> None]

(* The operation returns, with or without an error, and unlocks the sync. *)
Return ==
  /\ pc' = "idle" /\ kind' = "poll" /\ at' = 0 /\ src' = 0
  /\ metas' = AllNone /\ hash' = AllNone /\ changed' = {}
  /\ data' = None /\ dstMtime' = None /\ published' = None
  /\ moved' = {}

(* setManifest: entry of n, LastChecked now. *)
Record(n, meta, h) ==
  /\ manifest' = [manifest EXCEPT ![n] = EntryOf(meta, h)]
  /\ fresh' = fresh \cup {n}
  /\ edited' = edited \ (IF n \in moved THEN {} ELSE {n})

-----------------------------------------------------------------------------
(* The world outside: devices and Syncthing write the shares; time passes. *)

(* A device saves, or Syncthing delivers or restores a file: any content
   under any mtime, an mtime the file carried before included. *)
DeviceWrite(n, f) ==
  /\ MidPass \/ pc = "idle"
  /\ writes < MaxWrites
  /\ f # file[n]
  /\ file' = [file EXCEPT ![n] = f]
  /\ writes' = writes + 1
  /\ moved' = IF pc = "idle" THEN moved ELSE moved \cup {n}
  /\ edited' = edited \cup {n}
  /\ UNCHANGED <<storeVars, opVars, faults, requests>>

(* verifyInterval passes for a member since its bytes were last looked at. *)
Age(n) ==
  /\ n \in fresh
  /\ fresh' = fresh \ {n}
  /\ UNCHANGED <<file, manifest, conflicted, synced, versions, opVars, history>>

(* Any call fails, the pass's context ends, or the process dies: the
   operation stops where it is, and what it did so far stands. *)
Abort ==
  /\ pc # "idle"
  /\ faults < MaxFaults
  /\ faults' = faults + 1
  /\ Return
  /\ UNCHANGED <<file, storeVars, writes, requests, edited>>

-----------------------------------------------------------------------------
(* Poll: the scan *)

PollStart ==
  /\ pc = "idle"
  /\ ~conflicted
  /\ pc' = "stat"
  /\ at' = 1
  /\ UNCHANGED <<file, storeVars, kind, metas, changed, hash, src, data,
                 dstMtime, published, history>>

(* A paused sync is skipped. *)
PollPaused ==
  /\ pc = "idle"
  /\ conflicted
  /\ UNCHANGED vars

(* The scan goes on to the next member, after the last one to the decision. *)
NextScan ==
  /\ pc' = IF at = N THEN "decide" ELSE "stat"
  /\ at' = IF at = N THEN 0 ELSE at + 1

Stat ==
  /\ pc = "stat"
  /\ metas' = [metas EXCEPT ![at] = MetaOf(file[at])]

MustHash ==
  \/ StatDiffers(manifest[at], MetaOf(file[at]))
  \/ DueForVerify(manifest[at], at \in fresh)

(* Tier 1: the stat matches and no verification is due; or the member is
   absent, which is a change if the manifest had a file. *)
StatFast ==
  /\ Stat
  /\ file[at] # None => ~MustHash
  /\ changed' = IF file[at] = None /\ manifest[at] # None
                THEN changed \cup {at} ELSE changed
  /\ NextScan
  /\ UNCHANGED <<file, storeVars, kind, hash, src, data, dstMtime, published, history>>

StatSlow ==
  /\ Stat
  /\ file[at] # None
  /\ MustHash
  /\ pc' = "hash"
  /\ UNCHANGED <<file, storeVars, kind, at, changed, hash, src, data, dstMtime,
                 published, history>>

SameBytes == manifest[at] # None /\ manifest[at].h = file[at].c

(* Tier 2, a touch or a verified member: the entry is reconciled. *)
HashTouch ==
  /\ pc = "hash"
  /\ file[at] # None
  /\ SameBytes
  /\ Record(at, metas[at], file[at].c)
  /\ moved' = moved \ {at}
  /\ NextScan
  /\ UNCHANGED <<file, conflicted, synced, versions, kind, metas, changed, hash,
                 src, data, dstMtime, published, writes, faults, requests>>

(* Faulty: a change is recorded when it is found, not once it is mirrored. *)
HashChangedRecords ==
  /\ pc = "hash"
  /\ file[at] # None
  /\ ~SameBytes
  /\ Record(at, metas[at], file[at].c)
  /\ changed' = changed \cup {at}
  /\ hash' = [hash EXCEPT ![at] = file[at].c]
  /\ moved' = moved \ {at}
  /\ NextScan
  /\ UNCHANGED <<file, conflicted, synced, versions, kind, metas, src, data,
                 dstMtime, published, writes, faults, requests>>

(* Tier 2, other bytes: the member joins changedSet. *)
HashChanged ==
  /\ pc = "hash"
  /\ file[at] # None
  /\ ~SameBytes
  /\ changed' = changed \cup {at}
  /\ hash' = [hash EXCEPT ![at] = file[at].c]
  /\ moved' = moved \ {at}
  /\ NextScan
  /\ UNCHANGED <<file, storeVars, kind, metas, src, data, dstMtime, published,
                 writes, faults, requests, edited>>

(* The file went between Stat and Hash: the pass fails. *)
HashGone ==
  /\ pc = "hash"
  /\ file[at] = None
  /\ Return
  /\ UNCHANGED <<file, storeVars, writes, faults, requests, edited>>

-----------------------------------------------------------------------------
(* Poll: the decision by the changed members' hashes *)

Vanished == \E n \in changed : metas[n] = None

(* Faulty: two changers are a fork whatever they hold. *)
ForkByCount == Vanished \/ \E a, b \in changed : a # b

(* A member vanished, or the changers hold two contents or more. *)
Fork == Vanished \/ \E a, b \in changed : hash[a] # hash[b]

DecideNoop ==
  /\ pc = "decide"
  /\ changed = {}
  /\ Return
  /\ UNCHANGED <<file, storeVars, writes, faults, requests, edited>>

(* flagConflict. *)
DecideConflict ==
  /\ pc = "decide"
  /\ Fork
  /\ conflicted' = TRUE
  /\ Return
  /\ UNCHANGED <<file, manifest, fresh, synced, versions, writes, faults,
                 requests, edited>>

DecidePropagate ==
  /\ pc = "decide"
  /\ changed # {}
  /\ ~Fork
  /\ src' = Lowest(changed)
  /\ pc' = "read"
  /\ UNCHANGED <<file, storeVars, kind, at, metas, changed, hash, data, dstMtime,
                 published, history>>

-----------------------------------------------------------------------------
(* The human's requests *)

(* ResolveConflict up to the fan-out; refused with no state changed when the
   sync is not in conflict or the winner holds no file. *)
Resolve(w) ==
  /\ pc = "idle"
  /\ requests < MaxRequests
  /\ conflicted
  /\ file[w] # None
  /\ requests' = requests + 1
  /\ kind' = "resolve"
  /\ src' = w
  /\ metas' = [metas EXCEPT ![w] = MetaOf(file[w])]
  /\ pc' = "read"
  /\ UNCHANGED <<file, storeVars, at, changed, hash, data, dstMtime, published,
                 writes, faults, moved, edited>>

(* RestoreVersion of the i-th capture of member n up to the stat of its
   target; now is the server's clock. *)
Restore(n, i, now) ==
  /\ pc = "idle"
  /\ requests < MaxRequests
  /\ i \in DOMAIN versions[n]
  /\ requests' = requests + 1
  /\ kind' = "restore"
  /\ data' = versions[n][i]
  /\ metas' = [metas EXCEPT ![n] = [m |-> now, s |-> SizeOf[versions[n][i]]]]
  /\ at' = n
  /\ pc' = "dstStat"
  /\ UNCHANGED <<file, storeVars, changed, hash, src, dstMtime, published,
                 writes, faults, moved, edited>>

-----------------------------------------------------------------------------
(* fanOut *)

(* On to the next destination past member n; after the last one to the
   entries of the changers or the winner, if any, and then MarkSyncSynced. *)
NextDst(n) ==
  CASE Later(n) # {}                 -> pc' = "dstStat" /\ at' = Lowest(Later(n))
    [] Later(n) = {} /\ Owners # {}  -> pc' = "own" /\ at' = Lowest(Owners)
    [] OTHER                         -> pc' = "mark" /\ at' = 0

(* The source is read once; these bytes are what every member receives. *)
SourceRead ==
  /\ pc = "read"
  /\ file[src] # None
  /\ data' = file[src].c
  /\ moved' = moved \ {src}
  /\ NextDst(0)
  /\ UNCHANGED <<file, storeVars, kind, metas, changed, hash, src, dstMtime,
                 published, writes, faults, requests, edited>>

SourceGone ==
  /\ pc = "read"
  /\ file[src] = None
  /\ Return
  /\ UNCHANGED <<file, storeVars, writes, faults, requests, edited>>

DstStat ==
  /\ pc = "dstStat"
  /\ dstMtime' = IF file[at] = None THEN None ELSE file[at].m
  /\ pc' = "capture"
  /\ UNCHANGED <<file, storeVars, kind, at, metas, changed, hash, src, data,
                 published, history>>

(* A failed stat of the destination does not stop the write. *)
DstStatFails ==
  /\ pc = "dstStat"
  /\ faults < MaxFaults
  /\ faults' = faults + 1
  /\ dstMtime' = None
  /\ pc' = "capture"
  /\ UNCHANGED <<file, storeVars, kind, at, metas, changed, hash, src, data,
                 published, writes, requests, moved, edited>>

(* Faulty: the overwrite is not preceded by a capture. *)
NoCapture ==
  /\ pc = "capture"
  /\ moved' = moved \ {at}
  /\ pc' = "write"
  /\ UNCHANGED <<file, storeVars, kind, at, metas, changed, hash, src, data,
                 dstMtime, published, writes, faults, requests, edited>>

(* captureBeforeOverwrite: the bytes read now are stored as a version. *)
DstCapture ==
  /\ pc = "capture"
  /\ versions' = IF file[at] = None THEN versions
                 ELSE [versions EXCEPT ![at] = Captured(@, file[at].c)]
  /\ moved' = moved \ {at}
  /\ pc' = "write"
  /\ UNCHANGED <<file, manifest, fresh, conflicted, synced, kind, at, metas,
                 changed, hash, src, data, dstMtime, published, writes, faults,
                 requests, edited>>

(* WriteAtomic, at its rename. *)
DstWrite ==
  /\ pc = "write"
  /\ published' = PublishMtime(SrcMtime, dstMtime, UserChose)
  /\ file' = [file EXCEPT ![at] = [c |-> data, m |-> published']]
  /\ moved' = moved \ {at}
  /\ pc' = "record"
  /\ UNCHANGED <<storeVars, kind, at, metas, changed, hash, src, data, dstMtime,
                 writes, faults, requests, edited>>

Written == [m |-> published, s |-> SizeOf[data]]

(* Faulty: the entry names the hash tier 2 computed for the source. *)
DstRecordScanned ==
  /\ pc = "record"
  /\ src # 0
  /\ Record(at, Written, IF kind = "poll" THEN hash[src] ELSE data)
  /\ dstMtime' = None
  /\ published' = None
  /\ NextDst(at)
  /\ UNCHANGED <<file, conflicted, synced, versions, kind, metas, changed, hash,
                 src, data, writes, faults, requests, moved>>

(* The written member's entry: the bytes and the mtime really published. *)
DstRecord ==
  /\ pc = "record"
  /\ src # 0
  /\ Record(at, Written, data)
  /\ dstMtime' = None
  /\ published' = None
  /\ NextDst(at)
  /\ UNCHANGED <<file, conflicted, synced, versions, kind, metas, changed, hash,
                 src, data, writes, faults, requests, moved>>

(* A restore's target is recorded before its fan-out begins from it. *)
TargetRecord ==
  /\ pc = "record"
  /\ src = 0
  /\ Record(at, Written, data)
  /\ src' = at
  /\ metas' = [metas EXCEPT ![at] = Written]
  /\ dstMtime' = None
  /\ published' = None
  /\ at' = 0
  /\ pc' = "read"
  /\ UNCHANGED <<file, conflicted, synced, versions, kind, changed, hash, data,
                 writes, faults, requests, moved>>

-----------------------------------------------------------------------------
(* After the fan-out *)

(* Faulty: the source too is recorded under its tier-2 hash. *)
OwnRecordScanned ==
  /\ pc = "own"
  /\ Record(at, metas[at], hash[at])
  /\ LET rest == {n \in Owners : n > at}
     IN  /\ pc' = IF rest = {} THEN "mark" ELSE "own"
         /\ at' = IF rest = {} THEN 0 ELSE Lowest(rest)
  /\ UNCHANGED <<file, conflicted, synced, versions, kind, metas, changed, hash,
                 src, data, dstMtime, published, writes, faults, requests, moved>>

(* Every changer's, or the winner's, own entry: the source under the hash of
   the bytes that were read from it, a co-changer under its tier-2 hash. *)
OwnRecord ==
  /\ pc = "own"
  /\ Record(at, metas[at], IF at = src THEN data ELSE hash[at])
  /\ LET rest == {n \in Owners : n > at}
     IN  /\ pc' = IF rest = {} THEN "mark" ELSE "own"
         /\ at' = IF rest = {} THEN 0 ELSE Lowest(rest)
  /\ UNCHANGED <<file, conflicted, synced, versions, kind, metas, changed, hash,
                 src, data, dstMtime, published, writes, faults, requests, moved>>

(* MarkSyncSynced ends a poll. *)
MarkPoll ==
  /\ pc = "mark"
  /\ kind = "poll"
  /\ synced' = TRUE
  /\ Return
  /\ UNCHANGED <<file, manifest, fresh, conflicted, versions, writes, faults,
                 requests, edited>>

(* A resolution or a restore has its conflict to clear after it. *)
MarkChosen ==
  /\ pc = "mark"
  /\ kind # "poll"
  /\ synced' = TRUE
  /\ pc' = "clear"
  /\ UNCHANGED <<file, manifest, fresh, conflicted, versions, kind, at, metas,
                 changed, hash, src, data, dstMtime, published, history>>

(* SetSyncConflict(nil), last. *)
Clear ==
  /\ pc = "clear"
  /\ conflicted' = FALSE
  /\ Return
  /\ UNCHANGED <<file, manifest, fresh, synced, versions, writes, faults,
                 requests, edited>>

-----------------------------------------------------------------------------
(* A sync just created: members whose saves the engine has never seen. *)
Init ==
  /\ file \in [Nodes -> {None} \cup [c: Contents, m: Mtimes]]
  /\ manifest = AllNone
  /\ fresh = {}
  /\ conflicted = FALSE
  /\ synced = FALSE
  /\ versions = [n \in Nodes |-> <<>>]
  /\ pc = "idle" /\ kind = "poll" /\ at = 0 /\ src = 0
  /\ metas = AllNone /\ hash = AllNone /\ changed = {}
  /\ data = None /\ dstMtime = None /\ published = None
  /\ writes = 0 /\ faults = 0 /\ requests = 0
  /\ moved = {}
  /\ edited = {n \in Nodes : file[n] # None}

Scan   == StatFast \/ StatSlow \/ HashTouch \/ HashChanged \/ HashGone
Decide == DecideNoop \/ DecideConflict \/ DecidePropagate
FanOut == SourceRead \/ SourceGone \/ DstStat \/ DstStatFails \/ DstCapture
            \/ DstWrite \/ DstRecord \/ TargetRecord
Settle == OwnRecord \/ MarkPoll \/ MarkChosen \/ Clear

(* The operation in flight goes on. *)
Step == Scan \/ Decide \/ FanOut \/ Settle

Request ==
  \E n \in Nodes :
    \/ Resolve(n)
    \/ \E i \in 1..Retain, now \in Mtimes : Restore(n, i, now)

World ==
  \E n \in Nodes :
    \/ \E f \in {None} \cup [c: Contents, m: Mtimes] : DeviceWrite(n, f)
    \/ Age(n)

Next == PollStart \/ PollPaused \/ Step \/ Request \/ World \/ Abort

Spec == Init /\ [][Next]_vars

(* The daemon polls every tick and an operation holding the lock goes on;
   time passes.  Users and devices owe nothing. *)
Fairness ==
  /\ WF_vars(PollStart)
  /\ WF_vars(Step)
  /\ \A n \in Nodes : WF_vars(Age(n))

FairSpec == Spec /\ Fairness
-----------------------------------------------------------------------------
(* Properties *)

FileOrNone == {None} \cup File

(* Every variable has its type. *)
TypeOK ==
  /\ file \in [Nodes -> FileOrNone]
  /\ manifest \in [Nodes -> {None} \cup Entry]
  /\ fresh \subseteq Nodes
  /\ conflicted \in BOOLEAN /\ synced \in BOOLEAN
  /\ versions \in [Nodes -> Seq(Contents)]
  /\ pc \in {"idle", "stat", "hash", "decide", "read", "dstStat", "capture",
             "write", "record", "own", "mark", "clear"}
  /\ kind \in {"poll", "resolve", "restore"}
  /\ at \in {0} \cup Nodes /\ src \in {0} \cup Nodes
  /\ metas \in [Nodes -> {None} \cup Meta]
  /\ changed \subseteq Nodes
  /\ hash \in [Nodes -> {None} \cup Contents]
  /\ data \in {None} \cup Contents
  /\ dstMtime \in {None} \cup Mtime /\ published \in {None} \cup Mtime
  /\ writes \in Nat /\ faults \in Nat /\ requests \in Nat
  /\ moved \subseteq Nodes /\ edited \subseteq Nodes

(* The engine replaces the save of member n in this step. *)
Overwrites(n) == file'[n] # file[n] /\ writes' = writes

Holds(n, c) == file[n] # None /\ file[n].c = c

Stored(n, c) == \E i \in DOMAIN versions[n] : versions[n][i] = c

(* Capture before overwrite (captureBeforeOverwrite, a hard gate of fanOut
   and RestoreVersion): when the engine replaces a member's save, the bytes
   replaced are among that member's stored versions, unless a device wrote
   them after the capture had read the file. *)
CaptureGate ==
  [][\A n \in Nodes :
       Overwrites(n) /\ file[n] # None /\ n \notin moved
         => Stored(n, file[n].c)]_vars

(* docs/state-machine.md and captureBeforeOverwrite promise more: nothing
   recoverable is ever destroyed un-captured. *)
NothingDestroyedUncaptured ==
  [][\A n \in Nodes :
       Overwrites(n) /\ file[n] # None => Stored(n, file[n].c)]_vars

(* A poll overwrites only members that did not change since the manifest: at
   this pass's stat of the member it was as the manifest describes it, so a
   fork or a deletion is never propagated over anyone's save (Poll, fanOut's
   skip set). *)
PollSparesChangers ==
  [][\A n \in Nodes :
       Overwrites(n) /\ kind = "poll"
         => /\ ~StatDiffers(manifest[n], metas[n])
            /\ n \notin changed]_vars

(* An entry describes real bytes: whenever a member's entry is recorded, its
   file holds content of exactly that hash, unless a device wrote it after
   the operation had read or written it (fanOut, Poll's changers, the touch). *)
ManifestDescribesRealBytes ==
  [][\A n \in Nodes :
       manifest'[n] # manifest[n] /\ n \notin moved'
         => Holds(n, manifest'[n].h)]_vars

(* A write a human chose can be seen by every mtime+size gate: it never
   leaves the destination on the microsecond it was found on (publishMtime). *)
UserChoiceVisible ==
  [][\A n \in Nodes :
       Overwrites(n) /\ UserChose /\ dstMtime # None
         => ~MtimeEqual(file'[n].m, dstMtime)]_vars

(* A conflict is cleared only when the choice reached everyone: every member
   holds one and the same content, except those a device wrote since, and
   last_synced is set (ResolveConflict and RestoreVersion, steps 1 to 3). *)
ResolutionReachesAll ==
  [][conflicted /\ ~conflicted'
       => /\ synced
          /\ \E c \in Contents : \A n \in Nodes \ moved : Holds(n, c)]_vars

(* The engine has nothing left to notice about member n. *)
Settled(n) ==
  IF file[n] = None THEN manifest[n] = None
  ELSE manifest[n] # None /\ manifest[n].h = file[n].c

(* All members hold the same save, or none holds one. *)
Mirrored ==
  \/ \A n \in Nodes : file[n] = None
  \/ \E c \in Contents : \A n \in Nodes : Holds(n, c)

(* What the mirror is for: a sync that is not paused and whose every entry
   describes its file, so that no later poll will write anything, has
   identical saves everywhere. *)
SettledMeansMirrored ==
  pc = "idle" /\ ~conflicted /\ (\A n \in Nodes : Settled(n)) => Mirrored

(* The same as long as no call has failed. *)
SettledMeansMirroredFaultless == faults = 0 => SettledMeansMirrored

(* A conflict is flagged only for what the users did: a member's save was
   deleted, or two members hold different saves written since the engine
   last recorded them, as long as no call has failed. *)
ConflictIsGenuine ==
  [][~conflicted /\ conflicted' /\ faults = 0
       => \/ \E n \in Nodes : file[n] = None /\ manifest[n] # None
          \/ \E a, b \in edited : file[a] # None /\ file[b] # None
                                    /\ file[a].c # file[b].c]_vars

(* A quiet poll is hash-free: the bytes of a member are read by the scan only
   if a device wrote it since its entry was recorded or its verification is
   due (the two-tier detection), as long as no call has failed. *)
QuietPollHashFree ==
  [][pc = "stat" /\ pc' = "hash" /\ faults = 0
       => at \in edited \/ at \notin fresh]_vars

(* An aborted pass is found again: when an operation stops half way, either
   the members are identical, or the sync is still in conflict, or some member
   differs from its entry and the next poll takes the change up again. *)
Redetected ==
  Mirrored \/ conflicted \/ \E n \in Nodes : ~Settled(n)

Aborts(k) == pc # "idle" /\ kind = k /\ faults' = faults + 1 /\ pc' = "idle"

(* Crash safety of Poll and ResolveConflict (docs/state-machine.md): the
   manifest trails the writes, so a crash or a failed call between any two of
   them leaves the divergence to be detected and retried, as long as no call
   failed before: after an earlier failure a device may have brought the source
   back to what its entry says, or a restore may have stopped half way. *)
AbortIsRedetected ==
  [][(Aborts("poll") \/ Aborts("resolve")) /\ faults = 0 => Redetected']_vars

(* The comment on RestoreVersion: "a partial restore leaves the manifest
   trailing the actual writes and is retried/re-driven safely". *)
PartialRestoreIsRedriven == [][Aborts("restore") => Redetected']_vars

(* Every change is noticed in the end: with polls and time going on, the sync
   comes to rest either paused for a human or with every entry describing the
   bytes of its file, changes that no stat can see included (dueForVerify). *)
ChangesNoticed == <>[](conflicted \/ \A n \in Nodes : Settled(n))
=============================================================================
