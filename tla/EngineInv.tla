------------------------------ MODULE EngineInv ------------------------------
(***************************************************************************)
(* The invariant of the engine that makes its properties inductive: what    *)
(* the operation in flight knows at each of its steps, of its own local     *)
(* variables (Control) and of the shares and the store (the rest).  The     *)
(* runs check it on small instances; EngineProofs proves it.  The last part,  *)
(* proved by EngineBetweenProofs, holds when devices write between          *)
(* operations only.                                                         *)
(***************************************************************************)
EXTENDS Engine

FanPcs   == {"read", "dstStat", "capture", "write", "record", "own", "mark", "clear"}
WritePcs == {"dstStat", "capture", "write", "record"}

(* Past the read of the source: data holds the bytes every member receives. *)
PastRead == pc \in FanPcs \ {"read"} /\ src # 0

(* Between operations nothing is remembered of the last one. *)
IdleClean ==
  pc = "idle" => kind = "poll" /\ at = 0 /\ src = 0 /\ changed = {} /\ moved = {}

(* The scan goes up through the members; the one being hashed was there. *)
ScanControl ==
  /\ pc \in {"stat", "hash", "decide"} => kind = "poll" /\ src = 0
  /\ pc \in {"stat", "hash"} => at \in Nodes /\ \A n \in changed : n < at
  /\ pc = "hash" => metas[at] \in Meta

(* A changer that did not vanish has been hashed; only polls have changers. *)
ChangersHashed ==
  /\ \A n \in changed : metas[n] # None => hash[n] \in Contents
  /\ kind # "poll" => changed = {}

(* A fan-out has a source that was stat'ed, which for a poll is a changer; a
   restore that still writes its target has the target's metadata instead. *)
SourceKnown ==
  pc \in FanPcs =>
    /\ \/ src = 0 /\ kind = "restore" /\ pc \in WritePcs /\ metas[at] \in Meta
       \/ src \in Nodes /\ metas[src] \in Meta
    /\ kind = "poll" => src \in changed /\ \A n \in changed : metas[n] # None

(* A write has a destination that is neither the source nor in the skip set,
   and its bytes; a record has the mtime that was published. *)
WriteControl ==
  /\ pc \in WritePcs => at \in Nodes /\ at # src /\ at \notin Skip
  /\ pc \in FanPcs \ {"read"} => data \in Contents
  /\ pc = "record" => published \in Nat
  /\ pc = "own" => at \in Owners
  /\ pc = "clear" => kind # "poll" /\ synced

Control == IdleClean /\ ScanControl /\ ChangersHashed /\ SourceKnown /\ WriteControl

TypeInv == TypeOK /\ Control

(* About to overwrite: the bytes found are among the member's versions. *)
CapturedInv ==
  pc = "write" /\ file[at] # None /\ at \notin moved => Stored(at, file[at].c)

(* The members this pass has stat'ed and has yet to overwrite. *)
Pending ==
  CASE pc \in {"stat", "hash"}                -> {n \in Nodes : n < at}
    [] pc \in {"decide", "read"}              -> Nodes
    [] pc \in {"dstStat", "capture", "write"} -> {n \in Nodes : n >= at}
    [] pc = "record"                          -> {n \in Nodes : n > at}
    [] OTHER                                  -> {}

(* A poll found them as the manifest describes them, the changers apart. *)
SpareInv ==
  kind = "poll" => \A n \in Pending \ changed : ~StatDiffers(manifest[n], metas[n])

(* What the operation believes of a member's bytes is so, unless a device
   wrote the member after the engine had read or written it. *)
BytesInv ==
  /\ \A n \in changed \ moved :
       metas[n] # None /\ ~(PastRead /\ n = src) => Holds(n, hash[n])
  /\ PastRead /\ src \notin moved => Holds(src, data)
  /\ pc = "record" /\ at \notin moved => Holds(at, data)

(* The members a resolution or a restore has already brought to the choice. *)
Reached ==
  CASE pc \in {"dstStat", "capture", "write"} -> {n \in Nodes : n = src \/ n < at}
    [] pc = "record"                          -> {n \in Nodes : n = src \/ n <= at}
    [] pc \in {"own", "mark", "clear"}        -> Nodes
    [] OTHER                                  -> {}

ReachedInv ==
  kind # "poll" /\ PastRead => \A n \in Reached \ moved : Holds(n, data)

IInv == TypeInv /\ CapturedInv /\ SpareInv /\ BytesInv /\ ReachedInv

-----------------------------------------------------------------------------
(* What holds besides when devices write between operations only. *)

(* The members whose stat of this operation still describes their file. *)
Statted ==
  CASE pc = "stat"              -> {n \in Nodes : n < at}
    [] pc = "hash"              -> {n \in Nodes : n <= at}
    [] pc = "decide"            -> Nodes
    [] pc \in FanPcs /\ src # 0 -> changed \cup {src}
    [] OTHER                    -> {}

StatsInv == \A n \in Statted : metas[n] = MetaOf(file[n])

(* The member being recorded is as it was written; a restore's target stays
   so until its fan-out begins. *)
WrittenInv ==
  /\ pc = "record" => file[at] = [c |-> data, m |-> published]
  /\ pc = "read" /\ kind = "restore" => Holds(src, data)

(* The changers whose own entry is still to come. *)
Unrecorded ==
  CASE pc \in {"idle", "mark", "clear"} -> {}
    [] pc = "own"                       -> {n \in changed : n >= at}
    [] OTHER                            -> changed

UnsettledInv == \A n \in Unrecorded : ~Settled(n)

(* The changers of a poll that fans out all hold what is fanned out. *)
ChangersAgree ==
  kind = "poll" /\ pc \in FanPcs =>
    /\ \A n \in changed : hash[n] = hash[src]
    /\ PastRead => data = hash[src]

(* Every member passed by a fan-out holds its data. *)
MirrorInv == PastRead => \A n \in Reached \cup Skip : Holds(n, data)

UndisturbedInv ==
  /\ moved = {} /\ StatsInv /\ WrittenInv /\ UnsettledInv /\ ChangersAgree
  /\ MirrorInv
  /\ kind = "resolve" => conflicted

(* A member no device wrote since its entry was recorded is as the entry says. *)
Quiet(n) == Settled(n) /\ ~StatDiffers(manifest[n], MetaOf(file[n]))

QuietInv == \A n \in Nodes \ edited : Quiet(n) \/ (pc = "record" /\ n = at)

(* All entries name one content, or there is none yet. *)
Agreed ==
  \/ \A n \in Nodes : manifest[n] = None
  \/ \E h \in Contents : \A n \in Nodes : manifest[n] # None /\ manifest[n].h = h

(* The operation in flight, if any, has recorded no new content yet. *)
Untouched ==
  \/ pc \in {"idle", "stat", "hash", "decide"}
  \/ pc = "read" /\ kind # "restore"
  \/ pc \in WritePcs /\ src = 0

(* The members whose entry already names the content fanned out. *)
Recorded ==
  CASE pc \in WritePcs                -> {n \in Nodes \ (Skip \cup {src}) : n < at}
                                            \cup {n \in {src} : kind = "restore"}
    [] pc = "own"                     -> {n \in Nodes : n \in Owners => n < at}
    [] pc \in {"mark", "clear"}       -> Nodes
    [] OTHER                          -> {src}

EntriesInv ==
  IF Untouched THEN Agreed
  ELSE \A n \in Recorded : manifest[n] # None /\ manifest[n].h = data

(* As long as no call has failed. *)
FaultlessInv == faults = 0 => QuietInv /\ EntriesInv

BetweenIInv == TypeInv /\ BytesInv /\ UndisturbedInv /\ FaultlessInv
=============================================================================
