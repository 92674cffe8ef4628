------------------------------- MODULE Detect -------------------------------
(***************************************************************************)
(* The pure rules by which the engine decides, from metadata alone, whether *)
(* a save changed and which mtime a write asks for                          *)
(* (internal/engine/engine.go: mtimeEqual, statDiffers, dueForVerify,       *)
(* publishMtime).                                                           *)
(*                                                                          *)
(* An mtime is a natural number of clock ticks.  Res ticks make the         *)
(* comparison resolution of the code, mtimeResolution, one microsecond:     *)
(* a file carries a tick count, the manifest only the whole microseconds of *)
(* one (setManifest truncates, and Postgres could not store more).          *)
(***************************************************************************)
EXTENDS Naturals

CONSTANTS
  Contents,   \* the byte strings a save may hold, one per SHA-256
  None,       \* Go's nil: no file, no manifest entry, no mtime
  Res,        \* ticks per microsecond
  SizeOf      \* the length of a byte string

ASSUME ContentsAssumption == SizeOf \in [Contents -> Nat]
ASSUME ResAssumption == Res \in Nat \ {0}

Mtime == Nat

(* What Stat reports of a file, and what the manifest remembers of one. *)
Meta  == [m: Mtime, s: Nat]
Entry == [m: Nat, s: Nat, h: Contents]
File  == [c: Contents, m: Mtime]

ASSUME NoneAssumption ==
  /\ None \notin Contents
  /\ None \notin Nat
  /\ None \notin Meta
  /\ None \notin Entry
  /\ None \notin File

Micro(t) == t \div Res

MtimeEqual(a, b) == Micro(a) = Micro(b)

(* Stat: absence is None, as statOpt maps ErrNotExist. *)
MetaOf(f) == IF f = None THEN None ELSE [m |-> f.m, s |-> SizeOf[f.c]]

(* The row setManifest stores for a stat and the hash of the bytes. *)
EntryOf(meta, hash) == [m |-> Micro(meta.m), s |-> meta.s, h |-> hash]

(* Faulty: the file's raw mtime is compared with the truncated one stored. *)
StatDiffersExact(me, cur) ==
  IF me = None \/ cur = None THEN me # cur
  ELSE me.m * Res # cur.m \/ me.s # cur.s

(* Tier 1, the stat gate: appeared, disappeared, or another mtime or size. *)
StatDiffers(me, cur) ==
  IF me = None \/ cur = None THEN me # cur
  ELSE me.m # Micro(cur.m) \/ me.s # cur.s

(* Faulty: a file whose stat is unchanged is never hashed. *)
NeverDue(me, isFresh) == FALSE

(* The periodic verification: a member the manifest describes is hashed
   whatever its stat says once verifyInterval has passed since LastChecked.
   isFresh says that it has not. *)
DueForVerify(me, isFresh) == me # None /\ ~isFresh

(* Faulty: a bump too small to survive the manifest's truncation. *)
PublishMtimeTick(srcMtime, dstMtime, userChose) ==
  IF dstMtime # None /\ MtimeEqual(srcMtime, dstMtime) /\ userChose
    THEN dstMtime + 1
    ELSE srcMtime

(* The mtime a write asks for: the source's, except that a write a human
   chose never lands on the mtime its destination already carries. *)
PublishMtime(srcMtime, dstMtime, userChose) ==
  IF dstMtime # None /\ MtimeEqual(srcMtime, dstMtime) /\ userChose
    THEN (Micro(dstMtime) + 1) * Res
    ELSE srcMtime
=============================================================================
