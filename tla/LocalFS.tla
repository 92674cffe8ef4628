------------------------------ MODULE LocalFS -------------------------------
(***************************************************************************)
(* The local-filesystem adapter (internal/reach/localfs): WriteAtomic, one *)
(* system call after another, several calls at once, on a share whose names *)
(* and bytes reach the disk only when they are fsynced.                     *)
(*                                                                          *)
(* A directory keeps a list of names.  Making a directory and renaming a    *)
(* file change the list of the directory above, which a power loss may still*)
(* undo until that directory is fsynced; a file's bytes may be torn until    *)
(* the file is.  Saves are numbered: a later save has a higher number.       *)
(* The root is mounted and stays; nothing below it is a symbolic link.       *)
(***************************************************************************)
EXTENDS Naturals, FiniteSets

CONSTANTS
  Files, Dirs,  \* what a share may hold, below
  Root,         \* its root
  Parent,       \* the directory of a file or directory
  Callers,      \* who may be in a call
  Directory,    \* what a directory's name stands for
  None,         \* not there
  Torn          \* bytes that reached the disk in part

ASSUME FilesAssumption ==
  /\ Parent \in [Files \cup Dirs -> Dirs \cup {Root}]
  /\ Torn \notin Nat \cup {Directory, None}
  /\ None \notin Nat \cup {Directory} \cup Callers
  /\ Directory \notin Nat
  /\ IsFiniteSet(Callers)

VARIABLES
  entry,   \* what the processes see: the save in a file, whether a directory is there
  lost,    \* what a power loss may put there instead
  call     \* each caller's WriteAtomic

(* The contents of saves: their numbers. *)
Saves == Nat

Entries == Files \cup Dirs

Closed(D) == \A d \in D : Parent[d] \in D \cup {Root}

(* The directories above e: no set closed under Parent leaves one out. *)
Ancestors ==
  [e \in Entries |->
     {d \in Dirs : \A D \in SUBSET Dirs : Closed(D) /\ Parent[e] \in D \cup {Root} => d \in D}]

(* Every chain of parents ends at the root. *)
ASSUME TreeAssumption ==
  /\ IsFiniteSet(Entries) /\ Files \cap Dirs = {} /\ Root \notin Entries
  /\ \A e \in Entries :
       /\ e \notin Ancestors[e]
       /\ Parent[e] = Root \/ \E d \in Ancestors[e] : Parent[d] = Root

Present(e) == entry[e] # None

(* Faulty: in any order. *)
AnyOf(D) == D

Shallowest(D) == {d \in D : Ancestors[d] \cap D = {}}

Calling(c) == call[c] # None

CallAt(c, step) == Calling(c) /\ call[c].step = step

Turn(c, step) == call' = [call EXCEPT ![c].step = step]

(* The names of a directory are on disk; bytes that are not stay so. *)
SyncDir(d) ==
  lost' = [e \in Entries |-> IF Parent[e] = d THEN lost[e] \cap {Torn} ELSE lost[e]]

(* A new name in e's directory, which is not on disk yet. *)
Name(e, v, risk) ==
  /\ entry' = [entry EXCEPT ![e] = v]
  /\ lost' = [lost EXCEPT ![e] = @ \cup {entry[e]} \cup risk]

(* missingAncestors. *)
Missing(f) == {d \in Ancestors[f] : ~Present(d)}

BeginWrite(c, f, v) ==
  /\ ~Calling(c)
  /\ call' = [call EXCEPT ![c] =
                [path |-> f, data |-> v, step |-> "mkdir", todo |-> Missing(f),
                 found |-> Ancestors[f] \ Missing(f), temp |-> "none"]]
  /\ UNCHANGED <<entry, lost>>

(* MkdirAll, a directory at a time; another call may have made it by now. *)
Mkdir(c) ==
  /\ CallAt(c, "mkdir")
  /\ LET missing == Missing(call[c].path) IN
     \/ /\ missing = {}
        /\ Turn(c, "sync parents")
        /\ UNCHANGED <<entry, lost>>
     \/ \E d \in Shallowest(missing) :
          Name(d, Directory, {}) /\ UNCHANGED call

(* Faulty: the deepest directory alone. *)
SyncParentDeepest(c) ==
  /\ CallAt(c, "sync parents")
  /\ IF call[c].todo = {} THEN UNCHANGED lost ELSE SyncDir(Parent[Parent[call[c].path]])
  /\ call' = [call EXCEPT ![c].step = "write temp", ![c].todo = {}]
  /\ UNCHANGED entry

(* The parent of each directory that was missing, shallowest first. *)
SyncParent(c) ==
  /\ CallAt(c, "sync parents")
  /\ \/ /\ call[c].todo = {}
        /\ Turn(c, "write temp")
        /\ UNCHANGED lost
     \/ \E d \in Shallowest(call[c].todo) :
          /\ SyncDir(Parent[d])
          /\ call' = [call EXCEPT ![c].todo = @ \ {d}]
  /\ UNCHANGED entry

(* CreateTemp, fchmod and write: a file of its own that nobody else opens. *)
WriteTemp(c) ==
  /\ CallAt(c, "write temp")
  /\ call' = [call EXCEPT ![c].temp = "written", ![c].step = "sync temp"]
  /\ UNCHANGED <<entry, lost>>

(* Faulty: no fsync. *)
SyncTempNot(c) ==
  /\ CallAt(c, "sync temp")
  /\ Turn(c, "rename")
  /\ UNCHANGED <<entry, lost>>

(* fsync, close, and the published mtime. *)
SyncTemp(c) ==
  /\ CallAt(c, "sync temp")
  /\ call' = [call EXCEPT ![c].temp = "durable", ![c].step = "rename"]
  /\ UNCHANGED <<entry, lost>>

(* What a power loss may leave of a file named before its fsync. *)
Risk(temp) == IF temp = "durable" THEN {} ELSE {Torn}

Rename(c) ==
  /\ CallAt(c, "rename")
  /\ Name(call[c].path, call[c].data, Risk(call[c].temp))
  /\ call' = [call EXCEPT ![c].temp = "none", ![c].step = "sync name"]

(* The directory's fsync after the rename; the call returns. *)
Published(c) ==
  /\ CallAt(c, "sync name")
  /\ SyncDir(Parent[call[c].path])
  /\ call' = [call EXCEPT ![c] = None]
  /\ UNCHANGED entry

(* A system call fails: the temporary file is removed, the directories made so
   far stay, and so does a name already changed. *)
CallFails(c) ==
  /\ Calling(c)
  /\ call' = [call EXCEPT ![c] = None]
  /\ UNCHANGED <<entry, lost>>

WriteStep(c) ==
  Mkdir(c) \/ SyncParent(c) \/ WriteTemp(c) \/ SyncTemp(c) \/ Rename(c)

-----------------------------------------------------------------------------
(* The process dies.  A temporary file it leaves is in nobody's way: the next
   call picks another name, and no scan takes it for a save. *)
CallsDie(C) ==
  /\ call' = [c \in Callers |-> IF c \in C THEN None ELSE call[c]]
  /\ UNCHANGED <<entry, lost>>

MayBe(e) == {entry[e]} \cup lost[e]

(* What may be on disk after a power loss: each name as it is or as it was,
   and nothing below a directory that is gone. *)
Outcomes ==
  {[e \in Entries |->
      IF \E d \in Ancestors[e] : old[d] = None THEN None ELSE old[e]] :
     old \in {o \in [Entries -> UNION {MayBe(e) : e \in Entries}] :
                \A e \in Entries : o[e] \in MayBe(e)}}

FilesLost ==
  /\ entry' \in Outcomes
  /\ lost' = [e \in Entries |-> {}]
  /\ call' = [c \in Callers |-> None]

(* Save 0 is what is in a file at first. *)
FilesInit(initially) ==
  /\ entry = [e \in Entries |-> IF e \notin initially THEN None
                               ELSE IF e \in Dirs THEN Directory ELSE 0]
  /\ lost = [e \in Entries |-> {}]
  /\ call = [c \in Callers |-> None]

Call ==
  [path: Files, data: Saves, todo: SUBSET Dirs, found: SUBSET Dirs,
   step: {"mkdir", "sync parents", "write temp", "sync temp", "rename", "sync name"},
   temp: {"none", "written", "durable"}]

FilesTypeOK ==
  /\ entry \in [Entries -> Saves \cup {Directory, None, Torn}]
  /\ lost \in [Entries -> SUBSET (Saves \cup {Directory, None, Torn})]
  /\ call \in [Callers -> Call \cup {None}]
  /\ \A f \in Files : Directory \notin MayBe(f)
  /\ \A d \in Dirs : MayBe(d) \subseteq {Directory, None}
  /\ \A e \in Entries : Present(e) => Missing(e) = {}
=============================================================================
