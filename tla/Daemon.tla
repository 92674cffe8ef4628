------------------------------- MODULE Daemon -------------------------------
(***************************************************************************)
(* The server process: the sweep (internal/daemon) and requests of users   *)
(* that run the engine's passes under a mutex per sync, with the writes of  *)
(* LocalFS below them; start, shutdown and death (cmd/retrosync/main.go).   *)
(*                                                                          *)
(* A sync is reduced to what its passes need here: a source that a device    *)
(* saves to, and one destination that only the engine writes.  Store calls   *)
(* and file calls differ: the first return when their context ends, the      *)
(* others do not.                                                           *)
(***************************************************************************)
EXTENDS LocalFS

CONSTANTS
  Syncs,      \* in the order of ListSyncs
  Path,       \* the file of a sync's destination
  Sweeper     \* the daemon's loop, a caller; the others are requests

(* UNIQUE(node, path): no two syncs have a file in common. *)
ASSUME DaemonAssumption ==
  /\ Syncs \subseteq Nat /\ Sweeper \in Callers
  /\ Path \in [Syncs -> Files] /\ \A s, t \in Syncs : Path[s] = Path[t] => s = t

VARIABLES
  proc,        \* the process, or "off" when the machine is
  loop,        \* where the daemon's loop is
  todo,        \* the syncs a sweep has still to poll
  mutex,       \* syncMu: who holds it
  pass,        \* each caller's pass
  saved,       \* the source's save
  recorded,    \* the source's entry in the manifest
  manifest,    \* the destination's entry
  conflicted,  \* conflict_at # nil
  budget       \* how much of each trouble may still come

processVars == <<proc, loop, todo>>
syncVars == <<saved, recorded, manifest, conflicted>>
passVars == <<mutex, pass>>
fileVars == <<entry, lost, call>>
daemonVars == <<processVars, passVars, syncVars, budget>>

Requests == Callers \ {Sweeper}

Running == proc \in {"up", "stopping"}

Passing(c) == pass[c] # None

PassAt(c, step) ==
  Running /\ Passing(c) /\ pass[c].step = step /\ pass[c].stuck = "no"

Dest(s) == entry[Path[s]]

Recorded(s) == IF manifest[s] = None THEN None ELSE manifest[s].save

(* The bounds: failures, deadlines and deaths; calls that hang; and so on. *)
Troubles == {"faults", "hangs", "saves", "losses", "scans", "commands"}

Spend(what) == budget[what] > 0 /\ budget' = [budget EXCEPT ![what] = @ - 1]

Fault == Spend("faults")

(* The daemon's context ends with shutdown or at the poll's deadline; a
   request's when its client goes. *)
Ended(c) == pass[c].expired \/ (c = Sweeper /\ proc = "stopping")

Begin(c, s) ==
  pass' = [pass EXCEPT ![c] =
    [sync |-> s, step |-> "lock", data |-> None, trusts |-> None,
     expired |-> FALSE, stuck |-> "no"]]

(* The pass returns, and gives up its mutex: deferred, after a panic too. *)
End(c) ==
  /\ pass' = [pass EXCEPT ![c] = None]
  /\ mutex' = [s \in Syncs |-> IF mutex[s] = c THEN None ELSE mutex[s]]

-----------------------------------------------------------------------------
(* The sweep *)

(* Faulty: a list that fails ends the loop. *)
ListSyncsOrEnd ==
  /\ Running /\ loop = "listing"
  /\ \/ proc = "up" /\ loop' = "sweeping" /\ todo' = Syncs /\ UNCHANGED budget
     \/ proc = "up" /\ loop' = "ended" /\ Fault /\ UNCHANGED todo
     \/ proc = "stopping" /\ loop' = "waiting" /\ UNCHANGED <<todo, budget>>
  /\ UNCHANGED <<proc, passVars, syncVars, fileVars>>

ListSyncs ==
  /\ Running /\ loop = "listing"
  /\ \/ proc = "up" /\ loop' = "sweeping" /\ todo' = Syncs /\ UNCHANGED budget
     \/ proc = "up" /\ loop' = "waiting" /\ Fault /\ UNCHANGED todo
     \/ proc = "stopping" /\ loop' = "waiting" /\ UNCHANGED <<todo, budget>>
  /\ UNCHANGED <<proc, passVars, syncVars, fileVars>>

(* pollOne on the next sync. *)
PollOne ==
  /\ proc = "up" /\ loop = "sweeping" /\ ~Passing(Sweeper)
  /\ \E s \in todo :
       /\ \A t \in todo : s <= t
       /\ todo' = todo \ {s}
       /\ Begin(Sweeper, s)
  /\ UNCHANGED <<proc, loop, mutex, syncVars, fileVars, budget>>

SweepEnds ==
  /\ Running /\ loop = "sweeping" /\ ~Passing(Sweeper)
  /\ todo = {} \/ proc = "stopping"
  /\ loop' = "waiting" /\ todo' = {}
  /\ UNCHANGED <<proc, passVars, syncVars, fileVars, budget>>

(* Faulty: the context's end is not waited for. *)
TickOnly ==
  /\ Running /\ loop = "waiting"
  /\ loop' = "listing"
  /\ UNCHANGED <<proc, todo, passVars, syncVars, fileVars, budget>>

(* Run's select: a tick, or the end of its context. *)
Tick ==
  /\ Running /\ loop = "waiting"
  /\ loop' = IF proc = "up" THEN "listing" ELSE "ended"
  /\ UNCHANGED <<proc, todo, passVars, syncVars, fileVars, budget>>

Sweep == ListSyncs \/ PollOne \/ SweepEnds \/ Tick

-----------------------------------------------------------------------------
(* A pass *)

(* A user chooses the source of a sync in conflict. *)
Request(c, s) ==
  /\ proc = "up" /\ c \in Requests /\ ~Passing(c)
  /\ conflicted[s]
  /\ Begin(c, s)
  /\ UNCHANGED <<processVars, mutex, syncVars, fileVars, budget>>

(* Faulty: whoever holds it. *)
LockAnyway(c) ==
  /\ PassAt(c, "lock")
  /\ mutex' = [mutex EXCEPT ![pass[c].sync] = c]
  /\ pass' = [pass EXCEPT ![c].step = "decide"]
  /\ UNCHANGED <<processVars, syncVars, fileVars, budget>>

(* lockSync waits whatever becomes of the context. *)
Lock(c) ==
  /\ PassAt(c, "lock")
  /\ mutex[pass[c].sync] = None
  /\ mutex' = [mutex EXCEPT ![pass[c].sync] = c]
  /\ pass' = [pass EXCEPT ![c].step = "decide"]
  /\ UNCHANGED <<processVars, syncVars, fileVars, budget>>

(* What is to be done.  The destination alone changes in no behaviour: passes
   write it, and record the source last. *)
Verdict(c, s) ==
  CASE c # Sweeper -> IF conflicted[s] THEN "write" ELSE "return"
    [] conflicted[s] -> "return"
    [] Dest(s) = Recorded(s) -> IF saved[s] # recorded[s] THEN "write" ELSE "return"
    [] OTHER -> IF Dest(s) = saved[s] THEN "record" ELSE "conflict"

Decide(c) ==
  LET s == pass[c].sync
      verdict == Verdict(c, s) IN
  /\ PassAt(c, "decide") /\ ~Ended(c)
  /\ IF verdict \in {"return", "conflict"} THEN End(c)
     ELSE /\ pass' = [pass EXCEPT ![c].step = verdict, ![c].data = saved[s]]
          /\ UNCHANGED mutex
  /\ conflicted' = [conflicted EXCEPT ![s] = @ \/ verdict = "conflict"]
  /\ UNCHANGED <<processVars, saved, recorded, manifest, fileVars, budget>>

Write(c) ==
  /\ PassAt(c, "write")
  /\ BeginWrite(c, Path[pass[c].sync], pass[c].data) \/ WriteStep(c)
  /\ UNCHANGED daemonVars

Written(c) ==
  /\ PassAt(c, "write") /\ Published(c)
  /\ pass' = [pass EXCEPT ![c].step = "record", ![c].trusts = call[c].found]
  /\ UNCHANGED <<processVars, mutex, syncVars, budget>>

(* The destination's entry.  trusts is history: the directories that the write
   found in place; None when the pass found the save there instead. *)
Record(c) ==
  LET p == pass[c] IN
  /\ PassAt(c, "record") /\ ~Ended(c)
  /\ manifest' = [manifest EXCEPT ![p.sync] = [save |-> p.data, trusts |-> p.trusts]]
  /\ pass' = [pass EXCEPT ![c].step = "record source"]
  /\ UNCHANGED <<processVars, mutex, saved, recorded, conflicted, fileVars, budget>>

(* The source's entry, the last of a pass; a resolution clears the conflict. *)
RecordSource(c) ==
  LET p == pass[c] IN
  /\ PassAt(c, "record source") /\ ~Ended(c)
  /\ recorded' = [recorded EXCEPT ![p.sync] = p.data]
  /\ conflicted' = [conflicted EXCEPT ![p.sync] = FALSE]
  /\ End(c)
  /\ UNCHANGED <<processVars, saved, manifest, fileVars, budget>>

(* A call fails or panics; a store call does once the context has ended. *)
PassFails(c) ==
  /\ Running /\ Passing(c)
  /\ pass[c].step # "lock" /\ pass[c].stuck = "no"
  /\ \/ Fault
     \/ Ended(c) /\ pass[c].step # "write" /\ UNCHANGED budget
  /\ IF Calling(c) THEN CallFails(c) ELSE UNCHANGED fileVars
  /\ End(c)
  /\ UNCHANGED <<processVars, syncVars>>

(* A file call hangs for good, or a store call until its context ends. *)
Hang(c) ==
  /\ Running /\ Passing(c) /\ Spend("hangs")
  /\ pass[c].step # "lock" /\ pass[c].stuck = "no"
  /\ \E what \in {"file", "store"} :
       /\ what = "file" => pass[c].step \in {"decide", "write"}
       /\ what = "store" => pass[c].step # "write"
       /\ pass' = [pass EXCEPT ![c].stuck = what]
  /\ UNCHANGED <<processVars, mutex, syncVars, fileVars>>

(* The poll's deadline passes, or the request's client goes. *)
Expire(c) ==
  /\ Running /\ Passing(c) /\ ~pass[c].expired
  /\ Fault \/ (pass[c].stuck = "store" /\ UNCHANGED budget)
  /\ pass' = [pass EXCEPT ![c].expired = TRUE]
  /\ UNCHANGED <<processVars, mutex, syncVars, fileVars>>

DeadlinePasses(c) == Passing(c) /\ pass[c].stuck = "store" /\ Expire(c)

(* The stuck store call returns an error. *)
GiveUp(c) ==
  /\ Running /\ Passing(c) /\ pass[c].stuck = "store" /\ Ended(c)
  /\ End(c)
  /\ UNCHANGED <<processVars, syncVars, fileVars, budget>>

Work(c) == Decide(c) \/ Write(c) \/ Written(c) \/ Record(c) \/ RecordSource(c)

-----------------------------------------------------------------------------
(* The process *)

Dies(p) ==
  /\ proc' = p /\ loop' = "ended" /\ todo' = {}
  /\ pass' = [c \in Callers |-> None]
  /\ mutex' = [s \in Syncs |-> None]

Start ==
  /\ proc = "down"
  /\ proc' = "starting"
  /\ UNCHANGED <<loop, todo, passVars, syncVars, fileVars, budget>>

(* The migrations are done: the server listens, the first sweep begins. *)
Serve ==
  /\ proc = "starting"
  /\ proc' = "up" /\ loop' = "listing"
  /\ UNCHANGED <<todo, passVars, syncVars, fileVars, budget>>

StartFails ==
  /\ proc = "starting"
  /\ proc' = "down"
  /\ UNCHANGED <<loop, todo, passVars, syncVars, fileVars, budget>>

(* A signal, or a listener that fails: the group's context ends. *)
Terminate ==
  /\ proc = "up"
  /\ proc' = "stopping"
  /\ UNCHANGED <<loop, todo, passVars, syncVars, fileVars, budget>>

(* The loop has returned, and the requests are over or have had ten seconds. *)
Exit ==
  /\ proc = "stopping" /\ loop = "ended"
  /\ Dies("down") /\ CallsDie(Callers)
  /\ UNCHANGED <<syncVars, budget>>

Crash ==
  /\ proc \in {"starting", "up", "stopping"} /\ Fault
  /\ Dies("down") /\ CallsDie(Callers)
  /\ UNCHANGED syncVars

(* What becomes of the files afterwards is not followed. *)
PowerLoss ==
  /\ proc # "off" /\ Spend("losses")
  /\ Dies("off") /\ FilesLost
  /\ UNCHANGED syncVars

DeviceSaves(s) ==
  /\ proc # "off" /\ Spend("saves")
  /\ saved' = [saved EXCEPT ![s] = @ + 1]
  /\ UNCHANGED <<processVars, passVars, recorded, manifest, conflicted, fileVars>>

DaemonInit ==
  /\ proc = "down" /\ loop = "ended" /\ todo = {}
  /\ mutex = [s \in Syncs |-> None] /\ pass = [c \in Callers |-> None]
  /\ saved = [s \in Syncs |-> 1]
  /\ recorded = [s \in Syncs |-> None] /\ manifest = [s \in Syncs |-> None]
  /\ conflicted = [s \in Syncs |-> FALSE]

Pass ==
  [sync: Syncs, data: Saves \cup {None}, trusts: (SUBSET Dirs) \cup {None},
   step: {"lock", "decide", "write", "record", "record source"},
   expired: BOOLEAN, stuck: {"no", "file", "store"}]

ASSUME PassAssumption == None \notin Pass

DaemonTypeOK ==
  /\ proc \in {"down", "starting", "up", "stopping", "off"}
  /\ loop \in {"waiting", "listing", "sweeping", "ended"}
  /\ todo \subseteq Syncs
  /\ mutex \in [Syncs -> Callers \cup {None}]
  /\ pass \in [Callers -> Pass \cup {None}]
  /\ saved \in [Syncs -> Saves]
  /\ recorded \in [Syncs -> Saves \cup {None}]
  /\ manifest \in [Syncs ->
       [save: Saves, trusts: (SUBSET Dirs) \cup {None}] \cup {None}]
  /\ conflicted \in [Syncs -> BOOLEAN]
  /\ budget \in [Troubles -> Nat]
  /\ \A c \in Callers : Calling(c) => Passing(c) /\ pass[c].step = "write"
=============================================================================
