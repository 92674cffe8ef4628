-------------------------------- MODULE Host --------------------------------
(***************************************************************************)
(* One machine: the server process with its sweep and requests (Daemon),   *)
(* the share they write to (LocalFS), discovery's walks over it (Discover), *)
(* the migrations before it serves and those of a command beside it         *)
(* (Migrations), crashes and the loss of power.                             *)
(***************************************************************************)
EXTENDS Daemon, Discover, Migrations

CONSTANTS
  Scenarios,       \* what a share holds at first, and how much of each trouble may come
  Server, Command  \* the processes

(* A share holds the directories above what it holds. *)
ASSUME HostAssumption ==
  /\ {Server, Command} \subseteq Processes
  /\ \A scenario \in Scenarios :
       /\ scenario.budget \in [Troubles -> Nat]
       /\ scenario.holds \subseteq Entries
       /\ \A e \in scenario.holds : Ancestors[e] \subseteq scenario.holds

vars == <<daemonVars, fileVars, scanVars, migrationVars>>

Init ==
  /\ DaemonInit /\ ScanInit /\ MigrationsInit
  /\ \E scenario \in Scenarios :
       FilesInit(scenario.holds) /\ budget = scenario.budget

-----------------------------------------------------------------------------
(* A process that dies takes its walks and its open transaction with it. *)
ServerDies == ScanDies /\ UpDies({Server})

Upgrade(p) == (Check(p) \/ ApplyOne(p)) /\ UNCHANGED <<daemonVars, fileVars, scanVars>>

(* `retrosync user set` on the machine. *)
CommandRuns ==
  /\ proc # "off"
  /\ \/ Spend("commands") /\ UpBegins(Command)
     \/ (UpEnds(Command) \/ UpFails(Command)) /\ UNCHANGED budget
  /\ UNCHANGED <<processVars, passVars, syncVars, fileVars, scanVars>>

(* A user opens the discovery page. *)
Walk ==
  /\ Running
  /\ \/ proc = "up" /\ Spend("scans") /\ ScanBegins
     \/ (ScanLists \/ ScanEnds) /\ UNCHANGED budget
  /\ UNCHANGED <<processVars, passVars, syncVars, fileVars, migrationVars>>

Looping == Sweep /\ UNCHANGED <<scanVars, migrationVars>>

Locking(c) == Lock(c) /\ UNCHANGED <<scanVars, migrationVars>>

(* A pass goes on, or fails. *)
Working(c) == (Work(c) \/ PassFails(c)) /\ UNCHANGED <<scanVars, migrationVars>>

Waiting(c) == (DeadlinePasses(c) \/ GiveUp(c)) /\ UNCHANGED <<scanVars, migrationVars>>

Stopping == Exit /\ ServerDies

Lifecycle ==
  \/ Start /\ UpBegins(Server) /\ UNCHANGED scanVars
  \/ Serve /\ UpEnds(Server) /\ UNCHANGED scanVars
  \/ StartFails /\ UpFails(Server) /\ UNCHANGED scanVars
  \/ Terminate /\ UNCHANGED <<scanVars, migrationVars>>
  \/ Stopping
  \/ Crash /\ ServerDies
  \/ PowerLoss /\ ScanDies /\ UpDies(Processes)

Next ==
  \/ Lifecycle \/ Walk \/ CommandRuns \/ Looping
  \/ \E p \in Processes : Upgrade(p)
  \/ \E c \in Callers : Locking(c) \/ Working(c) \/ Waiting(c)
  \/ /\ \/ \E c \in Callers :
             Hang(c) \/ Expire(c) \/ \E s \in Syncs : Request(c, s)
        \/ \E s \in Syncs : DeviceSaves(s)
     /\ UNCHANGED <<scanVars, migrationVars>>

Spec == Init /\ [][Next]_vars

(* The loop and the requests are goroutines that run; a mutex that is given up
   again and again is had in the end (sync.Mutex does not starve a waiter);
   deadlines pass and clients go; HTTP shutdown has a deadline of its own. *)
Fairness ==
  /\ WF_vars(Looping) /\ WF_vars(Stopping)
  /\ \A c \in Callers :
       SF_vars(Locking(c)) /\ WF_vars(Working(c)) /\ WF_vars(Waiting(c))

FairSpec == Spec /\ Fairness

-----------------------------------------------------------------------------
(* Properties *)

TypeOK == DaemonTypeOK /\ FilesTypeOK /\ ScanTypeOK /\ MigrationsTypeOK

(* WriteAtomic's crash-safety contract: whenever the power goes, a file that
   the engine writes holds an old save or the new one, never a part of one. *)
SaveIsOldOrNew == \A f \in Files : Torn \notin MayBe(f)

(* WriteAtomic's directory fsyncs: a save whose write was reported, and which the
   manifest therefore records, is not taken back by a power loss; only one of
   the directories that the write found in place may be, when the call that
   made it has not made it durable. *)
RecordedSurvivesPowerLoss ==
  [][PowerLoss =>
       \A s \in Syncs :
         manifest[s] # None /\ manifest[s].trusts # None =>
           \/ entry'[Path[s]] \in Saves /\ entry'[Path[s]] >= manifest[s].save
           \/ \E d \in manifest[s].trusts : entry'[d] = None]_vars

FileCallHangs == \E c \in Callers : Passing(c) /\ pass[c].stuck = "file"

(* RunOnce isolates the syncs: as long as the server runs and no file call hangs,
   every sync is polled again and again, whatever fails, panics or is slow to
   answer in the polls of the others or in the requests of users. *)
EverySyncIsPolled ==
  <>[](proc = "up" /\ ~FileCallHangs) =>
    \A s \in Syncs : []<>(PassAt(Sweeper, "decide") /\ pass[Sweeper].sync = s)

(* run's graceful shutdown: the process exits, unless a file call hangs, in the
   sweep or in a request that the sweep waits for. *)
ShutdownEnds == proc = "stopping" ~> proc # "stopping" \/ FileCallHangs

(* Nothing is served, or polled, on a schema that lacks a version, whatever the
   command's migrations do beside the server's. *)
ServesWholeSchema == Running => applied = 1..Versions

-----------------------------------------------------------------------------
(* The inductive invariant of the files and the passes *)

(* The directory's name is on disk. *)
Durable(d) == Present(d) /\ None \notin lost[d]

(* A power loss leaves the sync's file with this save or a later one, unless it
   takes one of the directories that are trusted. *)
Survives(s, save, trusts) ==
  /\ \A v \in MayBe(Path[s]) : v \in Saves /\ v >= save
  /\ \A d \in Ancestors[Path[s]] \ trusts : Durable(d)

(* Past its lock a pass holds its sync's mutex, its call writes its data, and it
   is not in a call while it waits for the store. *)
Exclusive(c) ==
  /\ Passing(c) /\ pass[c].step # "lock" => mutex[pass[c].sync] = c
  /\ Passing(c) /\ pass[c].stuck = "store" => pass[c].step # "write"
  /\ Calling(c) => call[c].path = Path[pass[c].sync] /\ call[c].data = pass[c].data

(* What a call has done by each of its steps. *)
CallProgress(c) ==
  Calling(c) =>
    /\ call[c].step # "mkdir" => Missing(call[c].path) = {}
    /\ call[c].step \notin {"mkdir", "sync parents"} => call[c].todo = {}
    /\ call[c].step = "rename" => call[c].temp = "durable"
    /\ call[c].step = "sync name" => entry[call[c].path] = call[c].data
    /\ \A d \in Ancestors[call[c].path] \ (call[c].found \cup call[c].todo) : Durable(d)

(* What a pass writes and records is no older than what is recorded. *)
NotBehind(c) ==
  Passing(c) /\ pass[c].step \notin {"lock", "decide"} =>
    /\ pass[c].data \in Saves /\ pass[c].data <= saved[pass[c].sync]
    /\ manifest[pass[c].sync] # None => manifest[pass[c].sync].save <= pass[c].data

(* What a pass is about to record. *)
Recordable(c) ==
  Passing(c) /\ pass[c].trusts # None =>
    /\ pass[c].step \in {"record", "record source"}
    /\ pass[c].step = "record" => Survives(pass[c].sync, pass[c].data, pass[c].trusts)

PassInv(c) == Exclusive(c) /\ CallProgress(c) /\ NotBehind(c) /\ Recordable(c)

(* What is recorded of a sync; of its file, until the power goes. *)
SyncInv(s) ==
  manifest[s] # None =>
    /\ manifest[s].save <= saved[s]
    /\ proc # "off" /\ manifest[s].trusts # None =>
         Survives(s, manifest[s].save, manifest[s].trusts)

(* All that the files, the calls and the passes agree on between two steps:
   what WriteAtomic's order, its fsyncs and the mutex per sync together make
   sure of; and where a walk is. *)
HostIInv ==
  /\ TypeOK /\ SaveIsOldOrNew
  /\ \A c \in Callers : PassInv(c)
  /\ \A s \in Syncs : SyncInv(s)
  /\ ScanInv
=============================================================================
