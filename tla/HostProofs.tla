----------------------------- MODULE HostProofs -----------------------------
(***************************************************************************)
(* The machine, for any tree of directories, any number of syncs, requests, *)
(* migrations and processes, any limits of a walk and any troubles: a power  *)
(* loss tears no save and takes back none that is recorded, a walk hides     *)
(* none, and nothing is served on a part of the schema.                     *)
(***************************************************************************)
EXTENDS Host, FiniteSetTheorems, TLAPS

(* Saves are numbers in every proof. *)
USE DEF Saves

-----------------------------------------------------------------------------
(* Directories *)

(* The directories above e are directories; the one it is in is among them, and
   they hold the directory above each of their own. *)
LEMMA AboveIsClosed ==
  ASSUME NEW e \in Entries
  PROVE  /\ Ancestors[e] \subseteq Dirs /\ Closed(Ancestors[e])
         /\ Parent[e] \in Ancestors[e] \cup {Root}
BY FilesAssumption DEF Ancestors, Closed, Entries

(* No closed set that e is below leaves one of them out. *)
LEMMA AboveIsLeast ==
  ASSUME NEW e \in Entries, NEW D \in SUBSET Dirs, Closed(D), Parent[e] \in D \cup {Root}
  PROVE  Ancestors[e] \subseteq D
BY DEF Ancestors

(* A directory above e has only directories above it that are above e. *)
LEMMA AboveTransitive ==
  ASSUME NEW e \in Entries, NEW d \in Ancestors[e]
  PROVE  d \in Dirs /\ d \in Entries /\ Ancestors[d] \subseteq Ancestors[e]
<1>1. d \in Dirs /\ d \in Entries /\ Parent[d] \in Ancestors[e] \cup {Root}
  BY AboveIsClosed DEF Closed, Entries
<1> QED
  BY <1>1, AboveIsClosed, AboveIsLeast

(* From the root or a directory above e, the way to e goes on to e, or to a
   directory above it. *)
LEMMA OnTheWay ==
  ASSUME NEW e \in Entries, NEW d \in Ancestors[e] \cup {Root}
  PROVE  \E x \in Ancestors[e] \cup {e} : Parent[x] = d
<1> SUFFICES ASSUME \A x \in Ancestors[e] \cup {e} : Parent[x] # d
             PROVE  FALSE
  OBVIOUS
<1>1. d # Root
  BY TreeAssumption
<1>2. Closed(Ancestors[e] \ {d}) /\ Parent[e] \in (Ancestors[e] \ {d}) \cup {Root}
  BY AboveIsClosed DEF Closed
<1> QED
  BY <1>1, <1>2, AboveIsClosed, AboveIsLeast

(* A directory above e is not as deep as e. *)
LEMMA AboveIsHigher ==
  ASSUME NEW e \in Entries, NEW d \in Ancestors[e]
  PROVE  /\ Cardinality(Ancestors[e]) \in Nat /\ Cardinality(Ancestors[d]) \in Nat
         /\ Cardinality(Ancestors[d]) + 1 <= Cardinality(Ancestors[e])
<1>1. d \in Entries /\ Ancestors[d] \subseteq Ancestors[e] /\ d \notin Ancestors[d]
  BY AboveTransitive, TreeAssumption
<1>2. IsFiniteSet(Ancestors[e])
  BY AboveIsClosed, TreeAssumption, FS_Subset DEF Entries
<1>3. IsFiniteSet(Ancestors[d])
  BY <1>1, <1>2, FS_Subset
<1>4. /\ IsFiniteSet(Ancestors[d] \cup {d})
      /\ Cardinality(Ancestors[d] \cup {d}) = Cardinality(Ancestors[d]) + 1
  BY <1>1, <1>3, FS_AddElement
<1>5. Cardinality(Ancestors[d] \cup {d}) <= Cardinality(Ancestors[e])
  BY <1>1, <1>2, FS_Subset
<1> QED
  BY <1>2, <1>3, <1>4, <1>5, FS_CardinalityType

-----------------------------------------------------------------------------
(* The schema *)

(* A process in Up has seen to every version below its own. *)
SchemaInv ==
  /\ applied \subseteq 1..Versions
  /\ upgrade \in [Processes ->
       [step: {"check", "apply"}, version: 1..(Versions + 1)] \cup {NotMigrating}]
  /\ \A p \in Processes : Migrating(p) =>
       /\ 1..(upgrade[p].version - 1) \subseteq applied
       /\ upgrade[p].step = "apply" => upgrade[p].version <= Versions
  /\ ServesWholeSchema

(* The steps of Up. *)
LEMMA UpgradeKeeps ==
  ASSUME SchemaInv, NEW p \in Processes, Check(p) \/ ApplyOne(p), UNCHANGED proc
  PROVE  SchemaInv'
<1> DEFINE v == upgrade[p].version
<1>1. /\ Migrating(p) /\ upgrade[p] \in [step: {"check", "apply"}, version: 1..(Versions + 1)]
      /\ v <= Versions /\ v \in 1..Versions /\ 1..(v - 1) \subseteq applied
  BY MigrationsAssumption DEF Check, ApplyOne, UpAt, Migrating, SchemaInv
<1>2. applied' \in {applied, applied \cup {v}}
  BY DEF Check, ApplyOne
<1>3. \/ /\ upgrade' = [upgrade EXCEPT ![p] = [upgrade[p] EXCEPT !.step = "apply"]]
         /\ applied' = applied
      \/ /\ upgrade' = [upgrade EXCEPT ![p] =
                          [step |-> "check", version |-> v + 1]]
         /\ v \in applied'
  <2>1. CASE Check(p) /\ v \notin applied
    BY <2>1 DEF Check
  <2>2. CASE Check(p) /\ v \in applied
    <3>1. /\ upgrade' = [upgrade EXCEPT ![p] = [upgrade[p] EXCEPT !.version = v + 1]]
          /\ applied' = applied /\ upgrade[p].step = "check"
      BY <2>2 DEF Check, UpAt
    <3>2. [upgrade[p] EXCEPT !.version = v + 1] = [step |-> "check", version |-> v + 1]
      BY <1>1, <3>1
    <3> QED
      BY <2>2, <3>1, <3>2
  <2>3. CASE ApplyOne(p)
    BY <2>3 DEF ApplyOne
  <2> QED
    BY <2>1, <2>2, <2>3
<1>4. applied' \subseteq 1..Versions
  BY <1>1, <1>2 DEF SchemaInv
<1>5. ServesWholeSchema'
  BY <1>1, <1>2 DEF SchemaInv, ServesWholeSchema, Running
<1>6. v \in applied' => 1..((v + 1) - 1) \subseteq applied'
  BY <1>1, <1>2, MigrationsAssumption
<1>7. /\ upgrade' \in [Processes ->
           [step: {"check", "apply"}, version: 1..(Versions + 1)] \cup {NotMigrating}]
      /\ \A q \in Processes \ {p} : upgrade'[q] = upgrade[q]
  BY <1>1, <1>3, MigrationsAssumption DEF SchemaInv
<1>8. \/ upgrade'[p].version = v /\ applied' = applied
      \/ /\ upgrade'[p].version = v + 1 /\ upgrade'[p].step = "check"
         /\ v \in applied'
  BY <1>1, <1>3 DEF SchemaInv
<1>9. \A q \in Processes : Migrating(q)' =>
        /\ 1..(upgrade'[q].version - 1) \subseteq applied'
        /\ upgrade'[q].step = "apply" => upgrade'[q].version <= Versions
  <2> SUFFICES ASSUME NEW q \in Processes, Migrating(q)'
               PROVE  /\ 1..(upgrade'[q].version - 1) \subseteq applied'
                      /\ upgrade'[q].step = "apply" => upgrade'[q].version <= Versions
    OBVIOUS
  <2>1. CASE q = p
    BY <1>1, <1>6, <1>8, <2>1
  <2>2. CASE q # p
    BY <1>2, <1>7, <2>2 DEF SchemaInv, Migrating
  <2> QED
    BY <2>1, <2>2
<1> QED
  BY <1>4, <1>5, <1>7, <1>9 DEF SchemaInv

(* Processes that begin, leave or never were in Up. *)
LEMMA SchemaFrame ==
  ASSUME SchemaInv, UNCHANGED applied, Running' => applied = 1..Versions,
         upgrade' \in [Processes ->
           [step: {"check", "apply"}, version: 1..(Versions + 1)] \cup {NotMigrating}],
         \A p \in Processes : \/ upgrade'[p] \in {upgrade[p], NotMigrating}
                              \/ upgrade'[p] = [step |-> "check", version |-> 1]
  PROVE  SchemaInv'
<1>1. \A p \in Processes : Migrating(p)' =>
        /\ 1..(upgrade'[p].version - 1) \subseteq applied'
        /\ upgrade'[p].step = "apply" => upgrade'[p].version <= Versions
  <2> SUFFICES ASSUME NEW p \in Processes, Migrating(p)'
               PROVE  /\ 1..(upgrade'[p].version - 1) \subseteq applied'
                      /\ upgrade'[p].step = "apply" => upgrade'[p].version <= Versions
    OBVIOUS
  <2>1. CASE upgrade'[p] = upgrade[p]
    BY <2>1 DEF SchemaInv, Migrating
  <2>2. CASE upgrade'[p] = [step |-> "check", version |-> 1]
    BY <2>2
  <2> QED
    BY <2>1, <2>2 DEF Migrating
<1> QED
  BY <1>1 DEF SchemaInv, ServesWholeSchema

(* SchemaInv is inductive. *)
LEMMA SchemaStep ==
  ASSUME SchemaInv, [Next]_vars
  PROVE  SchemaInv'
<1>1. ASSUME NEW p \in {Server, Command}, UpBegins(p) \/ UpFails(p) \/ UpEnds(p)
      PROVE  /\ UNCHANGED applied
             /\ upgrade' \in [Processes ->
                  [step: {"check", "apply"}, version: 1..(Versions + 1)] \cup {NotMigrating}]
             /\ \A q \in Processes : \/ upgrade'[q] \in {upgrade[q], NotMigrating}
                                      \/ upgrade'[q] = [step |-> "check", version |-> 1]
  BY <1>1, HostAssumption, MigrationsAssumption DEF UpBegins, UpFails, UpEnds, SchemaInv
<1>2. ASSUME NEW P, UpDies(P)
      PROVE  /\ UNCHANGED applied
             /\ upgrade' \in [Processes ->
                  [step: {"check", "apply"}, version: 1..(Versions + 1)] \cup {NotMigrating}]
             /\ \A q \in Processes : upgrade'[q] \in {upgrade[q], NotMigrating}
  BY <1>2 DEF UpDies, SchemaInv
<1>3. ASSUME Running' => Running, UNCHANGED migrationVars
      PROVE  SchemaInv'
  BY <1>3, SchemaFrame DEF migrationVars, SchemaInv, ServesWholeSchema
<1>4. CASE Lifecycle
  <2>1. CASE Start /\ UpBegins(Server)
    BY <1>1, <2>1, SchemaFrame DEF Start, Running
  <2>2. CASE Serve /\ UpEnds(Server)
    <3>1. applied = 1..Versions
      <4>1. Migrating(Server) /\ upgrade[Server].version > Versions
        BY <2>2 DEF UpEnds, UpAt
      <4>2. /\ upgrade[Server].version \in 1..(Versions + 1)
            /\ 1..(upgrade[Server].version - 1) \subseteq applied
            /\ applied \subseteq 1..Versions
        BY <4>1, HostAssumption DEF SchemaInv, Migrating
      <4>3. upgrade[Server].version - 1 = Versions
        BY <4>1, <4>2, MigrationsAssumption
      <4> QED
        BY <4>2, <4>3
    <3> QED
      BY <1>1, <2>2, <3>1, SchemaFrame
  <2>3. CASE StartFails /\ UpFails(Server)
    BY <1>1, <2>3, SchemaFrame DEF StartFails, Running
  <2>4. CASE Terminate /\ UNCHANGED <<scanVars, migrationVars>>
    BY <1>3, <2>4 DEF Terminate, Running
  <2>5. CASE Stopping \/ (Crash /\ ServerDies) \/ (PowerLoss /\ UpDies(Processes))
    <3>1. ~Running'
      BY <2>5 DEF Stopping, Exit, Crash, PowerLoss, Dies, Running
    <3>2. \E P : UpDies(P)
      BY <2>5 DEF Stopping, ServerDies
    <3> QED
      BY <1>2, <3>1, <3>2, SchemaFrame
  <2> QED
    BY <1>4, <2>1, <2>2, <2>3, <2>4, <2>5 DEF Lifecycle
<1>5. CASE CommandRuns
  <2>1. Running' => applied = 1..Versions
    BY <1>5 DEF CommandRuns, processVars, Running, SchemaInv, ServesWholeSchema
  <2>2. UpBegins(Command) \/ UpFails(Command) \/ UpEnds(Command)
    BY <1>5 DEF CommandRuns
  <2> QED
    BY <1>1, <2>1, <2>2, SchemaFrame
<1>6. ASSUME NEW p \in Processes, Upgrade(p)
      PROVE  SchemaInv'
  BY <1>6, UpgradeKeeps DEF Upgrade, daemonVars, processVars
<1>7. CASE UNCHANGED vars \/ Walk \/ Looping
  BY <1>3, <1>7 DEF vars, Walk, Looping, Sweep, ListSyncs, PollOne, SweepEnds, Tick,
                    daemonVars, processVars, Running
<1>8. CASE \/ \E c \in Callers : \/ Locking(c) \/ Waiting(c)
                                 \/ Hang(c) /\ UNCHANGED migrationVars
                                 \/ Expire(c) /\ UNCHANGED migrationVars
                                 \/ \E s \in Syncs : Request(c, s) /\ UNCHANGED migrationVars
           \/ \E s \in Syncs : DeviceSaves(s) /\ UNCHANGED migrationVars
  BY <1>3, <1>8 DEF Locking, Lock, Waiting, DeadlinePasses, GiveUp, Hang, Expire, Request,
                    DeviceSaves, processVars, Running
<1>9. ASSUME NEW c \in Callers, Working(c)
      PROVE  SchemaInv'
  BY <1>3, <1>9 DEF Working, Work, Decide, Write, Written, Record, RecordSource, PassFails,
                    daemonVars, processVars, Running
<1> QED
  BY <1>4, <1>5, <1>6, <1>7, <1>8, <1>9 DEF Next

LEMMA SchemaStart ==
  ASSUME Init
  PROVE  SchemaInv
BY MigrationsAssumption
   DEF Init, DaemonInit, MigrationsInit, SchemaInv, Migrating, ServesWholeSchema, Running

(* main's order, Up before the listener and the daemon: nothing is served or
   polled on a part of the schema, though a command may apply versions too. *)
THEOREM ServesWholeSchemaHolds == Spec => []ServesWholeSchema
<1>1. Init => SchemaInv
  BY SchemaStart
<1>2. SchemaInv /\ [Next]_vars => SchemaInv'
  BY SchemaStep
<1>3. SchemaInv => ServesWholeSchema
  BY DEF SchemaInv
<1> QED
  BY <1>1, <1>2, <1>3, PTL DEF Spec

-----------------------------------------------------------------------------
(* Types *)

(* A directory's fsync. *)
LEMMA SyncDirTyped ==
  ASSUME FilesTypeOK, NEW d, SyncDir(d), UNCHANGED entry,
         call' \in [Callers -> Call \cup {None}]
  PROVE  FilesTypeOK'
<1>1. /\ lost' \in [Entries -> SUBSET (Saves \cup {Directory, None, Torn})]
      /\ \A e \in Entries : lost'[e] \subseteq lost[e]
  BY DEF FilesTypeOK, SyncDir
<1>2. \A e \in Entries : MayBe(e)' \subseteq MayBe(e)
  BY <1>1 DEF MayBe
<1> QED
  BY <1>1, <1>2 DEF FilesTypeOK, Missing, Present, Entries

(* A step of a call that touches no file. *)
LEMMA FilesStayTyped ==
  ASSUME FilesTypeOK, UNCHANGED <<entry, lost>>, call' \in [Callers -> Call \cup {None}]
  PROVE  FilesTypeOK'
BY DEF FilesTypeOK, MayBe, Missing, Present

(* A name is put where the directories above it are. *)
LEMMA NameTyped ==
  ASSUME FilesTypeOK, NEW e \in Entries, NEW v, NEW risk \in SUBSET {Torn}, Name(e, v, risk),
         e \in Files => v \in Saves, e \in Dirs => v = Directory /\ risk = {}, Missing(e) = {},
         call' \in [Callers -> Call \cup {None}]
  PROVE  FilesTypeOK' /\ \A x \in Entries : Present(x) => Present(x)'
<1>1. v \in Saves \cup {Directory} /\ v # None
  BY FilesAssumption DEF Entries
<1>2. /\ entry' = [entry EXCEPT ![e] = v]
      /\ entry' \in [Entries -> Saves \cup {Directory, None, Torn}]
  BY <1>1 DEF Name, FilesTypeOK
<1>3. lost' \in [Entries -> SUBSET (Saves \cup {Directory, None, Torn})]
  BY DEF Name, FilesTypeOK
<1>4. \A x \in Entries : Present(x) => Present(x)'
  BY <1>1, <1>2 DEF FilesTypeOK, Present
<1>5. \A x \in Entries : Present(x)' => Missing(x) = {}
  BY <1>2 DEF FilesTypeOK, Present
<1>6. \A x \in Entries : Present(x)' => Missing(x)' = {}
  BY <1>4, <1>5, AboveTransitive DEF Missing
<1>7. \A x \in Entries :
        MayBe(x)' \subseteq IF x = e THEN MayBe(x) \cup {v} \cup risk ELSE MayBe(x)
  BY <1>2 DEF Name, FilesTypeOK, MayBe
<1>8. /\ \A f \in Files : Directory \notin MayBe(f)'
      /\ \A d \in Dirs : MayBe(d)' \subseteq {Directory, None}
  BY <1>7, TreeAssumption, FilesAssumption DEF FilesTypeOK, Entries
<1> QED
  BY <1>2, <1>3, <1>4, <1>6, <1>8 DEF FilesTypeOK

(* A step of WriteAtomic. *)
LEMMA WriteStepTyped ==
  ASSUME FilesTypeOK, NEW c \in Callers, CallProgress(c), WriteStep(c)
  PROVE  /\ FilesTypeOK' /\ \A x \in Entries : Present(x) => Present(x)'
         /\ \A b \in Callers : (Calling(b)' => Calling(b)) /\ (b # c => call'[b] = call[b])
         /\ Calling(c)' => call'[c].path = call[c].path /\ call'[c].data = call[c].data
                           /\ call'[c].found = call[c].found
<1>1. Calling(c) /\ call[c] \in Call /\ call \in [Callers -> Call \cup {None}]
  BY DEF WriteStep, Mkdir, SyncParent, WriteTemp, SyncTemp, Rename, CallAt, Calling, FilesTypeOK
<1> DEFINE f == call[c].path
<1>2. f \in Files /\ f \in Entries /\ call[c].data \in Saves
  BY <1>1 DEF Call, Entries
<1>3. ASSUME UNCHANGED entry
      PROVE  \A x \in Entries : Present(x) => Present(x)'
  BY <1>3 DEF Present
<1>4. ASSUME NEW q \in Call, call' = [call EXCEPT ![c] = q],
             q.path = f, q.data = call[c].data, q.found = call[c].found
      PROVE  /\ call' \in [Callers -> Call \cup {None}]
             /\ \A b \in Callers : (Calling(b)' => Calling(b)) /\ (b # c => call'[b] = call[b])
             /\ Calling(c)' => call'[c].path = call[c].path /\ call'[c].data = call[c].data
                               /\ call'[c].found = call[c].found
  BY <1>1, <1>4 DEF Calling
<1> HIDE DEF f
<1>5. CASE Mkdir(c)
  <2>1. CASE Turn(c, "sync parents") /\ UNCHANGED <<entry, lost>>
    <3> DEFINE q == [call[c] EXCEPT !.step = "sync parents"]
    <3>1. q \in Call /\ q.path = f /\ q.data = call[c].data /\ q.found = call[c].found
          /\ call' = [call EXCEPT ![c] = q]
      BY <1>1, <2>1 DEF Turn, Call, f
    <3> HIDE DEF q
    <3> QED
      BY <1>3, <1>4, <2>1, <3>1, FilesStayTyped
  <2>2. ASSUME NEW d \in Shallowest(Missing(f)), Name(d, Directory, {}), UNCHANGED call
        PROVE  FilesTypeOK' /\ \A x \in Entries : Present(x) => Present(x)'
    <3>1. d \in Ancestors[f] /\ d \in Dirs /\ d \in Entries
      BY <1>2, AboveTransitive DEF Shallowest, Missing
    <3>2. Missing(d) = {}
      BY <1>2, <3>1, AboveTransitive DEF Shallowest, Missing
    <3>3. d \notin Files
      BY <3>1, TreeAssumption
    <3> QED
      BY <1>1, <2>2, <3>1, <3>2, <3>3, NameTyped
  <2> QED
    BY <1>5, <2>1, <2>2 DEF Mkdir, f, Calling
<1>6. CASE SyncParent(c)
  <2>1. PICK q \in Call : /\ q.path = f /\ q.data = call[c].data /\ q.found = call[c].found
                          /\ call' = [call EXCEPT ![c] = q]
    <3>1. CASE Turn(c, "write temp")
      <4>1. [call[c] EXCEPT !.step = "write temp"] \in Call
        BY <1>1 DEF Call
      <4> QED
        BY <1>1, <3>1, <4>1 DEF Turn, Call, f
    <3>2. ASSUME NEW d, call' = [call EXCEPT ![c].todo = @ \ {d}]
          PROVE  \E q \in Call : /\ q.path = f /\ q.data = call[c].data /\ q.found = call[c].found
                                 /\ call' = [call EXCEPT ![c] = q]
      <4>1. [call[c] EXCEPT !.todo = @ \ {d}] \in Call
        BY <1>1 DEF Call
      <4> QED
        BY <1>1, <3>2, <4>1 DEF Call, f
    <3> QED
      BY <1>6, <3>1, <3>2 DEF SyncParent
  <2>2. call' \in [Callers -> Call \cup {None}]
    BY <1>4, <2>1
  <2>3. FilesTypeOK'
    BY <1>6, <2>2, SyncDirTyped, FilesStayTyped DEF SyncParent
  <2>4. UNCHANGED entry
    BY <1>6 DEF SyncParent
  <2> QED
    BY <1>3, <1>4, <2>1, <2>3, <2>4
<1>7. CASE WriteTemp(c) \/ SyncTemp(c)
  <2>1. PICK temp \in {"written", "durable"}, step \in {"sync temp", "rename"} :
          call' = [call EXCEPT ![c] = [call[c] EXCEPT !.temp = temp, !.step = step]]
    BY <1>7 DEF WriteTemp, SyncTemp
  <2>2. UNCHANGED <<entry, lost>>
    BY <1>7 DEF WriteTemp, SyncTemp
  <2> DEFINE q == [call[c] EXCEPT !.temp = temp, !.step = step]
  <2>3. q \in Call /\ q.path = f /\ q.data = call[c].data /\ q.found = call[c].found
        /\ call' = [call EXCEPT ![c] = q]
    BY <1>1, <2>1 DEF Call, f
  <2> HIDE DEF q
  <2> QED
    BY <1>3, <1>4, <2>2, <2>3, FilesStayTyped
<1>8. CASE Rename(c)
  <2> DEFINE q == [call[c] EXCEPT !.temp = "none", !.step = "sync name"]
  <2>1. q \in Call /\ q.path = f /\ q.data = call[c].data /\ q.found = call[c].found
        /\ call' = [call EXCEPT ![c] = q]
    BY <1>1, <1>8 DEF Rename, Call, f
  <2> HIDE DEF q
  <2>2. call' \in [Callers -> Call \cup {None}]
    BY <1>4, <2>1
  <2>3. Missing(f) = {} /\ f \notin Dirs
    BY <1>1, <1>2, <1>8, TreeAssumption DEF Rename, CallAt, CallProgress, f
  <2>4. Name(f, call[c].data, Risk(call[c].temp)) /\ Risk(call[c].temp) \subseteq {Torn}
    BY <1>8 DEF Rename, Risk, f
  <2>5. FilesTypeOK' /\ \A x \in Entries : Present(x) => Present(x)'
    BY <1>2, <2>2, <2>3, <2>4, NameTyped
  <2> QED
    BY <1>4, <2>1, <2>5
<1> QED
  BY <1>5, <1>6, <1>7, <1>8 DEF WriteStep

(* A pass goes on. *)
LEMMA TypeWorking ==
  ASSUME TypeOK, NEW c \in Callers, PassInv(c), Working(c)
  PROVE  TypeOK'
<1> USE DEF TypeOK
<1>1. /\ ScanTypeOK' /\ MigrationsTypeOK'
  BY DEF Working, scanVars, migrationVars, ScanTypeOK, MigrationsTypeOK
<1>2. Passing(c) /\ pass[c] \in Pass /\ pass[c].sync \in Syncs
  <2>1. Passing(c)
    BY DEF Working, Work, Decide, Write, Written, Record, RecordSource, PassFails, PassAt
  <2> QED
    BY <2>1 DEF Passing, DaemonTypeOK, Pass
<1> DEFINE s == pass[c].sync
(* The call of a pass that does not write. *)
<1>3. ASSUME NEW q \in Pass \cup {None}, pass' = [pass EXCEPT ![c] = q], pass[c].step # "write",
             UNCHANGED fileVars
      PROVE  /\ pass' \in [Callers -> Pass \cup {None}] /\ FilesTypeOK'
             /\ \A b \in Callers : Calling(b)' => Passing(b)' /\ pass'[b].step = "write"
  <2>1. FilesTypeOK'
    BY <1>3, FilesStayTyped DEF FilesTypeOK, fileVars
  <2>2. ~Calling(c)
    BY <1>3 DEF DaemonTypeOK
  <2> QED
    BY <1>3, <2>1, <2>2 DEF DaemonTypeOK, Calling, Passing, fileVars
(* The pass and its call are over. *)
<1>4. ASSUME End(c), call' = [call EXCEPT ![c] = None]
      PROVE  /\ pass' \in [Callers -> Pass \cup {None}] /\ mutex' \in [Syncs -> Callers \cup {None}]
             /\ call' \in [Callers -> Call \cup {None}]
             /\ \A b \in Callers : Calling(b)' => Passing(b)' /\ pass'[b].step = "write"
  BY <1>4 DEF End, DaemonTypeOK, FilesTypeOK, Calling, Passing
<1>5. ASSUME End(c), ~Calling(c), UNCHANGED fileVars
      PROVE  /\ pass' \in [Callers -> Pass \cup {None}] /\ mutex' \in [Syncs -> Callers \cup {None}]
             /\ FilesTypeOK'
             /\ \A b \in Callers : Calling(b)' => Passing(b)' /\ pass'[b].step = "write"
  <2>1. call = [call EXCEPT ![c] = None]
    BY <1>5 DEF Calling, FilesTypeOK
  <2> QED
    BY <1>4, <1>5, <2>1, FilesStayTyped DEF fileVars
<1>6. CASE Decide(c)
  <2> DEFINE q == [pass[c] EXCEPT !.step = Verdict(c, s), !.data = saved[s]]
  <2>1. /\ pass[c].step = "decide"
        /\ UNCHANGED <<processVars, saved, recorded, manifest, fileVars, budget>>
        /\ conflicted' \in [Syncs -> BOOLEAN]
    BY <1>2, <1>6 DEF Decide, PassAt, DaemonTypeOK
  <2>2. \/ End(c)
        \/ q \in Pass /\ pass' = [pass EXCEPT ![c] = q] /\ UNCHANGED mutex
    <3>1. Verdict(c, s) \in {"write", "return", "record", "conflict"}
      BY DEF Verdict
    <3>2. saved[s] \in Saves
      BY <1>2 DEF DaemonTypeOK
    <3> QED
      BY <1>2, <1>6, <3>1, <3>2 DEF Decide, Pass
  <2> HIDE DEF q
  <2>3. ~Calling(c)
    BY <2>1 DEF DaemonTypeOK
  <2>4. /\ pass' \in [Callers -> Pass \cup {None}] /\ mutex' \in [Syncs -> Callers \cup {None}]
        /\ FilesTypeOK'
        /\ \A b \in Callers : Calling(b)' => Passing(b)' /\ pass'[b].step = "write"
    <3>1. CASE End(c)
      BY <1>5, <2>1, <2>3, <3>1
    <3>2. CASE q \in Pass /\ pass' = [pass EXCEPT ![c] = q] /\ UNCHANGED mutex
      BY <1>3, <2>1, <3>2 DEF DaemonTypeOK
    <3> QED
      BY <2>2, <3>1, <3>2
  <2> QED
    BY <1>1, <2>1, <2>4 DEF DaemonTypeOK, processVars
<1>7. CASE Write(c)
  <2>1. pass[c].step = "write" /\ UNCHANGED daemonVars
    BY <1>7 DEF Write, PassAt
  <2>2. /\ FilesTypeOK'
        /\ \A b \in Callers : Calling(b)' => Calling(b) \/ b = c
    <3>1. CASE WriteStep(c)
      BY <3>1, WriteStepTyped DEF PassInv
    <3>2. CASE BeginWrite(c, Path[s], pass[c].data)
      <4> DEFINE f == Path[s]
      <4>1. f \in Files /\ f \in Entries
        BY <1>2, DaemonAssumption DEF Entries
      <4>2. Missing(f) \subseteq Dirs /\ Ancestors[f] \ Missing(f) \subseteq Dirs
        BY <4>1, AboveIsClosed DEF Missing
      <4>3. pass[c].data \in Saves
        BY <1>2, <2>1 DEF PassInv, NotBehind
      <4> HIDE DEF f
      <4>4. call' \in [Callers -> Call \cup {None}]
        BY <3>2, <4>1, <4>2, <4>3 DEF BeginWrite, FilesTypeOK, Call, f
      <4> QED
        BY <3>2, <4>4, FilesStayTyped DEF BeginWrite, Calling, FilesTypeOK
    <3> QED
      BY <1>7, <3>1, <3>2 DEF Write
  <2> QED
    BY <1>1, <1>2, <2>1, <2>2
       DEF daemonVars, processVars, passVars, syncVars, DaemonTypeOK, Passing, Calling
<1>8. CASE Written(c)
  <2> DEFINE q == [pass[c] EXCEPT !.step = "record", !.trusts = call[c].found]
  <2>1. Calling(c) /\ call[c] \in Call /\ call' = [call EXCEPT ![c] = None]
    BY <1>8 DEF Written, Published, CallAt, Calling, FilesTypeOK
  <2>2. /\ q \in Pass /\ pass' = [pass EXCEPT ![c] = q]
        /\ UNCHANGED <<processVars, mutex, syncVars, budget>>
    BY <1>2, <1>8, <2>1 DEF Written, Pass, Call
  <2> HIDE DEF q
  <2>3. FilesTypeOK'
    BY <1>8, <2>1, SyncDirTyped DEF Written, Published, FilesTypeOK
  <2>4. \A b \in Callers : Calling(b)' => Passing(b)' /\ pass'[b].step = "write"
    BY <2>1, <2>2 DEF Calling, Passing, DaemonTypeOK, FilesTypeOK
  <2> QED
    BY <1>1, <2>2, <2>3, <2>4 DEF processVars, syncVars, DaemonTypeOK
<1>9. CASE Record(c)
  <2> DEFINE q == [pass[c] EXCEPT !.step = "record source"]
             m == [save |-> pass[c].data, trusts |-> pass[c].trusts]
  <2>1. /\ q \in Pass /\ pass' = [pass EXCEPT ![c] = q] /\ pass[c].step = "record"
        /\ UNCHANGED <<processVars, mutex, saved, recorded, conflicted, fileVars, budget>>
        /\ manifest' = [manifest EXCEPT ![s] = m]
    BY <1>2, <1>9 DEF Record, PassAt, Pass
  <2>2. m \in [save: Saves, trusts: (SUBSET Dirs) \cup {None}]
    BY <1>2, <2>1 DEF PassInv, NotBehind, Pass
  <2> HIDE DEF q, m
  <2>3. manifest' \in [Syncs -> [save: Saves, trusts: (SUBSET Dirs) \cup {None}] \cup {None}]
    BY <2>1, <2>2 DEF DaemonTypeOK
  <2> QED
    BY <1>1, <1>3, <2>1, <2>3 DEF DaemonTypeOK, processVars
<1>10. CASE RecordSource(c)
  <2>1. /\ End(c) /\ pass[c].step = "record source"
        /\ UNCHANGED <<processVars, saved, manifest, fileVars, budget>>
    BY <1>10 DEF RecordSource, PassAt
  <2>2. pass[c].data \in Saves /\ ~Calling(c)
    BY <1>2, <2>1 DEF PassInv, NotBehind, DaemonTypeOK
  <2>3. recorded' \in [Syncs -> Saves \cup {None}] /\ conflicted' \in [Syncs -> BOOLEAN]
    BY <1>10, <2>2 DEF RecordSource, DaemonTypeOK
  <2> QED
    BY <1>1, <1>5, <2>1, <2>2, <2>3 DEF DaemonTypeOK, processVars
<1>11. CASE PassFails(c)
  <2>1. End(c) /\ UNCHANGED <<processVars, syncVars>>
    BY <1>11 DEF PassFails
  <2>2. budget' \in [Troubles -> Nat]
    BY <1>11 DEF PassFails, Fault, Spend, DaemonTypeOK, Troubles
  <2>3. CASE ~Calling(c) /\ UNCHANGED fileVars
    BY <1>1, <1>5, <2>1, <2>2, <2>3 DEF DaemonTypeOK, processVars, syncVars
  <2>4. CASE CallFails(c)
    <3>1. call' = [call EXCEPT ![c] = None] /\ UNCHANGED <<entry, lost>>
      BY <2>4 DEF CallFails
    <3>2. FilesTypeOK'
      BY <1>4, <2>1, <3>1, FilesStayTyped
    <3> QED
      BY <1>1, <1>4, <2>1, <2>2, <3>1, <3>2 DEF DaemonTypeOK, processVars, syncVars
  <2> QED
    BY <1>11, <2>3, <2>4 DEF PassFails
<1> QED
  BY <1>6, <1>7, <1>8, <1>9, <1>10, <1>11 DEF Working, Work

(* A pass begins, takes its mutex, hangs, or waits no longer. *)
LEMMA TypeWaiting ==
  ASSUME TypeOK, NEW c \in Callers, PassInv(c),
         \/ Locking(c) \/ Waiting(c)
         \/ /\ Hang(c) \/ Expire(c) \/ \E s \in Syncs : Request(c, s)
            /\ UNCHANGED <<scanVars, migrationVars>>
  PROVE  TypeOK'
<1>1. /\ ScanTypeOK' /\ MigrationsTypeOK'
      /\ UNCHANGED <<processVars, syncVars, fileVars>>
  BY DEF Locking, Lock, Waiting, DeadlinePasses, GiveUp, Hang, Expire, Request, TypeOK,
         scanVars, migrationVars, ScanTypeOK, MigrationsTypeOK
<1>2. FilesTypeOK'
  BY <1>1, FilesStayTyped DEF TypeOK, FilesTypeOK, fileVars
<1>3. budget' \in [Troubles -> Nat]
  BY DEF Locking, Lock, Waiting, DeadlinePasses, GiveUp, Hang, Expire, Request, TypeOK,
         DaemonTypeOK, Fault, Spend, Troubles
<1>4. mutex' \in [Syncs -> Callers \cup {None}]
  BY DEF Locking, Lock, Waiting, DeadlinePasses, GiveUp, Hang, Expire, Request, TypeOK,
         DaemonTypeOK, End
<1>5. /\ pass' \in [Callers -> Pass \cup {None}]
      /\ \A b \in Callers : Calling(b) => Passing(b)' /\ pass'[b].step = "write"
  <2>1. CASE \E s \in Syncs : Request(c, s)
    <3>1. PICK s \in Syncs : Begin(c, s) /\ ~Passing(c)
      BY <2>1 DEF Request
    <3>2. [sync |-> s, step |-> "lock", data |-> None, trusts |-> None,
           expired |-> FALSE, stuck |-> "no"] \in Pass
      BY DEF Pass
    <3> QED
      BY <3>1, <3>2 DEF Begin, TypeOK, DaemonTypeOK, Passing
  <2>2. CASE Locking(c) \/ Waiting(c) \/ Hang(c) \/ Expire(c)
    <3>1. Passing(c) /\ pass[c] \in Pass
      <4>1. Passing(c)
        BY <2>2 DEF Locking, Lock, PassAt, Waiting, DeadlinePasses, GiveUp, Hang, Expire
      <4> QED
        BY <4>1 DEF Passing, TypeOK, DaemonTypeOK
    <3>2. CASE Locking(c)
      <4>1. /\ pass' = [pass EXCEPT ![c] = [pass[c] EXCEPT !.step = "decide"]]
            /\ pass[c].step = "lock"
        BY <3>2 DEF Locking, Lock, PassAt
      <4>2. [pass[c] EXCEPT !.step = "decide"] \in Pass
        BY <3>1 DEF Pass
      <4> QED
        BY <4>1, <4>2 DEF TypeOK, DaemonTypeOK, Passing
    <3>3. CASE GiveUp(c)
      <4>1. ~Calling(c)
        BY <3>3 DEF GiveUp, PassInv, Exclusive, TypeOK, DaemonTypeOK
      <4> QED
        BY <3>3, <4>1 DEF GiveUp, End, TypeOK, DaemonTypeOK, Passing
    <3>4. CASE Hang(c) \/ Expire(c)
      <4>1. ASSUME NEW stuck \in {"file", "store"}, pass' = [pass EXCEPT ![c].stuck = stuck]
            PROVE  \E q \in Pass : q.step = pass[c].step /\ pass' = [pass EXCEPT ![c] = q]
        <5>1. [pass[c] EXCEPT !.stuck = stuck] \in Pass
          BY <3>1 DEF Pass
        <5> QED
          BY <3>1, <4>1, <5>1 DEF Pass
      <4>2. ASSUME pass' = [pass EXCEPT ![c].expired = TRUE]
            PROVE  \E q \in Pass : q.step = pass[c].step /\ pass' = [pass EXCEPT ![c] = q]
        <5>1. [pass[c] EXCEPT !.expired = TRUE] \in Pass
          BY <3>1 DEF Pass
        <5> QED
          BY <3>1, <4>2, <5>1 DEF Pass
      <4>3. PICK q \in Pass : q.step = pass[c].step /\ pass' = [pass EXCEPT ![c] = q]
        BY <3>4, <4>1, <4>2 DEF Hang, Expire
      <4> QED
        BY <4>3, PassAssumption DEF TypeOK, DaemonTypeOK, Passing
    <3> QED
      BY <2>2, <3>2, <3>3, <3>4 DEF Waiting, DeadlinePasses
  <2> QED
    BY <2>1, <2>2
<1> QED
  BY <1>1, <1>2, <1>3, <1>4, <1>5 DEF TypeOK, DaemonTypeOK, processVars, syncVars, fileVars, Calling

(* The process dies: nobody is in a call, or walks. *)
LEMMA TypeDies ==
  ASSUME TypeOK,
         Stopping \/ (Crash /\ ServerDies) \/ (PowerLoss /\ ScanDies /\ UpDies(Processes))
  PROVE  /\ DaemonTypeOK' /\ ScanTypeOK' /\ call' = [c \in Callers |-> None]
         /\ \A c \in Callers : ~Passing(c)' /\ ~Calling(c)'
<1>1. \E p \in {"down", "off"} : Dies(p)
  BY DEF Stopping, Exit, Crash, PowerLoss
<1>2. /\ call' = [c \in Callers |-> None] /\ UNCHANGED syncVars
      /\ budget' \in [Troubles -> Nat]
  BY DEF Stopping, Exit, Crash, PowerLoss, CallsDie, FilesLost, Fault, Spend, Troubles,
         TypeOK, DaemonTypeOK
<1>3. ScanTypeOK'
  BY DEF Stopping, ServerDies, ScanDies, ScanTypeOK
<1>4. \A c \in Callers : ~Passing(c)' /\ ~Calling(c)'
  BY <1>1, <1>2 DEF Dies, Passing, Calling
<1> QED
  BY <1>1, <1>2, <1>3, <1>4 DEF Dies, TypeOK, DaemonTypeOK, syncVars, Passing, Calling

(* What a power loss leaves has nothing below a directory that is gone. *)
LEMMA FilesLostTyped ==
  ASSUME FilesTypeOK, FilesLost
  PROVE  FilesTypeOK'
<1> DEFINE Below(old) == [e \in Entries |->
             IF \E d \in Ancestors[e] : old[d] = None THEN None ELSE old[e]]
<1>1. PICK old : /\ \A e \in Entries : old[e] \in MayBe(e)
                 /\ entry' = Below(old)
  BY DEF FilesLost, Outcomes
<1>2. \A e \in Entries : entry'[e] = IF \E d \in Ancestors[e] : old[d] = None THEN None ELSE old[e]
  BY <1>1
<1>3. \A e \in Entries : MayBe(e) \subseteq Saves \cup {Directory, None, Torn}
  BY DEF FilesTypeOK, MayBe
<1> HIDE DEF Below
<1>4. entry' \in [Entries -> Saves \cup {Directory, None, Torn}]
  <2>1. entry' = [e \in Entries |-> entry'[e]]
    BY <1>1 DEF Below
  <2> QED
    BY <1>1, <1>2, <1>3, <2>1
<1>5. \A e \in Entries : entry'[e] # None => \A d \in Ancestors[e] : entry'[d] # None
  <2> SUFFICES ASSUME NEW e \in Entries, entry'[e] # None, NEW d \in Ancestors[e]
               PROVE  entry'[d] # None
    OBVIOUS
  <2>1. d \in Entries /\ Ancestors[d] \subseteq Ancestors[e]
    BY AboveTransitive
  <2> QED
    BY <1>2, <2>1
<1>6. /\ lost' = [e \in Entries |-> {}] /\ call' = [c \in Callers |-> None]
  BY DEF FilesLost
<1>7. \A e \in Entries : Present(e)' => Missing(e)' = {}
  BY <1>5 DEF Present, Missing
<1>8. \A e \in Entries : MayBe(e)' \subseteq MayBe(e) \cup {None}
  BY <1>1, <1>2, <1>6 DEF MayBe
<1>9. /\ \A f \in Files : Directory \notin MayBe(f)'
      /\ \A d \in Dirs : MayBe(d)' \subseteq {Directory, None}
  BY <1>8, FilesAssumption DEF FilesTypeOK, Entries
<1> QED
  BY <1>4, <1>6, <1>7, <1>9 DEF FilesTypeOK

(* Versions are applied in their order. *)
LEMMA MigrationsTyped ==
  ASSUME MigrationsTypeOK, SchemaInv, [Next]_vars
  PROVE  MigrationsTypeOK'
<1>1. SchemaInv'
  BY SchemaStep
<1>2. PICK n \in 0..Versions : applied = 1..n
  BY DEF MigrationsTypeOK
<1>3. CASE UNCHANGED applied
  BY <1>1, <1>2, <1>3 DEF SchemaInv, MigrationsTypeOK
<1>4. ASSUME NEW p \in Processes, ApplyOne(p)
      PROVE  MigrationsTypeOK'
  <2> DEFINE v == upgrade[p].version
  <2>1. /\ Migrating(p) /\ upgrade[p].step = "apply"
        /\ v \notin applied /\ applied' = applied \cup {v}
    BY <1>4 DEF ApplyOne, UpAt
  <2>2. v \in 1..(Versions + 1) /\ 1..(v - 1) \subseteq applied /\ v <= Versions
    BY <2>1 DEF SchemaInv, Migrating
  <2>3. n = v - 1
    <3>1. v > n
      BY <1>2, <2>1, <2>2
    <3>2. v - 1 <= n
      <4>1. v = 1 \/ v - 1 \in 1..(v - 1)
        BY <2>2, MigrationsAssumption
      <4> QED
        BY <1>2, <2>2, <4>1, MigrationsAssumption
    <3> QED
      BY <2>2, <3>1, <3>2, MigrationsAssumption
  <2>4. applied' = 1..v /\ v \in 0..Versions
    BY <1>2, <2>1, <2>2, <2>3, MigrationsAssumption
  <2> QED
    BY <1>1, <2>4 DEF SchemaInv, MigrationsTypeOK
<1>5. CASE \E p \in Processes : ApplyOne(p)
  BY <1>4, <1>5
<1>6. UNCHANGED applied \/ \E p \in Processes : ApplyOne(p)
  <2>1. ASSUME NEW p \in Processes, Upgrade(p)
        PROVE  UNCHANGED applied \/ ApplyOne(p)
    BY <2>1 DEF Upgrade, Check
  <2>2. CASE Lifecycle
    BY <2>2 DEF Lifecycle, UpBegins, UpEnds, UpFails, Stopping, ServerDies, UpDies, migrationVars
  <2>3. CASE CommandRuns
    BY <2>3 DEF CommandRuns, UpBegins, UpEnds, UpFails
  <2>4. CASE UNCHANGED migrationVars
    BY <2>4 DEF migrationVars
  <2> QED
    BY <2>1, <2>2, <2>3, <2>4 DEF Next, vars, Walk, Looping, Locking, Working, Waiting
<1> QED
  BY <1>3, <1>5, <1>6

(* A listing is finite. *)
LEMMA Counted ==
  ASSUME NEW d, NEW L \in Listings(d)
  PROVE  Cardinality(L) \in Nat /\ IsFiniteSet(L)
<1>1. IsFiniteSet(In(d)) /\ IsFiniteSet(TempsIn(d))
  BY TreeAssumption, FilesAssumption, FS_Subset DEF In, TempsIn
<1>2. IsFiniteSet(In(d) \cup TempsIn(d))
  BY <1>1, FS_Union
<1> QED
  BY <1>2, FS_Subset, FS_CardinalityType DEF Listings

(* What the visit of a listing of d makes of a walk. *)
Follows(d, v) ==
  scan' = [stack |-> IF v.visited > MaxScanEntries THEN {}
                     ELSE (scan.stack \ {d}) \cup {e \in v.subdirs : Descends(e)},
           visited |-> v.visited, found |-> scan.found \cup v.saves]

(* A walk goes on. *)
LEMMA WalkTyped ==
  ASSUME ScanTypeOK, Walk
  PROVE  ScanTypeOK'
<1>1. CASE ScanBegins
  BY <1>1, DiscoverAssumption DEF ScanBegins, ScanTypeOK
<1>2. CASE ScanEnds
  BY <1>2 DEF ScanEnds, ScanTypeOK
<1>3. CASE ScanLists
  <2>1. /\ scan \in [stack: SUBSET (Dirs \cup {Root}), visited: 0..(MaxScanEntries + 1),
                     found: SUBSET SaveLike]
        /\ there \subseteq Files /\ there' \subseteq there
    BY <1>3 DEF ScanLists, Scanning, ScanTypeOK
  <2>2. PICK d \in scan.stack : \E L \in Listings(d) \cup {{}} : \E v \in Visit(L) : Follows(d, v)
    BY <1>3 DEF ScanLists, Follows
  <2>3. PICK L \in Listings(d) \cup {{}} : \E v \in Visit(L) : Follows(d, v)
    BY <2>2
  <2>4. PICK v \in Visit(L) : Follows(d, v)
    BY <2>3
  <2>5. Cardinality(L) \in Nat
    BY Counted, FS_EmptySet
  <2>6. /\ v.visited \in 0..(MaxScanEntries + 1)
        /\ v.subdirs \subseteq Dirs /\ v.saves \subseteq SaveLike
    <3>1. CASE Cardinality(L) <= MaxScanEntries - scan.visited
      BY <2>1, <2>4, <2>5, <3>1, DiscoverAssumption DEF Visit
    <3>2. CASE ~(Cardinality(L) <= MaxScanEntries - scan.visited)
      <4>1. \E K : v = [visited |-> MaxScanEntries + 1, subdirs |-> {},
                        saves |-> K \cap (L \cap SaveLike)]
        BY <2>4, <3>2, Zenon DEF Visit
      <4> QED
        BY <4>1, DiscoverAssumption
    <3> QED
      BY <3>1, <3>2
  <2> QED
    BY <2>1, <2>4, <2>6 DEF ScanTypeOK, Follows
<1> QED
  BY <1>1, <1>2, <1>3 DEF Walk

(* Type correctness is inductive, with what PassInv and SchemaInv know. *)
LEMMA TypeStep ==
  ASSUME TypeOK, \A c \in Callers : PassInv(c), SchemaInv, [Next]_vars
  PROVE  TypeOK'
<1>1. MigrationsTypeOK'
  BY MigrationsTyped DEF TypeOK
<1>2. ASSUME UNCHANGED fileVars
      PROVE  FilesTypeOK'
  BY <1>2, FilesStayTyped DEF TypeOK, FilesTypeOK, fileVars
<1>3. ASSUME UNCHANGED scanVars
      PROVE  ScanTypeOK'
  BY <1>3 DEF TypeOK, ScanTypeOK, scanVars
<1>4. ASSUME NEW c \in Callers, Working(c)
      PROVE  TypeOK'
  BY <1>4, TypeWorking
<1>5. ASSUME NEW c \in Callers,
             \/ Locking(c) \/ Waiting(c)
             \/ /\ Hang(c) \/ Expire(c) \/ \E s \in Syncs : Request(c, s)
                /\ UNCHANGED <<scanVars, migrationVars>>
      PROVE  TypeOK'
  BY <1>5, TypeWaiting
<1>6. CASE UNCHANGED vars \/ Walk \/ CommandRuns \/ \E p \in Processes : Upgrade(p)
  <2>1. UNCHANGED <<processVars, passVars, syncVars, fileVars>>
        /\ budget' \in [Troubles -> Nat]
    BY <1>6 DEF vars, Walk, CommandRuns, Upgrade, daemonVars, Spend, Troubles, TypeOK, DaemonTypeOK
  <2>2. ScanTypeOK'
    BY <1>3, <1>6, WalkTyped DEF vars, CommandRuns, Upgrade, TypeOK
  <2>3. DaemonTypeOK'
    BY <2>1 DEF processVars, passVars, syncVars, fileVars, TypeOK, DaemonTypeOK, Calling, Passing
  <2> QED
    BY <1>1, <1>2, <2>1, <2>2, <2>3 DEF TypeOK
<1>7. CASE \/ Start /\ UpBegins(Server) /\ UNCHANGED scanVars
           \/ Serve /\ UpEnds(Server) /\ UNCHANGED scanVars
           \/ StartFails /\ UpFails(Server) /\ UNCHANGED scanVars
           \/ Terminate /\ UNCHANGED <<scanVars, migrationVars>>
  <2>1. /\ UNCHANGED <<todo, passVars, syncVars, fileVars, budget, scanVars>>
        /\ proc' \in {"down", "starting", "up", "stopping"} /\ loop' \in {loop, "listing"}
    BY <1>7 DEF Start, Serve, StartFails, Terminate
  <2>2. DaemonTypeOK'
    BY <2>1 DEF passVars, syncVars, fileVars, TypeOK, DaemonTypeOK, Calling, Passing
  <2> QED
    BY <1>1, <1>2, <1>3, <2>1, <2>2 DEF TypeOK
<1>8. CASE Stopping \/ (Crash /\ ServerDies)
  <2>1. UNCHANGED <<entry, lost>>
    BY <1>8 DEF Stopping, Exit, Crash, CallsDie
  <2>2. FilesTypeOK'
    BY <1>8, <2>1, TypeDies, FilesStayTyped DEF TypeOK
  <2> QED
    BY <1>1, <1>8, <2>2, TypeDies DEF TypeOK
<1>9. CASE PowerLoss /\ ScanDies /\ UpDies(Processes)
  BY <1>1, <1>9, TypeDies, FilesLostTyped DEF PowerLoss, TypeOK
<1>10. CASE Looping
  <2>1. /\ UNCHANGED <<proc, mutex, syncVars, fileVars, scanVars>>
        /\ loop' \in {"waiting", "listing", "sweeping", "ended"}
        /\ todo' \subseteq Syncs /\ budget' \in [Troubles -> Nat]
    BY <1>10 DEF Looping, Sweep, ListSyncs, PollOne, SweepEnds, Tick, passVars, Fault, Spend,
                 Troubles, TypeOK, DaemonTypeOK
  <2>2. /\ pass' \in [Callers -> Pass \cup {None}]
        /\ \A c \in Callers : Calling(c) => Passing(c)' /\ pass'[c].step = "write"
    <3>1. CASE PollOne
      <4>1. PICK s \in Syncs : Begin(Sweeper, s) /\ ~Passing(Sweeper)
        BY <3>1 DEF PollOne, TypeOK, DaemonTypeOK
      <4>2. [sync |-> s, step |-> "lock", data |-> None, trusts |-> None,
             expired |-> FALSE, stuck |-> "no"] \in Pass
        BY DEF Pass
      <4> QED
        BY <4>1, <4>2, DaemonAssumption DEF Begin, TypeOK, DaemonTypeOK, Passing
    <3>2. CASE ListSyncs \/ SweepEnds \/ Tick
      BY <3>2 DEF ListSyncs, SweepEnds, Tick, passVars, TypeOK, DaemonTypeOK, Passing
    <3> QED
      BY <1>10, <3>1, <3>2 DEF Looping, Sweep
  <2> QED
    BY <1>1, <1>2, <1>3, <2>1, <2>2 DEF TypeOK, DaemonTypeOK, syncVars, fileVars, Calling
<1>11. ASSUME NEW s \in Syncs, DeviceSaves(s), UNCHANGED scanVars
       PROVE  TypeOK'
  <2>1. /\ saved' \in [Syncs -> Saves] /\ budget' \in [Troubles -> Nat]
        /\ UNCHANGED <<processVars, passVars, recorded, manifest, conflicted, fileVars>>
    BY <1>11 DEF DeviceSaves, Spend, Troubles, TypeOK, DaemonTypeOK
  <2> QED
    BY <1>1, <1>2, <1>3, <1>11, <2>1
       DEF TypeOK, DaemonTypeOK, processVars, passVars, fileVars, Calling, Passing
<1> QED
  BY <1>4, <1>5, <1>6, <1>7, <1>8, <1>9, <1>10, <1>11 DEF Next, Lifecycle

LEMMA TypeInit ==
  ASSUME Init
  PROVE  TypeOK
<1>1. PICK scenario \in Scenarios : FilesInit(scenario.holds) /\ budget = scenario.budget
  BY DEF Init
<1>2. DaemonTypeOK
  BY <1>1, HostAssumption DEF Init, DaemonInit, DaemonTypeOK, FilesInit, Calling
<1>3. FilesTypeOK
  <2>1. \A e \in Entries : MayBe(e) = {entry[e]}
    BY <1>1 DEF FilesInit, MayBe
  <2>2. \A e \in Entries : Present(e) => e \in scenario.holds
    BY <1>1 DEF FilesInit, Present
  <2>3. \A e \in scenario.holds : Present(e)
    BY <1>1, HostAssumption, FilesAssumption DEF FilesInit, Present
  <2>4. \A e \in Entries : Present(e) => Missing(e) = {}
    BY <2>2, <2>3, HostAssumption DEF Missing
  <2>5. /\ \A f \in Files : Directory # entry[f]
        /\ \A d \in Dirs : entry[d] \in {Directory, None}
    BY <1>1, TreeAssumption, FilesAssumption DEF FilesInit, Entries
  <2>6. /\ entry \in [Entries -> Saves \cup {Directory, None, Torn}]
        /\ lost \in [Entries -> SUBSET (Saves \cup {Directory, None, Torn})]
        /\ call \in [Callers -> Call \cup {None}]
    BY <1>1 DEF FilesInit
  <2> QED
    BY <2>1, <2>4, <2>5, <2>6 DEF FilesTypeOK, Entries
<1>4. ScanTypeOK /\ MigrationsTypeOK
  BY MigrationsAssumption
     DEF Init, ScanInit, ScanTypeOK, MigrationsInit, MigrationsTypeOK
<1> QED
  BY <1>2, <1>3, <1>4 DEF TypeOK

-----------------------------------------------------------------------------
(* Walks *)

(* A listing that is within the walk's limit is whole, since List's is higher. *)
LEMMA ListsAll ==
  ASSUME NEW d, NEW L \in Listings(d), Cardinality(L) <= MaxScanEntries
  PROVE  In(d) \subseteq L
<1> DEFINE all == In(d) \cup TempsIn(d)
<1>1. /\ IsFiniteSet(all) /\ L \subseteq all
      /\ Cardinality(L) = Least(Cardinality(all), MaxListEntries)
  <2>1. IsFiniteSet(In(d)) /\ IsFiniteSet(TempsIn(d))
    BY TreeAssumption, FilesAssumption, FS_Subset DEF In, TempsIn
  <2> QED
    BY <2>1, FS_Union DEF Listings
<1> HIDE DEF all
<1>2. Cardinality(all) \in Nat
  BY <1>1, FS_CardinalityType
<1>3. Cardinality(L) = Cardinality(all)
  BY <1>1, <1>2, DiscoverAssumption DEF Least
<1>4. L = all
  BY <1>1, <1>3, FS_Subset
<1> QED
  BY <1>4 DEF all

LEMMA ScanLooksOn ==
  ASSUME TypeOK, ScanInv, ScanLists
  PROVE  ScanInv'
<1>1. /\ scan \in [stack: SUBSET (Dirs \cup {Root}), visited: 0..(MaxScanEntries + 1),
                   found: SUBSET SaveLike]
      /\ there \subseteq Files /\ there' = {f \in there : Present(f)} /\ Scanning
  BY DEF ScanLists, Scanning, TypeOK, ScanTypeOK
<1>2. PICK d \in scan.stack :
        \E L \in IF d = Root \/ Present(d) THEN Listings(d) ELSE {{}} :
        \E v \in Visit(L) : Follows(d, v)
  BY DEF ScanLists, Follows
<1>3. PICK L \in IF d = Root \/ Present(d) THEN Listings(d) ELSE {{}} :
        \E v \in Visit(L) : Follows(d, v)
  BY <1>2
<1>4. PICK v \in Visit(L) : Follows(d, v)
  BY <1>3
<1> SUFFICES ASSUME v.visited <= MaxScanEntries,
                    NEW f \in there \cap SaveLike, Present(f),
                    f \notin scan'.found, ~(Cardinality(Ancestors[f]) > MaxScanDepth)
             PROVE  \E x \in scan'.stack : x \in Ancestors[f] \cup {Root}
  BY <1>1, <1>4 DEF ScanInv, Follows
<1>5. f \in Files /\ f \in Entries
  BY <1>1 DEF Entries
<1>6. /\ Cardinality(L) <= MaxScanEntries - scan.visited
      /\ v.visited = scan.visited + Cardinality(L)
      /\ v.subdirs = {e \in L : e \in Dirs} /\ v.saves = L \cap SaveLike
  <2>1. CASE Cardinality(L) <= MaxScanEntries - scan.visited
    BY <1>4, <2>1 DEF Visit
  <2>2. CASE ~(Cardinality(L) <= MaxScanEntries - scan.visited)
    <3>1. \E K : v = [visited |-> MaxScanEntries + 1, subdirs |-> {},
                      saves |-> K \cap (L \cap SaveLike)]
      BY <1>4, <2>2, Zenon DEF Visit
    <3> QED
      BY <3>1, DiscoverAssumption
  <2> QED
    BY <2>1, <2>2
<1>7. Cardinality(L) \in Nat
  <2>1. L \in Listings(d) \/ L = {}
    BY <1>3
  <2>2. CASE L \in Listings(d)
    BY <2>2, Counted
  <2>3. CASE L = {}
    BY <2>3, FS_EmptySet
  <2> QED
    BY <2>1, <2>2, <2>3
<1>8. scan.visited <= MaxScanEntries /\ Cardinality(L) <= MaxScanEntries
  BY <1>1, <1>6, <1>7, DiscoverAssumption
<1>9. /\ scan'.stack = (scan.stack \ {d}) \cup {e \in v.subdirs : Descends(e)}
      /\ scan'.found = scan.found \cup v.saves
  <2>1. ~(v.visited > MaxScanEntries)
    BY <1>1, <1>6, <1>7, DiscoverAssumption
  <2> QED
    BY <1>4, <2>1 DEF Follows
<1>10. PICK x \in scan.stack : x \in Ancestors[f] \cup {Root}
  BY <1>1, <1>8, <1>9 DEF ScanInv
<1>11. CASE x # d
  BY <1>9, <1>10, <1>11
<1>12. CASE x = d
  <2>1. d = Root \/ Present(d)
    BY <1>5, <1>10, <1>12, AboveTransitive DEF TypeOK, FilesTypeOK, Missing
  <2>2. In(d) \subseteq L
    BY <1>3, <1>8, <2>1, ListsAll
  <2>3. PICK e \in Ancestors[f] \cup {f} : Parent[e] = d
    BY <1>5, <1>10, <1>12, OnTheWay
  <2>4. e \in Entries /\ Present(e)
    BY <1>5, <2>3, AboveTransitive DEF TypeOK, FilesTypeOK, Missing
  <2>5. e \in L
    BY <2>2, <2>3, <2>4 DEF In
  <2>6. e # f
    BY <1>6, <1>9, <2>5
  <2>7. e \in Ancestors[f] /\ e \in Dirs /\ e # Root
    BY <1>5, <2>3, <2>4, <2>6, AboveTransitive, TreeAssumption
  <2>8. Descends(e)
    BY <1>5, <2>7, AboveIsHigher, DiscoverAssumption DEF Descends, Depth
  <2> QED
    BY <1>6, <1>9, <2>5, <2>7, <2>8
<1> QED
  BY <1>11, <1>12

LEMMA ScanStep ==
  ASSUME TypeOK, ScanInv, [Next]_vars
  PROVE  ScanInv'
<1>1. CASE UNCHANGED scanVars
  BY <1>1 DEF scanVars, ScanInv, Scanning
<1>2. CASE ScanDies
  BY <1>2 DEF ScanDies, ScanInv, Scanning
<1>3. CASE ScanBegins
  BY <1>3 DEF ScanBegins, ScanInv
<1>4. UNCHANGED scanVars \/ ScanDies \/ ScanBegins \/ ScanLists
  <2>1. CASE Lifecycle
    BY <2>1 DEF Lifecycle, Stopping, ServerDies
  <2>2. CASE Walk
    BY <2>2 DEF Walk, ScanEnds, ScanDies
  <2>3. CASE UNCHANGED vars \/ CommandRuns \/ Looping \/ \E p \in Processes : Upgrade(p)
    BY <2>3 DEF vars, CommandRuns, Looping, Upgrade
  <2>4. CASE \E c \in Callers : Locking(c) \/ Working(c) \/ Waiting(c)
    BY <2>4 DEF Locking, Working, Waiting
  <2> QED
    BY <2>1, <2>2, <2>3, <2>4 DEF Next
<1> QED
  BY <1>1, <1>2, <1>3, <1>4, ScanLooksOn

-----------------------------------------------------------------------------
(* What a power loss leaves *)

(* A file and what the disk may hold of it stay. *)
Kept(f) == entry'[f] = entry[f] /\ MayBe(f)' \subseteq MayBe(f)

(* No directory goes, or is less durable than before. *)
DirsKept ==
  /\ \A e \in Entries : Present(e) => Present(e)'
  /\ \A d \in Dirs : Durable(d) => Durable(d)'

(* A step of c, as the others see it: of a sync whose mutex another has, it changes
   nothing but that a device may save.  A step of nobody is one of None. *)
StepOf(c) ==
  /\ DirsKept
  /\ \A f \in Files : MayBe(f)' \subseteq MayBe(f) \cup Saves
  /\ \A b \in Callers \ {c} : pass'[b] = pass[b] /\ call'[b] = call[b]
  /\ \A s \in Syncs : mutex[s] \notin {None, c} =>
       mutex'[s] = mutex[s] /\ manifest'[s] = manifest[s] /\ Kept(Path[s])
  /\ \A s \in Syncs : saved[s] <= saved'[s]

(* What survives a power loss goes on doing so while directories are kept and
   only later saves are written over it. *)
LEMMA SurvivesStill ==
  ASSUME NEW s \in Syncs, NEW save \in Nat, NEW trusts, Survives(s, save, trusts), DirsKept,
         NEW later \in SUBSET Saves, \A v \in later : v >= save,
         MayBe(Path[s])' \subseteq MayBe(Path[s]) \cup later
  PROVE  Survives(s, save, trusts)'
<1>1. Path[s] \in Entries
  BY DaemonAssumption DEF Entries
<1> QED
  BY <1>1, AboveIsClosed DEF Survives, DirsKept

LEMMA SurvivesUntouched ==
  ASSUME NEW s \in Syncs, NEW save \in Nat, NEW trusts, Survives(s, save, trusts), DirsKept,
         Kept(Path[s])
  PROVE  Survives(s, save, trusts)'
<1>1. {} \in SUBSET Saves /\ \A v \in {} : v >= save
  OBVIOUS
<1>2. MayBe(Path[s])' \subseteq MayBe(Path[s]) \cup {}
  BY DEF Kept
<1> QED
  BY <1>1, <1>2, SurvivesStill, Zenon

(* The passes that hold other mutexes, or wait for one. *)
LEMMA OthersGoOn ==
  ASSUME TypeOK, TypeOK', NEW c, StepOf(c), NEW b \in Callers \ {c}, PassInv(b)
  PROVE  PassInv(b)'
<1>1. pass'[b] = pass[b] /\ call'[b] = call[b] /\ b # None
  BY FilesAssumption DEF StepOf
<1>2. CASE ~Passing(b) \/ pass[b].step = "lock"
  <2>1. ~Calling(b)
    BY <1>2 DEF TypeOK, DaemonTypeOK
  <2> QED
    BY <1>1, <1>2, <2>1
       DEF PassInv, Exclusive, CallProgress, NotBehind, Recordable, Passing, Calling
<1>3. CASE Passing(b) /\ pass[b].step # "lock"
  <2>1. PICK s \in Syncs : s = pass[b].sync
    BY <1>3 DEF TypeOK, DaemonTypeOK, Passing, Pass
  <2>2. mutex[s] = b
    BY <1>3, <2>1 DEF PassInv, Exclusive
  <2>3. /\ mutex'[s] = b /\ manifest'[s] = manifest[s] /\ Kept(Path[s])
        /\ saved[s] <= saved'[s] /\ DirsKept
    BY <1>1, <2>1, <2>2 DEF StepOf
  <2>4. Exclusive(b)'
    BY <1>1, <2>1, <2>3 DEF PassInv, Exclusive, Passing, Calling
  <2>5. CallProgress(b)'
    <3> SUFFICES ASSUME Calling(b)
                 PROVE  CallProgress(b)'
      BY <1>1 DEF CallProgress, Calling
    <3>1. call[b].path = Path[s] /\ Path[s] \in Files /\ Path[s] \in Entries
      BY <2>1, DaemonAssumption DEF PassInv, Exclusive, Entries
    <3>2. Ancestors[Path[s]] \subseteq Dirs /\ Missing(Path[s])' \subseteq Missing(Path[s])
      BY <2>3, <3>1, AboveIsClosed DEF Missing, DirsKept, Entries
    <3> QED
      BY <1>1, <2>1, <2>3, <3>1, <3>2 DEF PassInv, CallProgress, Calling, Kept, DirsKept
  <2>6. NotBehind(b)'
    <3>1. saved[s] \in Nat /\ saved'[s] \in Nat
      BY <2>1, FilesAssumption DEF TypeOK, DaemonTypeOK
    <3>2. pass[b].data \in Saves => pass[b].data \in Nat
      BY FilesAssumption
    <3> QED
      BY <1>1, <1>3, <2>1, <2>3, <3>1, <3>2 DEF PassInv, NotBehind, Passing
  <2>7. Recordable(b)'
    <3>1. CASE pass[b].step = "record" /\ pass[b].trusts # None
      <4>1. PICK data \in Nat, trusts \in {pass[b].trusts} :
              data = pass[b].data /\ Survives(s, data, trusts)
        BY <1>3, <2>1, <3>1, FilesAssumption DEF PassInv, NotBehind, Recordable
      <4>2. Survives(s, data, trusts)'
        BY <2>1, <2>3, <4>1, SurvivesUntouched
      <4> QED
        BY <1>1, <2>1, <3>1, <4>1, <4>2 DEF Recordable
    <3> QED
      BY <1>1, <1>3, <3>1 DEF PassInv, Recordable, Passing
  <2> QED
    BY <2>4, <2>5, <2>6, <2>7 DEF PassInv
<1> QED
  BY <1>2, <1>3

(* A sync whose entry stays. *)
LEMMA SyncGoesOn ==
  ASSUME TypeOK, TypeOK', NEW s \in Syncs, SyncInv(s), manifest'[s] = manifest[s],
         saved[s] <= saved'[s], proc' = "off" \/ (proc # "off" /\ DirsKept),
         NEW later \in SUBSET Saves,
         manifest[s] # None => \A v \in later : v >= manifest[s].save,
         proc' = "off" \/ MayBe(Path[s])' \subseteq MayBe(Path[s]) \cup later
  PROVE  SyncInv(s)'
<1> SUFFICES ASSUME manifest[s] # None
             PROVE  SyncInv(s)'
  BY DEF SyncInv
<1>1. manifest[s].save \in Nat /\ saved[s] \in Nat /\ saved'[s] \in Nat
  BY FilesAssumption DEF TypeOK, DaemonTypeOK
<1>2. manifest'[s].save <= saved'[s]
  BY <1>1 DEF SyncInv
<1>3. PICK save \in Nat, trusts \in {manifest[s].trusts} : save = manifest[s].save
  BY <1>1
<1>4. ASSUME proc' # "off", trusts # None
      PROVE  Survives(s, save, trusts)'
  <2>1. Survives(s, save, trusts) /\ DirsKept /\ MayBe(Path[s])' \subseteq MayBe(Path[s]) \cup later
    BY <1>3, <1>4 DEF SyncInv
  <2>2. \A v \in later : v >= save
    BY <1>3
  <2> QED
    BY <2>1, <2>2, SurvivesStill
<1> QED
  BY <1>2, <1>3, <1>4 DEF SyncInv

(* What the kinds of file steps keep: none; a directory's fsync; a new directory. *)
LEMMA FilesAlone ==
  ASSUME UNCHANGED <<entry, lost>>
  PROVE  DirsKept /\ \A f \in Files : Kept(f)
BY DEF DirsKept, Kept, MayBe, Present, Durable

LEMMA SyncDirKept ==
  ASSUME TypeOK, NEW d, SyncDir(d), UNCHANGED entry
  PROVE  /\ DirsKept /\ \A f \in Files : Kept(f)
         /\ \A e \in Entries : lost'[e] = IF Parent[e] = d THEN lost[e] \cap {Torn} ELSE lost[e]
<1>1. \A e \in Entries : lost'[e] = IF Parent[e] = d THEN lost[e] \cap {Torn} ELSE lost[e]
  BY DEF SyncDir
<1> QED
  BY <1>1 DEF DirsKept, Kept, MayBe, Present, Durable, Entries

LEMMA MkdirKept ==
  ASSUME TypeOK, NEW d \in Dirs, ~Present(d), Name(d, Directory, {})
  PROVE  DirsKept /\ \A f \in Files : Kept(f)
<1>1. \A e \in Entries : e # d => entry'[e] = entry[e] /\ lost'[e] = lost[e]
  BY DEF Name, TypeOK, FilesTypeOK
<1>2. entry'[d] = Directory
  BY DEF Name, TypeOK, FilesTypeOK, Entries
<1> QED
  BY <1>1, <1>2, TreeAssumption, FilesAssumption DEF DirsKept, Kept, MayBe, Present, Durable, Entries

(* How a call goes on. *)
LEMMA ProgressOn ==
  ASSUME TypeOK, TypeOK', NEW c \in Callers, CallProgress(c), WriteStep(c),
         \A e \in Entries : Present(e) => Present(e)'
  PROVE  CallProgress(c)' /\ (~Rename(c) => DirsKept /\ \A f \in Files : Kept(f))
<1>1. PICK f \in Files : f = call[c].path /\ f \in Entries
  BY DEF WriteStep, Mkdir, SyncParent, WriteTemp, SyncTemp, Rename, CallAt, Calling, TypeOK,
         FilesTypeOK, Call, Entries
<1>2. Calling(c) /\ call[c] \in Call /\ call \in [Callers -> Call \cup {None}]
  BY DEF WriteStep, Mkdir, SyncParent, WriteTemp, SyncTemp, Rename, CallAt, Calling, TypeOK,
         FilesTypeOK
<1>3. Ancestors[f] \subseteq Dirs /\ Ancestors[f] \subseteq Entries /\ Missing(f)' \subseteq Missing(f)
  BY <1>1, AboveIsClosed DEF Missing, Entries
<1>4. CASE Mkdir(c)
  <2>1. CASE Missing(f) = {} /\ Turn(c, "sync parents") /\ UNCHANGED <<entry, lost>>
    <3>1. /\ call'[c].path = f /\ call'[c].step = "sync parents"
          /\ call'[c].found = call[c].found /\ call'[c].todo = call[c].todo
      BY <1>1, <1>2, <2>1 DEF Turn, Call
    <3> QED
      BY <1>1, <1>2, <1>3, <2>1, <3>1, FilesAlone DEF CallProgress, DirsKept
  <2>2. ASSUME NEW d \in Shallowest(Missing(f)), Name(d, Directory, {}), UNCHANGED call
        PROVE  CallProgress(c)' /\ DirsKept /\ \A g \in Files : Kept(g)
    <3>1. d \in Dirs /\ ~Present(d)
      BY <1>3, <2>2 DEF Shallowest, Missing
    <3>2. DirsKept /\ \A g \in Files : Kept(g)
      BY <2>2, <3>1, MkdirKept
    <3>3. call[c].step = "mkdir"
      BY <1>4 DEF Mkdir, CallAt
    <3> QED
      BY <1>1, <1>2, <1>3, <2>2, <3>2, <3>3 DEF CallProgress, DirsKept
  <2> QED
    BY <1>1, <1>4, <2>1, <2>2 DEF Mkdir
<1>5. CASE SyncParent(c)
  <2>1. call[c].step = "sync parents" /\ UNCHANGED entry /\ Missing(f) = {}
    BY <1>1, <1>2, <1>5 DEF SyncParent, CallAt, CallProgress
  <2>2. CASE call[c].todo = {} /\ Turn(c, "write temp") /\ UNCHANGED lost
    <3>1. /\ call'[c].path = f /\ call'[c].step = "write temp"
          /\ call'[c].found = call[c].found /\ call'[c].todo = call[c].todo
      BY <1>1, <1>2, <2>2 DEF Turn, Call
    <3> QED
      BY <1>1, <1>2, <1>3, <2>1, <2>2, <3>1, FilesAlone DEF CallProgress, DirsKept
  <2>3. ASSUME NEW d \in Shallowest(call[c].todo), SyncDir(Parent[d]),
               call' = [call EXCEPT ![c].todo = @ \ {d}]
        PROVE  CallProgress(c)' /\ DirsKept /\ \A g \in Files : Kept(g)
    <3>1. /\ call'[c].path = f /\ call'[c].step = "sync parents"
          /\ call'[c].found = call[c].found /\ call'[c].todo = call[c].todo \ {d}
      BY <1>1, <1>2, <2>1, <2>3 DEF Call
    <3>2. /\ DirsKept /\ \A g \in Files : Kept(g)
          /\ \A e \in Entries : lost'[e] = IF Parent[e] = Parent[d] THEN lost[e] \cap {Torn}
                                                                     ELSE lost[e]
      BY <2>1, <2>3, SyncDirKept
    <3>3. d \in Ancestors[f] => Durable(d)'
      BY <1>3, <2>1, <3>2, FilesAssumption DEF Missing, Durable, Present
    <3> QED
      BY <1>1, <1>2, <1>3, <2>1, <3>1, <3>2, <3>3 DEF CallProgress, DirsKept
  <2> QED
    BY <1>5, <2>1, <2>2, <2>3 DEF SyncParent
<1>6. CASE WriteTemp(c) \/ SyncTemp(c)
  <2>1. /\ call'[c].path = f /\ call'[c].step \in {"sync temp", "rename"}
        /\ call'[c].found = call[c].found /\ call'[c].todo = call[c].todo
        /\ call'[c].step = "rename" => call'[c].temp = "durable"
        /\ call[c].step \in {"write temp", "sync temp"} /\ UNCHANGED <<entry, lost>>
    <3>1. CASE WriteTemp(c)
      BY <1>1, <1>2, <3>1 DEF WriteTemp, CallAt, Call
    <3>2. CASE SyncTemp(c)
      BY <1>1, <1>2, <3>2 DEF SyncTemp, CallAt, Call
    <3> QED
      BY <1>6, <3>1, <3>2
  <2> QED
    BY <1>1, <1>2, <1>3, <2>1, FilesAlone DEF CallProgress, DirsKept
<1>7. CASE Rename(c)
  <2>1. /\ call'[c].path = f /\ call'[c].step = "sync name" /\ call'[c].data = call[c].data
        /\ call'[c].found = call[c].found /\ call'[c].todo = call[c].todo
        /\ call[c].step = "rename"
    BY <1>1, <1>2, <1>7 DEF Rename, CallAt, Call
  <2>2. entry'[f] = call[c].data
    BY <1>1, <1>7 DEF Rename, Name, TypeOK, FilesTypeOK
  <2>3. \A d \in Dirs : entry'[d] = entry[d] /\ lost'[d] = lost[d]
    <3>1. \A d \in Dirs : d \in Entries /\ d # f
      BY <1>1, TreeAssumption DEF Entries
    <3>2. Name(f, call[c].data, Risk(call[c].temp))
      BY <1>1, <1>7 DEF Rename
    <3> QED
      BY <1>1, <3>1, <3>2 DEF Name, TypeOK, FilesTypeOK
  <2> QED
    BY <1>1, <1>2, <1>3, <1>7, <2>1, <2>2, <2>3 DEF CallProgress, Durable, Present
<1> QED
  BY <1>4, <1>5, <1>6, <1>7 DEF WriteStep

(* No device saves. *)
LEMMA SavedStays ==
  ASSUME TypeOK, UNCHANGED saved
  PROVE  \A s \in Syncs : saved[s] <= saved'[s]
<1> SUFFICES ASSUME NEW s \in Syncs
             PROVE  saved[s] <= saved'[s]
  OBVIOUS
<1>1. saved[s] \in Nat /\ saved'[s] = saved[s]
  BY FilesAssumption DEF TypeOK, DaemonTypeOK
<1> QED
  BY <1>1

(* A sync whose file and entry a step leaves alone; and all of them. *)
LEMMA SyncAside ==
  ASSUME TypeOK, TypeOK', NEW s \in Syncs, SyncInv(s), manifest'[s] = manifest[s],
         saved[s] <= saved'[s], proc' = "off" \/ (proc # "off" /\ DirsKept /\ Kept(Path[s]))
  PROVE  SyncInv(s)'
<1>1. PICK later \in SUBSET Saves : later = {}
  OBVIOUS
<1>2. /\ manifest[s] # None => \A v \in later : v >= manifest[s].save
      /\ proc' = "off" \/ MayBe(Path[s])' \subseteq MayBe(Path[s]) \cup later
      /\ proc' = "off" \/ (proc # "off" /\ DirsKept)
  BY <1>1 DEF Kept
<1> QED
  BY <1>2, SyncGoesOn

LEMMA SyncsAside ==
  ASSUME TypeOK, TypeOK', \A s \in Syncs : SyncInv(s), UNCHANGED manifest,
         \A s \in Syncs : saved[s] <= saved'[s],
         proc' = "off" \/ (proc # "off" /\ DirsKept /\ \A f \in Files : Kept(f))
  PROVE  \A s \in Syncs : SyncInv(s)'
BY SyncAside, DaemonAssumption

(* A pass that is over. *)
LEMMA EndOf ==
  ASSUME TypeOK, TypeOK', NEW c \in Callers, End(c), UNCHANGED <<saved, manifest, entry, lost>>,
         \A b \in Callers \ {c} : call'[b] = call[b]
  PROVE  StepOf(c) /\ PassInv(c)'
<1>1. ~Passing(c)' /\ ~Calling(c)'
  BY DEF End, Passing, TypeOK, DaemonTypeOK
<1>2. \A s \in Syncs : saved[s] <= saved'[s]
  BY SavedStays
<1>3. \A b \in Callers \ {c} : pass'[b] = pass[b]
  BY DEF End, TypeOK, DaemonTypeOK
<1>4. \A s \in Syncs : mutex[s] \notin {None, c} => mutex'[s] = mutex[s]
  BY DEF End
<1>5. StepOf(c)
  BY <1>2, <1>3, <1>4, FilesAlone, DaemonAssumption DEF StepOf, Kept
<1> QED
  BY <1>1, <1>5 DEF PassInv, Exclusive, CallProgress, NotBehind, Recordable

(* A pass that goes on to q, without a call. *)
LEMMA GoesTo ==
  ASSUME TypeOK, TypeOK', NEW c \in Callers, NEW q \in Pass, pass' = [pass EXCEPT ![c] = q],
         UNCHANGED <<saved, manifest, entry, lost>>, ~Calling(c), UNCHANGED call,
         \A s \in Syncs : mutex[s] \notin {None, c} => mutex'[s] = mutex[s],
         q.step # "lock" => mutex'[q.sync] = c, q.stuck = "store" => q.step # "write",
         q.step \notin {"lock", "decide"} =>
           /\ q.data \in Saves /\ q.data <= saved[q.sync]
           /\ manifest[q.sync] # None => manifest[q.sync].save <= q.data,
         q.trusts # None =>
           /\ q.step \in {"record", "record source"}
           /\ q.step = "record" => Survives(q.sync, q.data, q.trusts)
  PROVE  StepOf(c) /\ PassInv(c)'
<1>1. pass'[c] = q /\ \A b \in Callers \ {c} : pass'[b] = pass[b] /\ call'[b] = call[b]
  BY DEF TypeOK, DaemonTypeOK
<1>2. \A s \in Syncs : saved[s] <= saved'[s]
  BY SavedStays
<1>3. StepOf(c)
  BY <1>1, <1>2, FilesAlone, DaemonAssumption DEF StepOf, Kept
<1>4. Exclusive(c)' /\ CallProgress(c)' /\ NotBehind(c)'
  BY <1>1 DEF Exclusive, CallProgress, NotBehind, Passing, Calling
<1>5. q.trusts # None /\ q.step = "record" => Survives(q.sync, q.data, q.trusts)'
  BY DEF Survives, MayBe, Durable, Present
<1>6. Recordable(c)'
  BY <1>1, <1>5 DEF Recordable
<1> QED
  BY <1>3, <1>4, <1>6 DEF PassInv

(* A pass goes on: each step of it, and of its WriteAtomic, leaves what another
   pass holds alone and keeps its own invariant and every sync's. *)
LEMMA PassGoesOn ==
  ASSUME TypeOK, TypeOK', SaveIsOldOrNew, \A s \in Syncs : SyncInv(s),
         NEW c \in Callers, PassInv(c), Working(c)
  PROVE  StepOf(c) /\ PassInv(c)' /\ \A s \in Syncs : SyncInv(s)'
<1>1. Passing(c) /\ pass[c] \in Pass /\ proc # "off" /\ proc' = proc
  <2>1. Passing(c) /\ Running /\ proc' = proc
    BY DEF Working, Work, Decide, Write, Written, Record, RecordSource, PassFails, PassAt,
           daemonVars, processVars
  <2> QED
    BY <2>1 DEF Passing, TypeOK, DaemonTypeOK, Running
<1>2. PICK s \in Syncs : s = pass[c].sync
  BY <1>1 DEF Pass
<1>3. saved[s] \in Nat /\ Path[s] \in Files /\ Path[s] \in Entries
  BY FilesAssumption, DaemonAssumption DEF TypeOK, DaemonTypeOK, Entries
<1>4. CASE Decide(c)
  <2> DEFINE q == [pass[c] EXCEPT !.step = Verdict(c, s), !.data = saved[s]]
  <2>1. /\ pass[c].step = "decide" /\ pass[c].stuck = "no"
        /\ UNCHANGED <<saved, manifest, fileVars>>
        /\ End(c) \/ (pass' = [pass EXCEPT ![c] = q] /\ UNCHANGED mutex
                      /\ Verdict(c, s) \in {"write", "record"})
    <3>1. Verdict(c, s) \in {"write", "return", "record", "conflict"}
      BY DEF Verdict
    <3> QED
      BY <1>2, <1>4, <3>1 DEF Decide, PassAt
  <2>2. ~Calling(c) /\ mutex[s] = c /\ pass[c].trusts = None
    BY <1>1, <1>2, <2>1 DEF TypeOK, DaemonTypeOK, PassInv, Exclusive, Recordable
  <2>3. \A t \in Syncs : SyncInv(t)'
    BY <1>1, <2>1, SyncsAside, SavedStays, FilesAlone DEF fileVars, Decide
  <2>4. CASE End(c)
    BY <2>1, <2>3, <2>4, EndOf DEF fileVars
  <2>5. CASE /\ pass' = [pass EXCEPT ![c] = q] /\ UNCHANGED mutex
             /\ Verdict(c, s) \in {"write", "record"}
    <3>1. /\ q \in Pass /\ q.sync = s /\ q.step \in {"write", "record"} /\ q.data = saved[s]
          /\ q.stuck = "no" /\ q.trusts = None
      BY <1>1, <1>2, <2>1, <2>2, <2>5 DEF Pass, TypeOK, DaemonTypeOK
    <3>2. manifest[s] # None => manifest[s].save <= saved[s]
      BY DEF SyncInv
    <3>3. saved[s] \in Saves /\ saved[s] <= saved[s]
      BY <1>3 DEF TypeOK, DaemonTypeOK
    <3> HIDE DEF q
    <3>4. StepOf(c) /\ PassInv(c)'
      BY <2>1, <2>2, <2>5, <3>1, <3>2, <3>3, GoesTo DEF fileVars
    <3> QED
      BY <2>3, <3>4
  <2> QED
    BY <2>1, <2>4, <2>5
<1>5. CASE Write(c)
  <2>1. /\ pass[c].step = "write" /\ UNCHANGED <<pass, mutex, saved, manifest, proc>>
        /\ mutex[s] = c
        /\ pass[c].data \in Saves /\ pass[c].data <= saved[s] /\ pass[c].data \in Nat
        /\ manifest[s] # None => manifest[s].save <= pass[c].data
    BY <1>1, <1>2, <1>5, FilesAssumption
       DEF Write, PassAt, daemonVars, passVars, syncVars, processVars, PassInv, Exclusive, NotBehind
  <2>2. NotBehind(c)' /\ Recordable(c)'
    BY <1>2, <2>1 DEF PassInv, NotBehind, Recordable, Passing
  <2>3. \A t \in Syncs : saved[t] <= saved'[t]
    BY <2>1, SavedStays
  <2>4. CASE BeginWrite(c, Path[pass[c].sync], pass[c].data)
    <3>1. /\ ~Calling(c) /\ UNCHANGED <<entry, lost>>
          /\ call' = [call EXCEPT ![c] =
               [path |-> Path[s], data |-> pass[c].data, step |-> "mkdir", todo |-> Missing(Path[s]),
                found |-> Ancestors[Path[s]] \ Missing(Path[s]), temp |-> "none"]]
      BY <1>2, <2>4 DEF BeginWrite
    <3>2. /\ \A b \in Callers \ {c} : call'[b] = call[b]
          /\ call'[c] = [path |-> Path[s], data |-> pass[c].data, step |-> "mkdir",
                         todo |-> Missing(Path[s]),
                         found |-> Ancestors[Path[s]] \ Missing(Path[s]), temp |-> "none"]
      BY <3>1 DEF TypeOK, FilesTypeOK
    <3>3. Exclusive(c)'
      BY <1>2, <2>1, <3>2 DEF PassInv, Exclusive, Passing, Calling
    <3>4. CallProgress(c)'
      BY <3>2 DEF CallProgress
    <3>5. StepOf(c)
      BY <2>1, <2>3, <3>1, <3>2, FilesAlone, DaemonAssumption DEF StepOf, Kept
    <3>6. \A t \in Syncs : SyncInv(t)'
      BY <1>1, <2>1, <2>3, <3>1, SyncsAside, FilesAlone
    <3> QED
      BY <2>2, <3>3, <3>4, <3>5, <3>6 DEF PassInv
  <2>5. CASE WriteStep(c)
    <3>1. /\ \A e \in Entries : Present(e) => Present(e)'
          /\ \A b \in Callers : (Calling(b)' => Calling(b)) /\ (b # c => call'[b] = call[b])
          /\ Calling(c)' => call'[c].path = call[c].path /\ call'[c].data = call[c].data
                            /\ call'[c].found = call[c].found
      BY <2>5, WriteStepTyped DEF TypeOK, PassInv
    <3>2. CallProgress(c)' /\ (~Rename(c) => DirsKept /\ \A f \in Files : Kept(f))
      BY <2>5, <3>1, ProgressOn DEF PassInv
    <3>3. Exclusive(c)'
      BY <2>1, <3>1 DEF PassInv, Exclusive, Passing
    <3>4. CASE ~Rename(c)
      <4>1. StepOf(c)
        BY <2>1, <2>3, <3>1, <3>2, <3>4, DaemonAssumption DEF StepOf, Kept
      <4>2. \A t \in Syncs : SyncInv(t)'
        BY <1>1, <2>1, <2>3, <3>2, <3>4, SyncsAside
      <4> QED
        BY <2>2, <3>2, <3>3, <4>1, <4>2 DEF PassInv
    <3>5. CASE Rename(c)
      <4> DEFINE v == pass[c].data
      <4>1. Name(Path[s], v, {})
        BY <1>2, <3>5 DEF Rename, Risk, CallAt, Calling, PassInv, CallProgress, Exclusive
      <4>2. /\ \A e \in Entries \ {Path[s]} : entry'[e] = entry[e] /\ lost'[e] = lost[e]
            /\ MayBe(Path[s])' \subseteq MayBe(Path[s]) \cup {v}
        BY <1>3, <4>1 DEF Name, MayBe, TypeOK, FilesTypeOK
      <4>3. DirsKept
        BY <1>3, <3>1, <4>2, TreeAssumption DEF DirsKept, Durable, Entries
      <4>4. \A f \in Files \ {Path[s]} : Kept(f)
        BY <4>2 DEF Kept, MayBe, Entries
      <4>5. StepOf(c)
        BY <2>1, <2>3, <3>1, <4>2, <4>3, <4>4, DaemonAssumption DEF StepOf, Kept
      <4>6. ASSUME NEW t \in Syncs
            PROVE  SyncInv(t)'
        <5>1. CASE t = s
          <6>1. PICK later \in SUBSET Saves : later = {v}
            BY <2>1
          <6>2. /\ manifest[s] # None => \A n \in later : n >= manifest[s].save
                /\ MayBe(Path[s])' \subseteq MayBe(Path[s]) \cup later
            <7>1. manifest[s] # None => manifest[s].save \in Nat
              BY FilesAssumption DEF TypeOK, DaemonTypeOK
            <7> QED
              BY <2>1, <4>2, <6>1, <7>1
          <6>3. manifest'[s] = manifest[s] /\ saved[s] <= saved'[s] /\ SyncInv(s)
            BY <2>1, <2>3
          <6> QED
            BY <1>1, <4>3, <5>1, <6>2, <6>3, SyncGoesOn
        <5>2. CASE t # s
          BY <1>1, <2>1, <2>3, <4>3, <4>4, <5>2, DaemonAssumption, SyncAside
        <5> QED
          BY <5>1, <5>2
      <4> QED
        BY <2>2, <3>2, <3>3, <4>5, <4>6 DEF PassInv
    <3> QED
      BY <3>4, <3>5
  <2> QED
    BY <1>5, <2>4, <2>5 DEF Write
<1>6. CASE Written(c)
  <2> DEFINE q == [pass[c] EXCEPT !.step = "record", !.trusts = call[c].found]
  <2>1. /\ Calling(c) /\ call[c] \in Call /\ call[c].step = "sync name" /\ call[c].path = Path[s]
        /\ pass[c].step = "write" /\ pass[c].stuck = "no" /\ mutex[s] = c
        /\ call[c].data = pass[c].data /\ call[c].todo = {} /\ entry[Path[s]] = pass[c].data
        /\ Missing(Path[s]) = {}
        /\ \A d \in Ancestors[Path[s]] \ call[c].found : Durable(d)
    BY <1>1, <1>2, <1>6 DEF Written, PassAt, Published, CallAt, Calling, TypeOK, FilesTypeOK,
                            PassInv, Exclusive, CallProgress
  <2>2. /\ SyncDir(Parent[Path[s]]) /\ UNCHANGED entry /\ call' = [call EXCEPT ![c] = None]
        /\ pass' = [pass EXCEPT ![c] = q] /\ UNCHANGED <<mutex, saved, manifest>>
    BY <1>6, <2>1 DEF Written, Published, syncVars
  <2>3. /\ pass'[c] = q /\ q.sync = s /\ q.step = "record" /\ q.data = pass[c].data
        /\ q.stuck = "no" /\ q.trusts = call[c].found
        /\ \A b \in Callers \ {c} : pass'[b] = pass[b] /\ call'[b] = call[b]
        /\ ~Calling(c)'
    BY <1>1, <1>2, <2>1, <2>2 DEF Pass, TypeOK, DaemonTypeOK, FilesTypeOK, Calling
  <2> HIDE DEF q
  <2>4. /\ DirsKept /\ \A f \in Files : Kept(f)
        /\ lost'[Path[s]] = lost[Path[s]] \cap {Torn}
    BY <1>3, <2>2, SyncDirKept
  <2>5. StepOf(c)
    BY <2>2, <2>3, <2>4, SavedStays, DaemonAssumption DEF StepOf, Kept
  <2>6. \A t \in Syncs : SyncInv(t)'
    BY <1>1, <2>2, <2>4, SyncsAside, SavedStays
  <2>7. PICK data \in Saves, trusts \in {call[c].found} : data = pass[c].data
    BY <1>1, <2>1 DEF PassInv, NotBehind
  <2>8. Survives(s, data, trusts)'
    <3>1. MayBe(Path[s])' = {data}
      BY <1>3, <2>1, <2>2, <2>4, <2>7 DEF MayBe, SaveIsOldOrNew
    <3>2. \A d \in Ancestors[Path[s]] \ trusts : Durable(d)'
      BY <1>3, <2>1, <2>4, <2>7, AboveIsClosed DEF DirsKept
    <3> QED
      BY <2>7, <3>1, <3>2, FilesAssumption DEF Survives
  <2>9. Exclusive(c)' /\ CallProgress(c)' /\ NotBehind(c)' /\ Recordable(c)'
    <3>1. Exclusive(c)' /\ CallProgress(c)'
      BY <2>1, <2>2, <2>3 DEF Exclusive, CallProgress
    <3>2. NotBehind(c)'
      BY <1>1, <1>2, <2>1, <2>2, <2>3 DEF PassInv, NotBehind
    <3>3. Recordable(c)'
      BY <2>3, <2>7, <2>8 DEF Recordable
    <3> QED
      BY <3>1, <3>2, <3>3
  <2> QED
    BY <2>5, <2>6, <2>9 DEF PassInv
<1>7. CASE Record(c)
  <2> DEFINE q == [pass[c] EXCEPT !.step = "record source"]
  <2>1. /\ pass[c].step = "record" /\ pass[c].stuck = "no" /\ ~Calling(c) /\ mutex[s] = c
        /\ pass' = [pass EXCEPT ![c] = q] /\ UNCHANGED <<mutex, saved, fileVars>>
        /\ manifest' = [manifest EXCEPT ![s] = [save |-> pass[c].data, trusts |-> pass[c].trusts]]
    BY <1>1, <1>2, <1>7 DEF Record, PassAt, TypeOK, DaemonTypeOK, PassInv, Exclusive
  <2>2. pass[c].data \in Saves /\ pass[c].data \in Nat /\ pass[c].data <= saved[s]
    BY <1>1, <1>2, <2>1, FilesAssumption DEF PassInv, NotBehind
  <2>3. /\ pass'[c] = q /\ q.sync = s /\ q.step = "record source" /\ q.data = pass[c].data
        /\ q.stuck = "no" /\ \A b \in Callers \ {c} : pass'[b] = pass[b] /\ call'[b] = call[b]
    BY <1>1, <1>2, <2>1 DEF Pass, TypeOK, DaemonTypeOK, fileVars
  <2>4. /\ manifest'[s] = [save |-> pass[c].data, trusts |-> pass[c].trusts]
        /\ \A t \in Syncs \ {s} : manifest'[t] = manifest[t]
    BY <2>1 DEF TypeOK, DaemonTypeOK
  <2>5. DirsKept /\ \A f \in Files : Kept(f)
    BY <2>1, FilesAlone DEF fileVars
  <2> HIDE DEF q
  <2>6. StepOf(c)
    BY <2>1, <2>3, <2>4, <2>5, SavedStays, DaemonAssumption DEF StepOf, Kept
  <2>7. PassInv(c)'
    <3>1. Exclusive(c)' /\ CallProgress(c)'
      BY <2>1, <2>3 DEF Exclusive, CallProgress, Calling, fileVars
    <3>2. NotBehind(c)'
      <4>1. /\ manifest'[s].save = pass[c].data /\ pass[c].data <= pass[c].data
            /\ saved'[s] = saved[s]
        BY <2>1, <2>2, <2>4
      <4> QED
        BY <2>2, <2>3, <4>1 DEF NotBehind
    <3>3. Recordable(c)'
      BY <2>3 DEF Recordable
    <3> QED
      BY <3>1, <3>2, <3>3 DEF PassInv
  <2>8. SyncInv(s)'
    <3>1. PICK data \in Nat, trusts \in {pass[c].trusts} : data = pass[c].data
      BY <2>2
    <3>2. trusts # None => Survives(s, data, trusts)
      BY <1>1, <1>2, <2>1, <3>1 DEF PassInv, Recordable
    <3>3. trusts # None => Survives(s, data, trusts)'
      BY <2>5, <3>2, SurvivesUntouched, DaemonAssumption
    <3> QED
      BY <2>1, <2>2, <2>4, <3>1, <3>3 DEF SyncInv
  <2>9. ASSUME NEW t \in Syncs \ {s}
        PROVE  SyncInv(t)'
    BY <1>1, <2>1, <2>4, <2>5, SyncAside, SavedStays, DaemonAssumption
  <2> QED
    BY <2>6, <2>7, <2>8, <2>9
<1>8. CASE RecordSource(c) \/ PassFails(c)
  <2>1. /\ End(c) /\ UNCHANGED <<saved, manifest, entry, lost>>
        /\ \A b \in Callers \ {c} : call'[b] = call[b]
    BY <1>8 DEF RecordSource, PassFails, CallFails, syncVars, fileVars, TypeOK, FilesTypeOK
  <2> QED
    BY <1>1, <2>1, EndOf, SyncsAside, SavedStays, FilesAlone
<1> QED
  BY <1>4, <1>5, <1>6, <1>7, <1>8 DEF Working, Work

(* A pass takes its mutex, hangs, or waits no longer; it begins. *)
LEMMA PassWaits ==
  ASSUME TypeOK, TypeOK', NEW c \in Callers, PassInv(c),
         Locking(c) \/ Waiting(c) \/ Hang(c) \/ Expire(c)
  PROVE  StepOf(c) /\ PassInv(c)'
<1>1. UNCHANGED <<saved, manifest, entry, lost, call>>
  BY DEF Locking, Lock, Waiting, DeadlinePasses, GiveUp, Hang, Expire, syncVars, fileVars
<1>2. Passing(c) /\ pass[c] \in Pass
  <2>1. Passing(c)
    BY DEF Locking, Lock, PassAt, Waiting, DeadlinePasses, GiveUp, Hang, Expire
  <2> QED
    BY <2>1 DEF Passing, TypeOK, DaemonTypeOK
<1>3. CASE GiveUp(c)
  BY <1>1, <1>3, EndOf DEF GiveUp
<1>4. CASE Locking(c)
  <2> DEFINE q == [pass[c] EXCEPT !.step = "decide"]
  <2>1. /\ pass[c].step = "lock" /\ pass[c].stuck = "no" /\ pass' = [pass EXCEPT ![c] = q]
        /\ mutex' = [mutex EXCEPT ![pass[c].sync] = c] /\ mutex[pass[c].sync] = None
    BY <1>4 DEF Locking, Lock, PassAt
  <2>2. /\ q \in Pass /\ q.sync = pass[c].sync /\ q.step = "decide" /\ q.stuck = "no"
        /\ q.trusts = None /\ ~Calling(c)
    BY <1>2, <2>1 DEF Pass, PassInv, Recordable, TypeOK, DaemonTypeOK
  <2>3. /\ mutex'[q.sync] = c /\ \A s \in Syncs : mutex[s] \notin {None, c} => mutex'[s] = mutex[s]
    BY <1>2, <2>1, <2>2 DEF Pass, TypeOK, DaemonTypeOK
  <2> HIDE DEF q
  <2> QED
    BY <1>1, <2>1, <2>2, <2>3, GoesTo
<1>5. CASE Hang(c) \/ Expire(c)
  <2> DEFINE Alike(q) == /\ pass' = [pass EXCEPT ![c] = q]
                         /\ q.step = pass[c].step /\ q.sync = pass[c].sync
                         /\ q.data = pass[c].data /\ q.trusts = pass[c].trusts
                         /\ q.stuck = "store" => q.step # "write"
  <2>1. PICK q \in Pass : Alike(q)
    <3>1. ASSUME NEW stuck \in {"file", "store"}, pass' = [pass EXCEPT ![c].stuck = stuck],
                 stuck = "store" => pass[c].step # "write"
          PROVE  \E q \in Pass : Alike(q)
      <4>1. [pass[c] EXCEPT !.stuck = stuck] \in Pass
        BY <1>2 DEF Pass
      <4> QED
        BY <1>2, <3>1, <4>1 DEF Pass
    <3>2. ASSUME pass' = [pass EXCEPT ![c].expired = TRUE]
          PROVE  \E q \in Pass : Alike(q)
      <4>1. [pass[c] EXCEPT !.expired = TRUE] \in Pass
        BY <1>2 DEF Pass
      <4> QED
        BY <1>2, <3>2, <4>1 DEF Pass, PassInv, Exclusive
    <3> QED
      <4> HIDE DEF Alike
      <4>1. CASE Hang(c)
        BY <3>1, <4>1 DEF Hang
      <4>2. CASE Expire(c)
        BY <3>2, <4>2 DEF Expire
      <4> QED
        BY <1>5, <4>1, <4>2
  <2>2. UNCHANGED mutex
    BY <1>5 DEF Hang, Expire
  <2>3. StepOf(c)
    BY <1>1, <2>1, <2>2, SavedStays, FilesAlone, DaemonAssumption
       DEF StepOf, Kept, TypeOK, DaemonTypeOK
  <2>4. pass'[c] = q
    BY <2>1 DEF TypeOK, DaemonTypeOK
  <2>5. Exclusive(c)' /\ NotBehind(c)'
    BY <1>1, <1>2, <2>1, <2>2, <2>4 DEF PassInv, Exclusive, NotBehind, Calling, Passing
  <2>6. CallProgress(c)'
    BY <1>1 DEF PassInv, CallProgress, Calling, Missing, Present, Durable
  <2>7. Recordable(c)'
    <3>1. PICK s, data, trusts : s = q.sync /\ data = q.data /\ trusts = q.trusts
      OBVIOUS
    <3>2. Survives(s, data, trusts) => Survives(s, data, trusts)'
      BY <1>1 DEF Survives, MayBe, Durable, Present
    <3> QED
      BY <1>2, <2>1, <2>4, <3>1, <3>2 DEF PassInv, Recordable
  <2> QED
    BY <2>3, <2>5, <2>6, <2>7 DEF PassInv
<1> QED
  BY <1>3, <1>4, <1>5 DEF Waiting, DeadlinePasses

(* A pass begins. *)
LEMMA PassBegins ==
  ASSUME TypeOK, TypeOK', NEW c \in Callers, NEW s \in Syncs, ~Passing(c), Begin(c, s),
         UNCHANGED <<saved, manifest, mutex, fileVars>>
  PROVE  StepOf(c) /\ PassInv(c)'
<1> DEFINE q == [sync |-> s, step |-> "lock", data |-> None, trusts |-> None,
                 expired |-> FALSE, stuck |-> "no"]
<1>1. /\ q \in Pass /\ q.step = "lock" /\ q.trusts = None /\ q.stuck = "no"
      /\ pass' = [pass EXCEPT ![c] = q] /\ ~Calling(c)
  BY DEF Pass, Begin, TypeOK, DaemonTypeOK
<1> HIDE DEF q
<1> QED
  BY <1>1, GoesTo DEF fileVars

(* The steps that no pass takes. *)
LEMMA NobodySteps ==
  ASSUME TypeOK, TypeOK', UNCHANGED <<passVars, manifest, fileVars>>,
         \A s \in Syncs : saved[s] <= saved'[s]
  PROVE  StepOf(None)
BY FilesAlone, DaemonAssumption DEF StepOf, Kept, passVars, fileVars

(* The process dies, or the power goes. *)
LEMMA PassesGone ==
  ASSUME TypeOK, TypeOK',
         Stopping \/ (Crash /\ ServerDies) \/ (PowerLoss /\ ScanDies /\ UpDies(Processes)),
         \A s \in Syncs : SyncInv(s)
  PROVE  /\ \A c \in Callers : PassInv(c)'
         /\ \A s \in Syncs : SyncInv(s)'
<1>1. \A c \in Callers : ~Passing(c)' /\ ~Calling(c)'
  BY TypeDies
<1>2. /\ UNCHANGED <<saved, manifest>>
      /\ proc' = "off" \/ (proc # "off" /\ UNCHANGED <<entry, lost>>)
  BY DEF Stopping, Exit, Crash, PowerLoss, CallsDie, Dies, syncVars
<1>3. \A s \in Syncs : SyncInv(s)'
  BY <1>2, SyncsAside, SavedStays, FilesAlone
<1> QED
  BY <1>1, <1>3 DEF PassInv, Exclusive, CallProgress, NotBehind, Recordable

(* Nothing but a power loss turns the machine off, and it stays off. *)
LEMMA StaysOff ==
  ASSUME [Next]_vars, proc = "off"
  PROVE  proc' = "off"
<1>1. CASE UNCHANGED vars \/ Walk \/ CommandRuns \/ \E p \in Processes : Upgrade(p)
  BY <1>1 DEF vars, Walk, Running, CommandRuns, Upgrade, daemonVars, processVars
<1>2. CASE Lifecycle
  BY <1>2 DEF Lifecycle, Start, Serve, StartFails, Terminate, Stopping, Exit, Crash, PowerLoss
<1>3. CASE Looping \/ \E c \in Callers : Locking(c) \/ Working(c) \/ Waiting(c)
  BY <1>3 DEF Looping, Sweep, ListSyncs, PollOne, SweepEnds, Tick, Locking, Lock, Waiting,
              DeadlinePasses, GiveUp, Expire, Working, Work, Decide, Write, Written, Record,
              RecordSource, PassFails, PassAt, Running
<1>4. CASE \/ \E c \in Callers : Hang(c) \/ Expire(c) \/ \E s \in Syncs : Request(c, s)
           \/ \E s \in Syncs : DeviceSaves(s)
  BY <1>4 DEF Hang, Expire, Request, DeviceSaves, Running
<1> QED
  BY <1>1, <1>2, <1>3, <1>4 DEF Next

(* HostIInv is inductive. *)
LEMMA HostStep ==
  ASSUME HostIInv, SchemaInv, [Next]_vars
  PROVE  HostIInv'
<1>1. TypeOK /\ TypeOK' /\ ScanInv'
  BY TypeStep, ScanStep DEF HostIInv
<1> USE <1>1
<1> DEFINE Rest == /\ SaveIsOldOrNew' /\ \A c \in Callers : PassInv(c)'
                   /\ \A s \in Syncs : SyncInv(s)'
<1> SUFFICES Rest
  BY DEF HostIInv
<1>2. ASSUME NEW c, StepOf(c)
      PROVE  SaveIsOldOrNew' /\ \A b \in Callers \ {c} : PassInv(b)'
  BY <1>2, OthersGoOn, FilesAssumption DEF HostIInv, SaveIsOldOrNew, StepOf
<1>3. ASSUME UNCHANGED <<manifest, fileVars>>, \A s \in Syncs : saved[s] <= saved'[s]
      PROVE  \A s \in Syncs : SyncInv(s)'
  BY <1>3, StaysOff, FilesAlone, SyncsAside DEF HostIInv, fileVars
<1>4. ASSUME NEW c \in Callers, Working(c)
      PROVE  Rest
  <2>1. StepOf(c) /\ PassInv(c)' /\ \A s \in Syncs : SyncInv(s)'
    BY <1>4, PassGoesOn DEF HostIInv
  <2> QED
    BY <1>2, <2>1
<1>5. ASSUME NEW c \in Callers, Locking(c) \/ Waiting(c) \/ Hang(c) \/ Expire(c)
      PROVE  Rest
  <2>1. StepOf(c) /\ PassInv(c)'
    BY <1>5, PassWaits DEF HostIInv
  <2>2. UNCHANGED <<saved, manifest, fileVars>>
    BY <1>5 DEF Locking, Lock, Waiting, DeadlinePasses, GiveUp, Hang, Expire, syncVars
  <2> QED
    BY <1>2, <1>3, <2>1, <2>2, SavedStays
<1>6. ASSUME NEW c \in Callers, NEW s \in Syncs, ~Passing(c), Begin(c, s),
             UNCHANGED <<mutex, syncVars, fileVars>>
      PROVE  Rest
  <2>1. UNCHANGED <<saved, manifest, mutex, fileVars>>
    BY <1>6 DEF syncVars
  <2> QED
    BY <1>2, <1>3, <1>6, <2>1, PassBegins, SavedStays
<1>7. ASSUME UNCHANGED <<passVars, manifest, fileVars>>, \A s \in Syncs : saved[s] <= saved'[s]
      PROVE  Rest
  <2>1. StepOf(None)
    BY <1>7, NobodySteps
  <2>2. None \notin Callers
    BY FilesAssumption
  <2> QED
    BY <1>2, <1>3, <1>7, <2>1, <2>2
<1>8. CASE UNCHANGED vars \/ Walk \/ CommandRuns \/ \E p \in Processes : Upgrade(p)
  BY <1>7, <1>8, SavedStays DEF vars, Walk, CommandRuns, Upgrade, daemonVars, syncVars
<1>9. CASE \/ Start /\ UpBegins(Server) /\ UNCHANGED scanVars
           \/ Serve /\ UpEnds(Server) /\ UNCHANGED scanVars
           \/ StartFails /\ UpFails(Server) /\ UNCHANGED scanVars
           \/ Terminate /\ UNCHANGED <<scanVars, migrationVars>>
  <2>1. UNCHANGED <<passVars, manifest, saved, fileVars>>
    BY <1>9 DEF Start, Serve, StartFails, Terminate, syncVars
  <2> QED
    BY <1>7, <2>1, SavedStays
<1>10. CASE Stopping \/ (Crash /\ ServerDies) \/ (PowerLoss /\ ScanDies /\ UpDies(Processes))
  <2>1. \A f \in Files : MayBe(f)' \subseteq MayBe(f) \cup {None}
    <3>1. CASE Stopping \/ Crash
      BY <3>1 DEF Stopping, Exit, Crash, CallsDie, MayBe
    <3>2. CASE PowerLoss
      <4>1. /\ lost' = [e \in Entries |-> {}]
            /\ \A e \in Entries : entry'[e] \in MayBe(e) \cup {None}
        BY <3>2 DEF PowerLoss, FilesLost, Outcomes
      <4> QED
        BY <4>1 DEF MayBe, Entries
    <3> QED
      BY <1>10, <3>1, <3>2
  <2>2. SaveIsOldOrNew'
    BY <2>1, FilesAssumption DEF HostIInv, SaveIsOldOrNew
  <2> QED
    BY <1>10, <2>2, PassesGone DEF HostIInv
<1>11. CASE Looping
  <2>1. CASE PollOne
    <3>1. PICK s \in Syncs : Begin(Sweeper, s) /\ ~Passing(Sweeper)
      BY <2>1 DEF PollOne, TypeOK, DaemonTypeOK
    <3> QED
      BY <1>6, <2>1, <3>1, DaemonAssumption DEF PollOne
  <2>2. CASE ListSyncs \/ SweepEnds \/ Tick
    <3>1. UNCHANGED <<passVars, manifest, saved, fileVars>>
      BY <2>2 DEF ListSyncs, SweepEnds, Tick, syncVars
    <3> QED
      BY <1>7, <3>1, SavedStays
  <2> QED
    BY <1>11, <2>1, <2>2 DEF Looping, Sweep
<1>12. ASSUME NEW c \in Callers, NEW s \in Syncs, Request(c, s)
       PROVE  Rest
  BY <1>6, <1>12 DEF Request
<1>13. ASSUME NEW s \in Syncs, DeviceSaves(s)
       PROVE  Rest
  <2>1. \A t \in Syncs : saved[t] <= saved'[t]
    <3> SUFFICES ASSUME NEW t \in Syncs
                 PROVE  saved[t] <= saved'[t]
      OBVIOUS
    <3>1. saved[t] \in Nat /\ saved'[t] \in {saved[t], saved[t] + 1}
      BY <1>13, FilesAssumption DEF DeviceSaves, TypeOK, DaemonTypeOK
    <3> QED
      BY <3>1
  <2> QED
    BY <1>7, <1>13, <2>1 DEF DeviceSaves
<1> HIDE DEF Rest
<1> QED
  BY <1>4, <1>5, <1>8, <1>9, <1>10, <1>11, <1>12, <1>13 DEF Next, Lifecycle

(* It holds at first. *)
LEMMA HostStart ==
  ASSUME Init
  PROVE  HostIInv
<1>1. /\ \A c \in Callers : ~Passing(c) /\ ~Calling(c)
      /\ \A s \in Syncs : manifest[s] = None /\ ~Scanning
  BY DEF Init, DaemonInit, FilesInit, ScanInit, Passing, Calling, Scanning
<1>2. SaveIsOldOrNew
  BY FilesAssumption DEF Init, FilesInit, SaveIsOldOrNew, MayBe, Entries
<1>3. ScanInv
  BY DEF Init, ScanInit, ScanInv, Scanning
<1> QED
  BY <1>1, <1>2, <1>3, TypeInit
     DEF HostIInv, PassInv, Exclusive, CallProgress, NotBehind, Recordable, SyncInv

-----------------------------------------------------------------------------
(* The theorems *)

(* The inductive invariant: between two steps of whatever kind, the calls, the
   passes that make them and the manifest agree with the files. *)
THEOREM HostInvariantHolds == Spec => []HostIInv
<1>1. Init => HostIInv /\ SchemaInv
  BY HostStart, SchemaStart
<1>2. HostIInv /\ SchemaInv /\ [Next]_vars => (HostIInv /\ SchemaInv)'
  BY HostStep, SchemaStep
<1> QED
  BY <1>1, <1>2, PTL DEF Spec

(* Every state of the machine is well typed, and on the share nothing lies below
   a directory that is not there. *)
THEOREM TypeCorrect == Spec => []TypeOK
<1>1. HostIInv => TypeOK
  BY DEF HostIInv
<1> QED
  BY <1>1, HostInvariantHolds, PTL

(* WriteAtomic's fsync before its rename: whatever calls overlap or fail, and
   whenever the power goes, a file holds an old save or the new one. *)
THEOREM SaveIsOldOrNewHolds == Spec => []SaveIsOldOrNew
<1>1. HostIInv => SaveIsOldOrNew
  BY DEF HostIInv
<1> QED
  BY <1>1, HostInvariantHolds, PTL

(* What the power leaves when it goes. *)
LEMMA PowerTakesNothingRecorded ==
  ASSUME HostIInv, PowerLoss, NEW s \in Syncs,
         manifest[s] # None, manifest[s].trusts # None
  PROVE  \/ entry'[Path[s]] \in Saves /\ entry'[Path[s]] >= manifest[s].save
         \/ \E d \in manifest[s].trusts : entry'[d] = None
<1>1. Survives(s, manifest[s].save, manifest[s].trusts) /\ Path[s] \in Entries
  BY DaemonAssumption DEF PowerLoss, HostIInv, SyncInv, Entries
<1> DEFINE Below(old) == [e \in Entries |->
             IF \E d \in Ancestors[e] : old[d] = None THEN None ELSE old[e]]
<1>2. PICK old : (\A e \in Entries : old[e] \in MayBe(e)) /\ entry' = Below(old)
  BY DEF PowerLoss, FilesLost, Outcomes
<1>3. \A e \in Entries : entry'[e] = IF \E d \in Ancestors[e] : old[d] = None THEN None ELSE old[e]
  BY <1>2
<1> HIDE DEF Below
<1>4. CASE \A d \in Ancestors[Path[s]] : old[d] # None
  BY <1>1, <1>2, <1>3, <1>4 DEF Survives
<1>5. ASSUME NEW d \in Ancestors[Path[s]], old[d] = None
      PROVE  \E x \in manifest[s].trusts : entry'[x] = None
  <2>1. d \in Entries /\ entry'[d] = None
    BY <1>1, <1>3, <1>5, AboveTransitive
  <2>2. d \in manifest[s].trusts
    BY <1>1, <1>2, <1>5, <2>1 DEF Survives, Durable, Present, MayBe
  <2> QED
    BY <2>1, <2>2
<1> QED
  BY <1>4, <1>5

(* WriteAtomic's fsyncs of the directories: a save whose write was reported is not
   taken back by a power loss, whatever was in flight, but with a directory that the
   write found in place. *)
THEOREM RecordedSurvivesPowerLossHolds == Spec => RecordedSurvivesPowerLoss
<1>1. HostIInv /\ [Next]_vars =>
        [PowerLoss =>
           \A s \in Syncs :
             manifest[s] # None /\ manifest[s].trusts # None =>
               \/ entry'[Path[s]] \in Saves /\ entry'[Path[s]] >= manifest[s].save
               \/ \E d \in manifest[s].trusts : entry'[d] = None]_vars
  BY PowerTakesNothingRecorded
<1> QED
  BY <1>1, HostInvariantHolds, PTL DEF Spec, RecordedSurvivesPowerLoss

(* A walk that was not cut off has found every save that was there from its
   beginning on, though the engine makes directories and replaces files meanwhile. *)
THEOREM ScanFindsSettledHolds == Spec => []ScanFindsSettled
<1>1. HostIInv => ScanFindsSettled
  BY DEF HostIInv, ScanInv, ScanFindsSettled
<1> QED
  BY <1>1, HostInvariantHolds, PTL
=============================================================================
