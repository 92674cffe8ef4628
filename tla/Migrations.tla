----------------------------- MODULE Migrations -----------------------------
(***************************************************************************)
(* Startup's migrations (internal/migrate), run by every process that opens*)
(* the database: the server, and `retrosync user set` beside it.  A         *)
(* version's scripts and its row in schema_migrations are one transaction.  *)
(***************************************************************************)
EXTENDS Naturals

CONSTANTS
  Versions,    \* how many there are, numbered from 1
  Processes,
  NotMigrating \* a process that is not in Up

ASSUME MigrationsAssumption == Versions \in Nat

VARIABLES
  applied,    \* schema_migrations
  upgrade     \* where each process is in Up

migrationVars == <<applied, upgrade>>

Migrating(p) == upgrade[p] # NotMigrating

UpAt(p, step) == Migrating(p) /\ upgrade[p].step = step

(* load has ordered the versions. *)
UpBegins(p) ==
  /\ ~Migrating(p)
  /\ upgrade' = [upgrade EXCEPT ![p] = [step |-> "check", version |-> 1]]
  /\ UNCHANGED applied

(* SELECT EXISTS, outside the transaction that follows. *)
Check(p) ==
  /\ UpAt(p, "check") /\ upgrade[p].version <= Versions
  /\ upgrade' = IF upgrade[p].version \in applied
                THEN [upgrade EXCEPT ![p].version = @ + 1]
                ELSE [upgrade EXCEPT ![p].step = "apply"]
  /\ UNCHANGED applied

(* applyOne's commit.  Another process may have committed the version since the
   check: the primary key then refuses the row, and UpFails. *)
ApplyOne(p) ==
  /\ UpAt(p, "apply") /\ upgrade[p].version \notin applied
  /\ applied' = applied \cup {upgrade[p].version}
  /\ upgrade' = [upgrade EXCEPT ![p] = [step |-> "check", version |-> @.version + 1]]

UpFails(p) ==
  /\ Migrating(p)
  /\ upgrade' = [upgrade EXCEPT ![p] = NotMigrating]
  /\ UNCHANGED applied

(* Faulty: the last version is not looked at. *)
UpEndsEarly(p) ==
  /\ UpAt(p, "check") /\ upgrade[p].version >= Versions
  /\ upgrade' = [upgrade EXCEPT ![p] = NotMigrating]
  /\ UNCHANGED applied

UpEnds(p) ==
  /\ UpAt(p, "check") /\ upgrade[p].version > Versions
  /\ upgrade' = [upgrade EXCEPT ![p] = NotMigrating]
  /\ UNCHANGED applied

UpDies(P) ==
  /\ upgrade' = [p \in Processes |-> IF p \in P THEN NotMigrating ELSE upgrade[p]]
  /\ UNCHANGED applied

MigrationsInit ==
  /\ applied = {}
  /\ upgrade = [p \in Processes |-> NotMigrating]

MigrationsTypeOK ==
  /\ \E n \in 0..Versions : applied = 1..n
  /\ upgrade \in [Processes ->
       [step: {"check", "apply"}, version: 1..(Versions + 1)] \cup {NotMigrating}]
=============================================================================
