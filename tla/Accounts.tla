------------------------------ MODULE Accounts ------------------------------
(***************************************************************************)
(* People: the users table and its transactions (internal/store), the      *)
(* requests that read and write it (internal/web/users.go, handlers.go),   *)
(* the sessions kept in the server's memory (session.go) and the           *)
(* `retrosync user set` command, another process (cmd/retrosync/user.go).   *)
(*                                                                          *)
(* Statements of a transaction are separate steps at Postgres' default     *)
(* isolation, READ COMMITTED: a statement sees what was committed when it   *)
(* began, waits for a row another transaction has locked and then looks at  *)
(* the row again.  A transaction's last write and its commit are one step:  *)
(* nobody can see what lies between.                                        *)
(*                                                                          *)
(* A password stands for its hash; argon2's cost, and loginSem that bounds   *)
(* it, are left out, as are display names.  Whether a user owns devices is   *)
(* left open.                                                                *)
(***************************************************************************)
EXTENDS Naturals, FiniteSets

Roles == {"admin", "user"}

CONSTANTS
  Users,       \* user ids, in the order of ORDER BY id
  Passwords,
  Requests,    \* requests and commands that may run at once
  Tokens,      \* session tokens; one that is free is a fresh one
  None         \* no row, no session, no role

ASSUME AccountsAssumption ==
  /\ Users \subseteq Nat
  /\ None \notin Requests \cup [role: Roles, pw: Passwords]

(* The table is finite: of any users, one has the last id. *)
ASSUME FiniteTableAssumption ==
  \A S \in SUBSET Users : S # {} => \E u \in S : \A v \in S : v <= u

VARIABLES
  users,      \* the users table: a row, or None
  lock,       \* the request whose transaction holds the row lock, or None
  sessions,   \* sessionManager.sessions: a session, or None
  req         \* what each request does

vars == <<users, lock, sessions, req>>

Row == [role: Roles, pw: Passwords]

(* pw and loose are history: the password the session was minted on, and
   whether its revocation was over by then, or never tried. *)
Session == [user: Users, pw: Passwords, loose: BOOLEAN]

(* `user set` without flags but the password, and with --display or --role. *)
Commands == {"set password", "set profile"}

Ops == {"login", "create", "edit", "reset", "delete", "change"} \cup Commands

(* id: the user written; seen: the role an edit has read before; todo: admin
   rows the guard's SELECT has still to lock; got: those it has returned. *)
Request ==
  [op: Ops, id: Users, role: Roles \cup {None}, pw: Passwords \cup {None},
   pc: {"verify", "load", "insert", "password", "profile", "tx", "revoke", "mint"},
   seen: Roles \cup {None}, todo: SUBSET Users, got: SUBSET Users]

ASSUME NoRequestAssumption == None \notin Request

Admins == {u \in Users : users[u] # None /\ users[u].role = "admin"}

Live == {t \in Tokens : sessions[t] # None}

At(r, pc) == req[r] # None /\ req[r].pc = pc

Go(r, pc) == req' = [req EXCEPT ![r].pc = pc]

Answer(r) == req' = [req EXCEPT ![r] = None]

(* lock once r's transaction has ended. *)
Unlocked(r) == [u \in Users |-> IF lock[u] = r THEN None ELSE lock[u]]

Available(r, u) == lock[u] \in {None, r}

-----------------------------------------------------------------------------
(* Sessions *)

(* The user a cookie's token stands for, as of the Store. *)
CurrentUser(t) ==
  IF sessions[t] # None /\ users[sessions[t].user] # None
  THEN sessions[t].user ELSE None

RequireAuth(t) == CurrentUser(t) # None

RequireAdmin(t) == RequireAuth(t) /\ users[CurrentUser(t)].role = "admin"

(* History: nobody revokes u's sessions for the write that now happens. *)
Loosened(u) ==
  [t \in Tokens |->
     IF sessions[t] # None /\ sessions[t].user = u
     THEN [sessions[t] EXCEPT !.loose = TRUE] ELSE sessions[t]]

SessionsWithout(u) ==
  [t \in Tokens |->
     IF sessions[t] # None /\ sessions[t].user = u THEN None ELSE sessions[t]]

Drop(t) ==
  /\ sessions[t] # None
  /\ sessions' = [sessions EXCEPT ![t] = None]
  /\ UNCHANGED <<users, lock, req>>

HandleLogout(t) == Drop(t)

(* get finds the session past its week. *)
Expire(t) == Drop(t)

(* create's last step of a login or of a change of password.  No token: the
   random source failed; the login is refused, the change of password sends
   its caller to /login. *)
Mint(r) ==
  /\ At(r, "mint")
  /\ \/ \E t \in Tokens \ Live :
          LET u == req[r].id
              late == users[u] = None \/ users[u].pw # req[r].pw
          IN sessions' = [sessions EXCEPT ![t] =
                            [user |-> u, pw |-> req[r].pw, loose |-> late]]
     \/ UNCHANGED sessions
  /\ Answer(r)
  /\ UNCHANGED <<users, lock>>

-----------------------------------------------------------------------------
(* Requests begin *)

Begin(r, op, id, role, pw, pc) ==
  /\ req[r] = None
  /\ req' = [req EXCEPT ![r] =
               [op |-> op, id |-> id, role |-> role, pw |-> pw, pc |-> pc,
                seen |-> None, todo |-> {}, got |-> {}]]
  /\ UNCHANGED <<users, lock, sessions>>

HandleLogin(r, u, p) == Begin(r, "login", u, None, p, "verify")

(* The middleware has let the request through: session, role, and the CSRF
   token that lives in the session. *)
HandleCreateUser(r, t, u, role, p) ==
  RequireAdmin(t) /\ Begin(r, "create", u, role, p, "insert")

HandleEditUser(r, t, u, role) ==
  RequireAdmin(t) /\ Begin(r, "edit", u, role, None, "load")

HandleResetPassword(r, t, u, p) ==
  RequireAdmin(t) /\ u # CurrentUser(t) /\ Begin(r, "reset", u, None, p, "load")

(* No read before the guard. *)
HandleDeleteUser(r, t, u) ==
  RequireAdmin(t) /\ u # CurrentUser(t) /\ Begin(r, "delete", u, None, None, "profile")

HandleChangeOwnPassword(r, t, p) ==
  RequireAuth(t) /\ Begin(r, "change", CurrentUser(t), None, p, "load")

(* parseUserSet; role = None: no --role.  The hash is made before any read. *)
RunUserSet(r, op, u, role, p) ==
  /\ op = "set password" => role = None
  /\ Begin(r, op, u, role, p, "load")

-----------------------------------------------------------------------------
(* Reads and password work *)

(* The row is read and the password verified against what was read. *)
Authenticate(r) ==
  /\ At(r, "verify")
  /\ IF users[req[r].id] # None /\ users[req[r].id].pw = req[r].pw
     THEN Go(r, "mint") ELSE Answer(r)
  /\ UNCHANGED <<users, lock, sessions>>

(* Faulty: the role is written whether it was given or not. *)
RoleToSetAsGiven(q) == q.role

(* The role `user set` goes on with: none given, it is the one just read. *)
RoleToSet(q) == IF q.op = "set profile" /\ q.role = None THEN users[q.id].role ELSE q.role

(* GetUser.  Also the current password's check, against what was read, and the
   new one's hash. *)
Load(r) ==
  /\ At(r, "load")
  /\ LET q == req[r] IN
     IF users[q.id] # None
     THEN req' = [req EXCEPT ![r].pc = IF q.op = "edit" THEN "profile" ELSE "password",
                             ![r].role = RoleToSet(q),
                             ![r].seen = IF q.op = "edit" THEN users[q.id].role ELSE None]
     ELSE IF q.op \in Commands THEN Go(r, "insert") ELSE Answer(r)
  /\ UNCHANGED <<users, lock, sessions>>

-----------------------------------------------------------------------------
(* Writes *)

CreateUser(r) ==
  /\ At(r, "insert")
  /\ users' = IF users[req[r].id] # None THEN users   \* ErrConflict
              ELSE [users EXCEPT ![req[r].id] =
                      [role |-> IF req[r].role = None THEN "user" ELSE req[r].role,
                       pw |-> req[r].pw]]
  /\ Answer(r)
  /\ UNCHANGED <<lock, sessions>>

(* Faulty: one UPDATE of the whole row, with the role a new user would get. *)
WithPasswordWhole(row, q) ==
  [role |-> IF q.role = None THEN "user" ELSE q.role, pw |-> q.pw]

(* UPDATE users SET pw_hash. *)
WithPassword(row, q) == [row EXCEPT !.pw = q.pw]

(* Faulty: the sessions of the other devices are kept. *)
AfterPasswordKeeping(op) ==
  CASE op = "change" -> "mint"
    [] op = "set profile" -> "profile"
    [] OTHER -> "answer"

(* What follows a password write. *)
AfterPassword(op) ==
  CASE op \in {"reset", "change"} -> "revoke"
    [] op = "set profile" -> "profile"
    [] OTHER -> "answer"

(* r's next step, with nothing kept but what it still needs. *)
GoOrAnswer(r, pc) ==
  IF pc = "answer" THEN Answer(r)
  ELSE req' = [req EXCEPT ![r].pc = pc,
                          ![r].role = IF pc = "profile" THEN @ ELSE None,
                          ![r].pw = IF req[r].op = "change" THEN @ ELSE None,
                          ![r].seen = None, ![r].got = {}]

UpdateUserPassword(r) ==
  LET q == req[r] IN
  /\ At(r, "password") /\ lock[q.id] = None
  /\ IF users[q.id] = None THEN Answer(r) /\ UNCHANGED <<users, sessions>>
     ELSE /\ users' = [users EXCEPT ![q.id] = WithPassword(@, q)]
          /\ \/ /\ GoOrAnswer(r, AfterPassword(q.op))
                /\ sessions' = IF q.op \in Commands THEN Loosened(q.id) ELSE sessions
             \/ Answer(r) /\ sessions' = Loosened(q.id)  \* the reply is lost
  /\ UNCHANGED lock

(* A write that may take an admin away. *)
Guarded(q) == q.op = "delete" \/ q.role # "admin"

(* guardLastAdmin's SELECT begins: its snapshot. *)
Snapshot(r) ==
  /\ At(r, "profile")
  /\ req' = [req EXCEPT ![r].pc = "tx",
                        ![r].todo = IF Guarded(req[r]) THEN Admins ELSE {}]
  /\ UNCHANGED <<users, lock, sessions>>

(* Faulty: no ORDER BY. *)
NextRowsAny(q) == q.todo

(* The row that the SELECT locks next. *)
NextRows(q) == {u \in q.todo : \A v \in q.todo : u <= v}

(* FOR UPDATE, in the order of the ids.  A row that is gone is skipped; one
   that is no longer an admin's is locked, and not returned. *)
LockRow(r) ==
  /\ At(r, "tx")
  /\ \E u \in NextRows(req[r]) :
       /\ Available(r, u)
       /\ lock' = IF users[u] = None THEN lock ELSE [lock EXCEPT ![u] = r]
       /\ req' = [req EXCEPT ![r].todo = @ \ {u},
                             ![r].got = IF u \in Admins THEN @ \cup {u} ELSE @]
  /\ UNCHANGED <<users, sessions>>

(* Faulty: any admin will do, the one written included. *)
LastAdminWrong(q) == Guarded(q) /\ q.got = {}

LastAdmin(q) == q.got = {q.id}

(* The guard's verdict, then the UPDATE or DELETE and the commit. *)
Refuse(r) ==
  /\ At(r, "tx") /\ req[r].todo = {} /\ LastAdmin(req[r])
  /\ Answer(r) /\ lock' = Unlocked(r)
  /\ UNCHANGED <<users, sessions>>

(* A role's change revokes sessions if it differs from the role read before. *)
AfterWrite(q) ==
  IF q.op = "delete" \/ (q.op = "edit" /\ q.seen # q.role) THEN "revoke" ELSE "answer"

Write(r) ==
  LET q == req[r] IN
  /\ At(r, "tx") /\ q.todo = {} /\ ~LastAdmin(q)
  /\ Available(r, q.id)
  /\ lock' = Unlocked(r)
  /\ IF users[q.id] = None THEN Answer(r) /\ UNCHANGED <<users, sessions>>
     ELSE /\ users' = [users EXCEPT ![q.id] =
                         IF q.op = "delete" THEN None ELSE [@ EXCEPT !.role = q.role]]
          /\ \/ GoOrAnswer(r, AfterWrite(q)) /\ UNCHANGED sessions
             \/ /\ Answer(r)   \* the reply is lost
                /\ sessions' = IF q.op = "delete" THEN Loosened(q.id) ELSE sessions

(* A statement fails, a deadlock's victim's included, or the client has gone;
   the transaction is rolled back.
   The foreign key of a user who owns devices is one such failure. *)
Fail(r) ==
  /\ req[r] # None /\ req[r].pc \notin {"revoke", "mint"}
  /\ Answer(r) /\ lock' = Unlocked(r)
  /\ UNCHANGED <<users, sessions>>

(* The rows r's next statement may have to wait for. *)
Awaited(r) ==
  IF ~At(r, "tx") THEN {}
  ELSE IF req[r].todo = {} THEN {req[r].id}
  ELSE NextRows(req[r])

(* Transactions that wait for one another. *)
Deadlocked(R) ==
  \A r \in R : \E u \in Awaited(r) : lock[u] \in R \ {r}

(* destroyUser. *)
Revoke(r) ==
  /\ At(r, "revoke")
  /\ sessions' = SessionsWithout(req[r].id)
  /\ IF req[r].op = "change" THEN Go(r, "mint") ELSE Answer(r)
  /\ UNCHANGED <<users, lock>>

(* The server restarts: sessions are gone, and its requests with their
   transactions.  The command is another process. *)
Restart ==
  LET dead == {r \in Requests : req[r] # None /\ req[r].op \notin Commands} IN
  /\ sessions' = [t \in Tokens |-> None]
  /\ req' = [r \in Requests |-> IF r \in dead THEN None ELSE req[r]]
  /\ lock' = [u \in Users |-> IF lock[u] \in dead THEN None ELSE lock[u]]
  /\ UNCHANGED users

-----------------------------------------------------------------------------
(* An empty table: the command creates the first administrator. *)
Init ==
  /\ users = [u \in Users |-> None] /\ lock = [u \in Users |-> None]
  /\ sessions = [t \in Tokens |-> None]
  /\ req = [r \in Requests |-> None]

Arrive(r) ==
  \/ \E u \in Users, p \in Passwords : HandleLogin(r, u, p)
  \/ \E t \in Live, u \in Users, role \in Roles, p \in Passwords :
       \/ HandleCreateUser(r, t, u, role, p)
       \/ HandleEditUser(r, t, u, role)
       \/ HandleResetPassword(r, t, u, p)
       \/ HandleDeleteUser(r, t, u)
       \/ HandleChangeOwnPassword(r, t, p)
  \/ \E op \in Commands, u \in Users, role \in Roles \cup {None}, p \in Passwords :
       RunUserSet(r, op, u, role, p)

Proceed(r) ==
  \/ Authenticate(r) \/ Load(r) \/ CreateUser(r) \/ UpdateUserPassword(r)
  \/ Snapshot(r) \/ LockRow(r) \/ Refuse(r) \/ Write(r)
  \/ Fail(r) \/ Revoke(r) \/ Mint(r)

Next ==
  \/ \E r \in Requests : Arrive(r) \/ Proceed(r)
  \/ \E t \in Tokens : HandleLogout(t) \/ Expire(t)
  \/ Restart

Spec == Init /\ [][Next]_vars

-----------------------------------------------------------------------------
(* Properties *)

TypeOK ==
  /\ users \in [Users -> Row \cup {None}]
  /\ lock \in [Users -> Requests \cup {None}]
  /\ sessions \in [Tokens -> Session \cup {None}]
  /\ req \in [Requests -> Request \cup {None}]

AnyAdmin == Admins # {}

(* guardLastAdmin: "a write that would leave zero admins is refused". *)
AdminRemains == [][AnyAdmin => AnyAdmin']_vars

(* The way around the guard: every admin its snapshot held was demoted or
   deleted before it could lock the row, while the user it writes became one. *)
BlindWrite(r) == At(r, "tx") /\ Guarded(req[r]) /\ req[r].got = {} /\ Write(r)

(* guardLastAdmin leaves an administrator, by all writes but such a one. *)
AdminRemainsUnlessBlind ==
  [][AnyAdmin => AnyAdmin' \/ \E r \in Requests : BlindWrite(r)]_vars

Table == INSTANCE UserTable

(* The statements of the Postgres store are, such a write apart, one atomic
   operation of the memory store at their commit: neither a wait for a row nor
   what was read before it shows. *)
ImplementsUserTable ==
  Table!Init /\ [][Table!Next \/ \E r \in Requests : BlindWrite(r)]_users

(* A session outlives a change of the password it was minted on only if the
   change was stored before the session was, if the change's own revocation is
   still to come, or if the server never got to revoke (the command, a lost
   reply). *)
SessionsFollowPasswords ==
  \A t \in Live :
    LET s == sessions[t] IN
    \/ s.loose
    \/ users[s.user] # None /\ users[s.user].pw = s.pw
    \/ \E r \in Requests : At(r, "revoke") /\ req[r].id = s.user

(* guardLastAdmin: "no deadlock between two concurrent guards".  Transactions
   that wait for one another have one among them that is done with its guard. *)
GuardsDoNotDeadlock ==
  \A R \in (SUBSET Requests) \ {{}} : Deadlocked(R) => \E r \in R : req[r].todo = {}
=============================================================================
