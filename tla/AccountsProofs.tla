--------------------------- MODULE AccountsProofs ---------------------------
(***************************************************************************)
(* The users table and its sessions, for any number of users, requests,     *)
(* commands and tokens: its types, the last-admin guard, its refinement by  *)
(* the store's statements, the order of its row locks, and the revocation   *)
(* of sessions.                                                              *)
(***************************************************************************)
EXTENDS Accounts, TLAPS

(* What a request carries as far as it still needs it. *)
Carries(q) ==
  /\ q.pc = "load" => q.op \in {"edit", "reset", "change"} \cup Commands
  /\ q.pc = "password" => q.op \in {"reset", "change"} \cup Commands
  /\ \/ q.pc \in {"verify", "insert", "password", "mint"}
     \/ q.pc = "load" /\ q.op # "edit"
     \/ q.pc = "revoke" /\ q.op = "change"
     => q.pw \in Passwords
  /\ \/ q.pc = "load" /\ q.op = "edit"
     \/ q.pc = "password" /\ q.op = "set profile"
     \/ q.pc \in {"profile", "tx"} /\ q.op # "delete"
     => q.role \in Roles
  /\ q.pc # "tx" => q.todo = {} /\ q.got = {}

Control == \A r \in Requests : req[r] # None => Carries(req[r])

(* Rows are locked by transactions only. *)
LocksHeld == \A u \in Users : lock[u] # None => At(lock[u], "tx")

(* What a guard's SELECT returned is locked, and an admin's, until it ends. *)
GotHeld ==
  \A r \in Requests : req[r] # None =>
    \A u \in req[r].got : u \in Admins /\ lock[u] = r

(* The SELECT locks upwards. *)
LocksAscend ==
  \A r \in Requests : req[r] # None =>
    \A u \in Users : lock[u] = r => \A v \in req[r].todo : u < v

TypeInv == TypeOK /\ Control

GuardInv == LocksHeld /\ GotHeld /\ LocksAscend

AccountsInv == TypeInv /\ GuardInv /\ SessionsFollowPasswords

-----------------------------------------------------------------------------
(* Types *)

(* A request's step to q, which carries what it needs. *)
LEMMA Moves ==
  ASSUME TypeInv, NEW r \in Requests, NEW q \in Request \cup {None},
         q # None => Carries(q), req' = [req EXCEPT ![r] = q]
  PROVE  req' \in [Requests -> Request \cup {None}] /\ Control'
BY DEF TypeInv, TypeOK, Control

(* A request in flight, and what it carries. *)
LEMMA InFlight ==
  ASSUME TypeInv, NEW r \in Requests, req[r] # None
  PROVE  req[r] \in Request /\ Carries(req[r])
BY DEF TypeInv, TypeOK, Control

(* A row of the table. *)
LEMMA RowType ==
  ASSUME TypeOK, NEW u \in Users, users[u] # None
  PROVE  users[u] \in Row /\ users[u].role \in Roles
BY DEF TypeOK, Row

(* The requests that may arrive. *)
LEMMA Fresh ==
  ASSUME NEW op \in Ops, NEW u \in Users, NEW role \in Roles \cup {None},
         NEW p \in Passwords \cup {None}, NEW pc \in {"verify", "load", "insert", "profile"}
  PROVE  [op |-> op, id |-> u, role |-> role, pw |-> p, pc |-> pc, seen |-> None,
          todo |-> {}, got |-> {}] \in Request
BY DEF Request

(* A request that carries what it needs begins. *)
LEMMA TypeBegin ==
  ASSUME TypeInv, NEW r \in Requests, NEW op \in Ops, NEW u \in Users,
         NEW role \in Roles \cup {None}, NEW p \in Passwords \cup {None},
         NEW pc \in {"verify", "load", "insert", "profile"}, Begin(r, op, u, role, p, pc),
         pc = "load" => op \in {"edit", "reset", "change"} \cup Commands,
         pc \in {"verify", "insert"} \/ (pc = "load" /\ op # "edit") => p \in Passwords,
         pc = "load" /\ op = "edit" => role \in Roles,
         pc = "profile" => op = "delete"
  PROVE  TypeInv'
<1> DEFINE q == [op |-> op, id |-> u, role |-> role, pw |-> p, pc |-> pc, seen |-> None,
                 todo |-> {}, got |-> {}]
<1>1. q \in Request /\ Carries(q)
  <2>1. /\ q.op = op /\ q.role = role /\ q.pw = p /\ q.pc = pc
        /\ q.todo = {} /\ q.got = {}
    OBVIOUS
  <2>2. q \in Request
    BY Fresh
  <2> HIDE DEF q
  <2>3. Carries(q)
    BY <2>1 DEF Carries
  <2> QED
    BY <2>2, <2>3
<1>2. req' = [req EXCEPT ![r] = q] /\ UNCHANGED <<users, lock, sessions>>
  BY DEF Begin
<1> HIDE DEF q
<1> QED
  BY <1>1, <1>2, Moves DEF TypeInv, TypeOK

(* A request or a command arrives. *)
LEMMA TypeArrive ==
  ASSUME TypeInv, NEW r \in Requests, Arrive(r)
  PROVE  TypeInv'
<1>1. ASSUME NEW u \in Users, NEW p \in Passwords, HandleLogin(r, u, p)
      PROVE  TypeInv'
  BY <1>1, TypeBegin DEF HandleLogin, Ops
<1>2. ASSUME NEW t \in Live, NEW u \in Users, NEW role \in Roles, NEW p \in Passwords,
             \/ HandleCreateUser(r, t, u, role, p) \/ HandleEditUser(r, t, u, role)
             \/ HandleResetPassword(r, t, u, p) \/ HandleDeleteUser(r, t, u)
      PROVE  TypeInv'
  BY <1>2, TypeBegin
     DEF HandleCreateUser, HandleEditUser, HandleResetPassword, HandleDeleteUser, Ops
<1>3. ASSUME NEW t \in Live, NEW p \in Passwords, HandleChangeOwnPassword(r, t, p)
      PROVE  TypeInv'
  <2>1. CurrentUser(t) \in Users
    BY <1>3 DEF HandleChangeOwnPassword, RequireAuth, CurrentUser, TypeInv, TypeOK, Live,
                Session
  <2> QED
    BY <1>3, <2>1, TypeBegin DEF HandleChangeOwnPassword, Ops
<1>4. ASSUME NEW op \in Commands, NEW u \in Users, NEW role \in Roles \cup {None},
             NEW p \in Passwords, RunUserSet(r, op, u, role, p)
      PROVE  TypeInv'
  BY <1>4, TypeBegin DEF RunUserSet, Ops, Commands
<1> QED
  BY <1>1, <1>2, <1>3, <1>4 DEF Arrive

(* A request ends. *)
LEMMA TypeAnswer ==
  ASSUME TypeInv, NEW r \in Requests, Answer(r)
  PROVE  req' \in [Requests -> Request \cup {None}] /\ Control'
BY Moves DEF Answer

(* A request goes on to the minting of a session. *)
LEMMA TypeGoMint ==
  ASSUME TypeInv, NEW r \in Requests, req[r] # None, Go(r, "mint"),
         req[r].pw \in Passwords, req[r].todo = {}, req[r].got = {}
  PROVE  req' \in [Requests -> Request \cup {None}] /\ Control'
<1> DEFINE q == [req[r] EXCEPT !.pc = "mint"]
<1>1. req[r] \in Request
  BY InFlight
<1>2. q \in Request
  BY <1>1 DEF Request
<1>3. q.pc = "mint" /\ q.pw \in Passwords /\ q.todo = {} /\ q.got = {}
  BY <1>1 DEF Request
<1>4. req' = [req EXCEPT ![r] = q]
  BY DEF Go
<1> HIDE DEF q
<1>5. Carries(q)
  BY <1>3 DEF Carries
<1> QED
  BY <1>2, <1>4, <1>5, Moves

(* A request is done with a write. *)
LEMMA TypeGoOrAnswer ==
  ASSUME TypeInv, NEW r \in Requests, req[r] # None,
         NEW pc \in {"answer", "revoke", "profile"}, GoOrAnswer(r, pc), req[r].todo = {},
         pc = "profile" => req[r].role \in Roles,
         pc = "revoke" /\ req[r].op = "change" => req[r].pw \in Passwords
  PROVE  req' \in [Requests -> Request \cup {None}] /\ Control'
<1>1. CASE pc = "answer"
  BY <1>1, TypeAnswer DEF GoOrAnswer
<1>2. CASE pc # "answer"
  <2> DEFINE q == [req[r] EXCEPT !.pc = pc,
                                 !.role = IF pc = "profile" THEN @ ELSE None,
                                 !.pw = IF req[r].op = "change" THEN @ ELSE None,
                                 !.seen = None, !.got = {}]
  <2>1. req[r] \in Request
    BY InFlight
  <2>2. q \in Request
    BY <1>2, <2>1 DEF Request
  <2>3. /\ q.pc = pc /\ q.todo = {} /\ q.got = {} /\ q.op = req[r].op
        /\ pc = "profile" => q.role \in Roles
        /\ pc = "revoke" /\ q.op = "change" => q.pw \in Passwords
    BY <2>1 DEF Request
  <2>4. req' = [req EXCEPT ![r] = q]
    BY <1>2 DEF GoOrAnswer
  <2> HIDE DEF q
  <2>5. Carries(q)
    BY <1>2, <2>3 DEF Carries
  <2> QED
    BY <2>2, <2>4, <2>5, Moves
<1> QED
  BY <1>1, <1>2

(* The rows that are read, and the requests that have read them. *)
LEMMA TypeLoad ==
  ASSUME TypeInv, NEW r \in Requests, Load(r)
  PROVE  TypeInv'
<1> DEFINE q == req[r]
<1>1. q # None /\ q.pc = "load" /\ q \in Request /\ Carries(q) /\ q.id \in Users
  BY InFlight DEF Load, At, Request
<1>2. UNCHANGED <<users, lock, sessions>>
  BY DEF Load
<1>3. req' \in [Requests -> Request \cup {None}] /\ Control'
  <2>1. CASE users[q.id] # None
    <3> DEFINE p == [q EXCEPT !.pc = IF q.op = "edit" THEN "profile" ELSE "password",
                              !.role = RoleToSet(q),
                              !.seen = IF q.op = "edit" THEN users[q.id].role ELSE None]
    <3>1. users[q.id].role \in Roles
      BY <1>1, <2>1, RowType DEF TypeInv
    <3>2. /\ RoleToSet(q) \in Roles \cup {None}
          /\ q.op \in {"edit", "set profile"} => RoleToSet(q) \in Roles
      BY <1>1, <3>1 DEF RoleToSet, Request, Carries
    <3>3. p \in Request
      BY <1>1, <3>1, <3>2 DEF Request
    <3>4. /\ p.op = q.op /\ p.pw = q.pw /\ p.role = RoleToSet(q)
          /\ p.pc = IF q.op = "edit" THEN "profile" ELSE "password"
          /\ p.todo = {} /\ p.got = {}
      BY <1>1 DEF Request, Carries
    <3>5. req' = [req EXCEPT ![r] = p]
      BY <2>1 DEF Load
    <3> HIDE DEF p
    <3>6. Carries(p)
      BY <1>1, <3>2, <3>4 DEF Carries, Commands
    <3> QED
      BY <3>3, <3>5, <3>6, Moves
  <2>2. CASE users[q.id] = None /\ q.op \in Commands
    <3> DEFINE p == [q EXCEPT !.pc = "insert"]
    <3>1. p \in Request
      BY <1>1 DEF Request
    <3>2. p.pw = q.pw /\ p.pc = "insert" /\ p.todo = {} /\ p.got = {}
      BY <1>1 DEF Request, Carries
    <3>3. req' = [req EXCEPT ![r] = p]
      BY <2>2 DEF Load, Go
    <3> HIDE DEF p
    <3>4. Carries(p)
      BY <1>1, <2>2, <3>2 DEF Carries, Commands
    <3> QED
      BY <3>1, <3>3, <3>4, Moves
  <2>3. CASE users[q.id] = None /\ q.op \notin Commands
    BY <2>3, TypeAnswer DEF Load
  <2> QED
    BY <2>1, <2>2, <2>3
<1> QED
  BY <1>2, <1>3 DEF TypeInv, TypeOK

(* The steps that write no row. *)
LEMMA TypeQuiet ==
  ASSUME TypeInv, NEW r \in Requests,
         Authenticate(r) \/ Refuse(r) \/ Fail(r) \/ Revoke(r) \/ Mint(r)
  PROVE  TypeInv'
<1>1. lock' \in [Users -> Requests \cup {None}] /\ UNCHANGED users
  BY DEF Authenticate, Refuse, Fail, Revoke, Mint, Unlocked, TypeInv, TypeOK
<1>2. sessions' \in [Tokens -> Session \cup {None}]
  <2>1. CASE Mint(r)
    <3>1. req[r] # None /\ req[r] \in Request /\ req[r].pw \in Passwords /\ req[r].id \in Users
      BY <2>1, InFlight DEF Mint, At, Carries, Request
    <3>2. \A late \in BOOLEAN :
            [user |-> req[r].id, pw |-> req[r].pw, loose |-> late] \in Session
      BY <3>1 DEF Session
    <3> QED
      BY <2>1, <3>2 DEF Mint, TypeInv, TypeOK
  <2>2. CASE Revoke(r)
    BY <2>2 DEF Revoke, SessionsWithout, TypeInv, TypeOK
  <2>3. CASE ~Mint(r) /\ ~Revoke(r)
    BY <2>3 DEF Authenticate, Refuse, Fail, TypeInv, TypeOK
  <2> QED
    BY <2>1, <2>2, <2>3
<1>3. req' \in [Requests -> Request \cup {None}] /\ Control'
  <2>1. CASE Answer(r)
    BY <2>1, TypeAnswer
  <2>2. CASE Go(r, "mint") /\ (Authenticate(r) \/ (Revoke(r) /\ req[r].op = "change"))
    <3>1. /\ req[r] # None /\ req[r].pw \in Passwords
          /\ req[r].todo = {} /\ req[r].got = {}
      BY <2>2, InFlight DEF Authenticate, Revoke, At, Carries
    <3> QED
      BY <2>2, <3>1, TypeGoMint
  <2> QED
    BY <2>1, <2>2 DEF Authenticate, Refuse, Fail, Revoke, Mint
<1> QED
  BY <1>1, <1>2, <1>3 DEF TypeInv, TypeOK

(* A guard's statement begins, or goes on by a row. *)
LEMMA TypeGuard ==
  ASSUME TypeInv, NEW r \in Requests, Snapshot(r) \/ LockRow(r)
  PROVE  TypeInv'
<1> DEFINE q == req[r]
<1>1. q # None /\ q \in Request /\ Carries(q)
  BY InFlight DEF Snapshot, LockRow, At
<1>2. PICK todo \in SUBSET Users, got \in SUBSET Users :
        /\ q.op # "delete" => q.role \in Roles
        /\ req' = [req EXCEPT ![r] = [q EXCEPT !.pc = "tx", !.todo = todo, !.got = got]]
        /\ lock' \in [Users -> Requests \cup {None}] /\ UNCHANGED <<users, sessions>>
  <2>1. CASE Snapshot(r)
    <3> DEFINE todo == IF Guarded(q) THEN Admins ELSE {}
    <3>1. todo \in SUBSET Users /\ q.got \in SUBSET Users
      BY <1>1 DEF Admins, Request
    <3>2. q.op # "delete" => q.role \in Roles
      BY <1>1, <2>1 DEF Snapshot, At, Carries
    <3>3. req' = [req EXCEPT ![r] = [q EXCEPT !.pc = "tx", !.todo = todo, !.got = q.got]]
      BY <1>1, <2>1 DEF Snapshot, Request
    <3> QED
      BY <2>1, <3>1, <3>2, <3>3 DEF Snapshot, TypeInv, TypeOK
  <2>2. CASE LockRow(r)
    <3>1. PICK u \in NextRows(q) :
            /\ lock' = IF users[u] = None THEN lock ELSE [lock EXCEPT ![u] = r]
            /\ req' = [req EXCEPT ![r].todo = @ \ {u},
                                  ![r].got = IF u \in Admins THEN @ \cup {u} ELSE @]
      BY <2>2 DEF LockRow
    <3> DEFINE todo == q.todo \ {u}
               got  == IF u \in Admins THEN q.got \cup {u} ELSE q.got
    <3>2. u \in Users /\ q.pc = "tx" /\ todo \in SUBSET Users /\ got \in SUBSET Users
      BY <1>1, <2>2 DEF NextRows, Request, LockRow, At
    <3>3. req' = [req EXCEPT ![r] = [q EXCEPT !.pc = "tx", !.todo = todo, !.got = got]]
      BY <1>1, <3>1, <3>2 DEF Request
    <3>4. lock' \in [Users -> Requests \cup {None}]
      BY <3>1, <3>2 DEF TypeInv, TypeOK
    <3> QED
      BY <1>1, <2>2, <3>2, <3>3, <3>4 DEF LockRow, Carries
  <2> QED
    BY <2>1, <2>2
<1> DEFINE p == [q EXCEPT !.pc = "tx", !.todo = todo, !.got = got]
<1>3. p \in Request /\ p.pc = "tx" /\ p.op = q.op /\ p.role = q.role
  BY <1>1 DEF Request
<1>4. req' = [req EXCEPT ![r] = p]
  BY <1>2
<1> HIDE DEF p
<1>5. Carries(p)
  BY <1>2, <1>3 DEF Carries
<1> QED
  BY <1>2, <1>3, <1>4, <1>5, Moves DEF TypeInv, TypeOK

(* Sessions stay sessions when nobody revokes them. *)
LEMMA TypeLoosened ==
  ASSUME TypeOK, NEW u
  PROVE  Loosened(u) \in [Tokens -> Session \cup {None}]
<1>1. \A t \in Tokens : sessions[t] # None =>
        [sessions[t] EXCEPT !.loose = TRUE] \in Session
  BY DEF TypeOK, Session
<1> QED
  BY <1>1 DEF Loosened, TypeOK

(* The steps that write a row. *)
LEMMA TypeWrite ==
  ASSUME TypeInv, NEW r \in Requests,
         CreateUser(r) \/ UpdateUserPassword(r) \/ Write(r)
  PROVE  TypeInv'
<1> DEFINE q == req[r]
<1>1. q # None /\ q \in Request /\ Carries(q) /\ q.id \in Users
  BY InFlight DEF CreateUser, UpdateUserPassword, Write, At, Request
<1>2. lock' \in [Users -> Requests \cup {None}]
  BY DEF CreateUser, UpdateUserPassword, Write, Unlocked, TypeInv, TypeOK
<1>3. sessions' \in [Tokens -> Session \cup {None}]
  BY TypeLoosened DEF CreateUser, UpdateUserPassword, Write, TypeInv, TypeOK
<1>4. CASE CreateUser(r)
  <2> DEFINE row == [role |-> IF q.role = None THEN "user" ELSE q.role, pw |-> q.pw]
  <2>1. q.pc = "insert" /\ q.pw \in Passwords /\ q.role \in Roles \cup {None}
    BY <1>1, <1>4 DEF CreateUser, At, Carries, Request
  <2>2. row \in Row
    BY <2>1 DEF Row, Roles
  <2> HIDE DEF row
  <2>3. users' = IF users[q.id] # None THEN users ELSE [users EXCEPT ![q.id] = row]
    BY <1>4 DEF CreateUser, row
  <2>4. users' \in [Users -> Row \cup {None}]
    BY <1>1, <2>2, <2>3 DEF TypeInv, TypeOK
  <2>5. req' \in [Requests -> Request \cup {None}] /\ Control'
    BY <1>4, TypeAnswer DEF CreateUser
  <2> QED
    BY <1>2, <1>3, <2>4, <2>5 DEF TypeInv, TypeOK
<1>5. CASE UpdateUserPassword(r)
  <2>1. /\ q.pc = "password" /\ q.pw \in Passwords /\ q.todo = {}
        /\ q.op \in {"reset", "change"} \cup Commands
        /\ q.op = "set profile" => q.role \in Roles
    BY <1>1, <1>5 DEF UpdateUserPassword, At, Carries
  <2>2. users' \in [Users -> Row \cup {None}]
    <3>1. users[q.id] # None => WithPassword(users[q.id], q) \in Row
      BY <1>1, <2>1, RowType DEF WithPassword, Row, TypeInv
    <3> QED
      BY <1>1, <1>5, <3>1 DEF UpdateUserPassword, TypeInv, TypeOK
  <2>3. /\ AfterPassword(q.op) \in {"answer", "revoke", "profile"}
        /\ AfterPassword(q.op) = "profile" => q.role \in Roles
    BY <2>1 DEF AfterPassword, Commands
  <2>4. req' \in [Requests -> Request \cup {None}] /\ Control'
    <3>1. Answer(r) \/ GoOrAnswer(r, AfterPassword(q.op))
      BY <1>5 DEF UpdateUserPassword
    <3> QED
      BY <1>1, <2>1, <2>3, <3>1, TypeAnswer, TypeGoOrAnswer
  <2> QED
    BY <1>2, <1>3, <2>2, <2>4 DEF TypeInv, TypeOK
<1>6. CASE Write(r)
  <2>1. q.todo = {} /\ (q.op # "delete" => q.role \in Roles)
    BY <1>1, <1>6 DEF Write, At, Carries
  <2>2. users' \in [Users -> Row \cup {None}]
    <3>1. users[q.id] # None /\ q.op # "delete" =>
            [users[q.id] EXCEPT !.role = q.role] \in Row
      BY <1>1, <2>1, RowType DEF Row, TypeInv
    <3> QED
      BY <1>1, <1>6, <3>1 DEF Write, TypeInv, TypeOK
  <2>3. req' \in [Requests -> Request \cup {None}] /\ Control'
    <3>1. Answer(r) \/ GoOrAnswer(r, AfterWrite(q))
      BY <1>6 DEF Write
    <3>2. /\ AfterWrite(q) \in {"answer", "revoke"}
          /\ AfterWrite(q) = "revoke" => q.op # "change"
      BY DEF AfterWrite
    <3> QED
      BY <1>1, <2>1, <3>1, <3>2, TypeAnswer, TypeGoOrAnswer
  <2> QED
    BY <1>2, <1>3, <2>2, <2>3 DEF TypeInv, TypeOK
<1> QED
  BY <1>4, <1>5, <1>6

(* Sessions end, or the server restarts. *)
LEMMA TypeDrop ==
  ASSUME TypeInv, (\E t \in Tokens : HandleLogout(t) \/ Expire(t)) \/ Restart
  PROVE  TypeInv'
<1>1. CASE \E t \in Tokens : HandleLogout(t) \/ Expire(t)
  BY <1>1 DEF HandleLogout, Expire, Drop, TypeInv, TypeOK, Control
<1>2. CASE Restart
  <2>1. /\ users' = users /\ sessions' \in [Tokens -> Session \cup {None}]
        /\ lock' \in [Users -> Requests \cup {None}]
        /\ req' \in [Requests -> Request \cup {None}]
        /\ \A r \in Requests : req'[r] \in {None, req[r]}
    BY <1>2 DEF Restart, TypeInv, TypeOK
  <2> QED
    BY <2>1 DEF TypeInv, TypeOK, Control
<1> QED
  BY <1>1, <1>2

(* Every step keeps the types and what requests carry. *)
LEMMA TypeStep ==
  ASSUME TypeInv, [Next]_vars
  PROVE  TypeInv'
<1>1. CASE UNCHANGED vars
  BY <1>1 DEF vars, TypeInv, TypeOK, Control
<1>2. ASSUME NEW r \in Requests, Arrive(r) \/ Proceed(r)
      PROVE  TypeInv'
  BY <1>2, TypeArrive, TypeLoad, TypeQuiet, TypeGuard, TypeWrite DEF Proceed
<1> QED
  BY <1>1, <1>2, TypeDrop DEF Next

(* An empty table, and no request. *)
LEMMA TypeInit ==
  ASSUME Init
  PROVE  TypeInv
BY DEF Init, TypeInv, TypeOK, Control

(* Every row, session and request is well typed: a role the command did not
   give is filled in before it is written (runUserSet). *)
THEOREM TypeCorrect == Spec => []TypeOK
<1>1. TypeInv => TypeOK
  BY DEF TypeInv
<1> QED
  BY <1>1, TypeInit, TypeStep, PTL DEF Spec

-----------------------------------------------------------------------------
(* The guard *)

(* A step of a request that is in no transaction takes no lock and no admin. *)
LEMMA GuardAside ==
  ASSUME TypeInv, GuardInv, NEW r \in Requests, ~At(r, "tx"), lock' = lock,
         Admins \subseteq Admins', \A x \in Requests \ {r} : req'[x] = req[x],
         req'[r] # None => req'[r].got = {}
  PROVE  GuardInv'
<1>1. \A u \in Users : lock[u] # r
  BY AccountsAssumption DEF GuardInv, LocksHeld
<1>2. LocksHeld'
  BY <1>1 DEF GuardInv, LocksHeld, TypeInv, TypeOK, At
<1>3. GotHeld' /\ LocksAscend'
  BY <1>1 DEF GuardInv, GotHeld, LocksAscend
<1> QED
  BY <1>2, <1>3 DEF GuardInv

(* A transaction ends: its own locks go, and nobody else's admins. *)
LEMMA GuardEnds ==
  ASSUME TypeInv, GuardInv, NEW r \in Requests, lock' = Unlocked(r),
         \A u \in Admins : lock[u] \in {None, r} \/ u \in Admins',
         \A x \in Requests \ {r} : req'[x] = req[x],
         req'[r] # None => req'[r].got = {}
  PROVE  GuardInv'
<1>1. \A u \in Users : lock'[u] # r /\ lock'[u] \in {None, lock[u]}
  BY AccountsAssumption DEF Unlocked
<1>2. \A u \in Users : lock[u] # r => lock'[u] = lock[u]
  BY DEF Unlocked
<1>3. LocksHeld'
  BY <1>1 DEF GuardInv, LocksHeld, TypeInv, TypeOK, At
<1>4. GotHeld'
  <2> SUFFICES ASSUME NEW x \in Requests, req'[x] # None, NEW u \in req'[x].got
               PROVE  u \in Admins' /\ lock'[u] = x
    BY DEF GotHeld
  <2>1. x # r /\ req'[x] = req[x]
    OBVIOUS
  <2>2. u \in Admins /\ lock[u] = x
    BY <2>1 DEF GuardInv, GotHeld
  <2> QED
    BY <1>2, <2>1, <2>2, AccountsAssumption DEF Admins
<1>5. LocksAscend'
  BY <1>1, AccountsAssumption DEF GuardInv, LocksAscend
<1> QED
  BY <1>3, <1>4, <1>5 DEF GuardInv

(* The SELECT goes on by the lowest row that is left. *)
LEMMA GuardLocks ==
  ASSUME TypeInv, GuardInv, NEW r \in Requests, LockRow(r)
  PROVE  GuardInv'
<1> DEFINE q == req[r]
<1>1. q # None /\ q.pc = "tx" /\ q \in Request
  BY InFlight DEF LockRow, At
<1>2. PICK u \in NextRows(q) :
        /\ Available(r, u)
        /\ lock' = IF users[u] = None THEN lock ELSE [lock EXCEPT ![u] = r]
        /\ req' = [req EXCEPT ![r].todo = @ \ {u},
                              ![r].got = IF u \in Admins THEN @ \cup {u} ELSE @]
  BY DEF LockRow
<1>3. /\ u \in Users /\ u \in q.todo /\ q.todo \subseteq Users
      /\ \A v \in q.todo : u <= v
      /\ u \in Admins => users[u] # None
  BY <1>1 DEF NextRows, Request, Admins
<1>4. /\ \A x \in Requests \ {r} : req'[x] = req[x]
      /\ req'[r] # None /\ req'[r].pc = "tx" /\ req'[r].todo = q.todo \ {u}
      /\ req'[r].got = IF u \in Admins THEN q.got \cup {u} ELSE q.got
  <2> DEFINE p == [q EXCEPT !.todo = @ \ {u},
                            !.got = IF u \in Admins THEN @ \cup {u} ELSE @]
  <2>1. req' = [req EXCEPT ![r] = p]
    BY <1>2
  <2>2. /\ p.pc = "tx" /\ p.todo = q.todo \ {u}
        /\ p.got = IF u \in Admins THEN q.got \cup {u} ELSE q.got
    BY <1>1 DEF Request
  <2>3. p # None
    <3>1. q.todo \ {u} \in SUBSET Users
      BY <1>3
    <3>2. (IF u \in Admins THEN q.got \cup {u} ELSE q.got) \in SUBSET Users
      BY <1>1, <1>3 DEF Request
    <3>3. p \in Request
      BY <1>1, <3>1, <3>2 DEF Request
    <3> QED
      BY <3>3, NoRequestAssumption
  <2> HIDE DEF p
  <2> QED
    BY <2>1, <2>2, <2>3 DEF TypeInv, TypeOK
<1>5. /\ \A v \in Users \ {u} : lock'[v] = lock[v]
      /\ lock[u] \in {None, r}
      /\ lock'[u] = IF users[u] = None THEN lock[u] ELSE r
  BY <1>2, <1>3 DEF TypeInv, TypeOK, Available
<1>6. LocksHeld'
  BY <1>1, <1>4, <1>5 DEF GuardInv, LocksHeld, TypeInv, TypeOK, At
<1>7. Admins' = Admins
  BY DEF LockRow, Admins
<1>8. GotHeld'
  <2> SUFFICES ASSUME NEW x \in Requests, req'[x] # None, NEW v \in req'[x].got
               PROVE  v \in Admins' /\ lock'[v] = x
    BY DEF GotHeld
  <2>1. CASE x = r /\ v = u /\ u \in Admins
    BY <1>3, <1>5, <1>7, <2>1
  <2>2. CASE x # r \/ v \in q.got
    <3>1. req[x] # None /\ v \in req[x].got
      BY <1>1, <1>4, <2>2
    <3>2. v \in Admins /\ lock[v] = x /\ v \in Users
      BY <3>1 DEF GuardInv, GotHeld, Admins
    <3> QED
      BY <1>5, <1>7, <3>2, <1>3, AccountsAssumption
  <2> QED
    BY <1>4, <2>1, <2>2
<1>9. LocksAscend'
  <2> SUFFICES ASSUME NEW x \in Requests, req'[x] # None, NEW w \in Users, lock'[w] = x,
                      NEW v \in req'[x].todo
               PROVE  w < v
    BY DEF LocksAscend
  <2>1. CASE x = r /\ w = u
    <3>1. v \in q.todo /\ v # u
      BY <1>4, <2>1
    <3>2. u \in Nat /\ v \in Nat /\ u <= v
      BY <1>3, <3>1, AccountsAssumption
    <3> QED
      BY <2>1, <3>1, <3>2
  <2>2. CASE ~(x = r /\ w = u)
    <3>1. lock[w] = x /\ req[x] # None /\ v \in req[x].todo
      BY <1>1, <1>4, <1>5, <2>2, AccountsAssumption
    <3> QED
      BY <3>1 DEF GuardInv, LocksAscend
  <2> QED
    BY <2>1, <2>2
<1> QED
  BY <1>6, <1>8, <1>9 DEF GuardInv

(* A new user or another password takes no admin away. *)
LEMMA AdminsStay ==
  ASSUME TypeInv, NEW r \in Requests, CreateUser(r) \/ UpdateUserPassword(r)
  PROVE  Admins \subseteq Admins'
<1>1. req[r].id \in Users /\ users \in [Users -> Row \cup {None}]
  BY InFlight DEF CreateUser, UpdateUserPassword, At, Request, TypeInv, TypeOK
<1>2. CASE CreateUser(r)
  BY <1>1, <1>2 DEF CreateUser, Admins
<1>3. CASE UpdateUserPassword(r)
  <2>1. CASE users[req[r].id] = None
    BY <1>3, <2>1 DEF UpdateUserPassword, Admins
  <2>2. CASE users[req[r].id] # None
    <3>1. users' = [users EXCEPT ![req[r].id] = WithPassword(@, req[r])]
      BY <1>3, <2>2 DEF UpdateUserPassword
    <3>2. users[req[r].id] \in Row
      BY <1>1, <2>2
    <3>3. /\ WithPassword(users[req[r].id], req[r]).role = users[req[r].id].role
          /\ WithPassword(users[req[r].id], req[r]) \in
               [role: Roles, pw: Passwords \cup {req[r].pw}]
      BY <3>2 DEF WithPassword, Row
    <3>4. req[r].pw \in Passwords
      BY <1>3, InFlight DEF UpdateUserPassword, At, Carries
    <3>5. WithPassword(users[req[r].id], req[r]) # None
      BY <3>3, <3>4, AccountsAssumption
    <3> QED
      BY <1>1, <3>1, <3>3, <3>5 DEF Admins
  <2> QED
    BY <2>1, <2>2
<1> QED
  BY <1>2, <1>3

(* The write of a profile, or a deletion, takes no admin but its own away. *)
LEMMA OthersStay ==
  ASSUME TypeInv, NEW r \in Requests, Write(r)
  PROVE  \A u \in Admins : u = req[r].id \/ u \in Admins'
BY DEF Write, Admins, TypeInv, TypeOK

(* Whom a request's step leaves alone, and what the guard keeps of its own. *)
LEMMA GuardFrame ==
  ASSUME TypeInv, NEW r \in Requests, Arrive(r) \/ (Proceed(r) /\ ~LockRow(r))
  PROVE  /\ \A x \in Requests \ {r} : req'[x] = req[x]
         /\ req'[r] # None => req'[r].got = {}
<1>1. TypeInv'
  BY TypeArrive, TypeLoad, TypeQuiet, TypeGuard, TypeWrite DEF Proceed
<1>2. CASE Snapshot(r)
  <2>1. req[r] \in Request /\ req[r].got = {}
    BY <1>2, InFlight DEF Snapshot, At, Carries
  <2> QED
    BY <1>2, <2>1 DEF Snapshot, TypeInv, TypeOK, Request
<1>3. CASE ~Snapshot(r)
  <2>1. \A x \in Requests \ {r} : req'[x] = req[x]
    BY <1>3 DEF TypeInv, TypeOK, Arrive, HandleLogin, HandleCreateUser, HandleEditUser,
      HandleResetPassword, HandleDeleteUser, HandleChangeOwnPassword, RunUserSet, Begin,
      Proceed, Authenticate, Load, CreateUser, UpdateUserPassword, Refuse, Write, Fail,
      Revoke, Mint, Go, Answer, GoOrAnswer
  <2>2. req'[r] # None => req'[r].pc # "tx"
    <3>1. CASE Arrive(r)
      <4>1. PICK op, id, role, pw, pc :
              Begin(r, op, id, role, pw, pc) /\ pc \in {"verify", "load", "insert", "profile"}
        BY <3>1 DEF Arrive, HandleLogin, HandleCreateUser, HandleEditUser,
          HandleResetPassword, HandleDeleteUser, HandleChangeOwnPassword, RunUserSet
      <4> QED
        BY <4>1 DEF Begin, TypeInv, TypeOK
    <3>2. CASE Proceed(r) /\ ~LockRow(r)
      <4>1. req[r] \in Request
        BY <3>2, InFlight DEF Proceed, Authenticate, Load, CreateUser, UpdateUserPassword,
          Snapshot, LockRow, Refuse, Write, Fail, Revoke, Mint, At
      <4>2. CASE Answer(r)
        BY <4>2 DEF Answer, TypeInv, TypeOK
      <4>3. CASE Go(r, "mint")
        BY <4>1, <4>3 DEF Go, TypeInv, TypeOK, Request
      <4>4. CASE Load(r)
        BY <4>1, <4>4 DEF Load, Go, Answer, TypeInv, TypeOK, Request
      <4>5. ASSUME NEW pc \in {"answer", "revoke", "profile"}, GoOrAnswer(r, pc)
            PROVE  req'[r] # None => req'[r].pc # "tx"
        BY <4>1, <4>5 DEF GoOrAnswer, Answer, TypeInv, TypeOK, Request
      <4>6. CASE UpdateUserPassword(r)
        <5>1. AfterPassword(req[r].op) \in {"answer", "revoke", "profile"}
          BY DEF AfterPassword
        <5> QED
          BY <4>2, <4>5, <4>6, <5>1 DEF UpdateUserPassword
      <4>7. CASE Write(r)
        <5>1. AfterWrite(req[r]) \in {"answer", "revoke", "profile"}
          BY DEF AfterWrite
        <5> QED
          BY <4>2, <4>5, <4>7, <5>1 DEF Write
      <4> QED
        BY <1>3, <3>2, <4>2, <4>3, <4>4, <4>6, <4>7
           DEF Proceed, Authenticate, CreateUser, Refuse, Fail, Revoke, Mint
    <3> QED
      BY <3>1, <3>2
  <2> QED
    BY <1>1, <2>1, <2>2 DEF TypeInv, Control, Carries
<1> QED
  BY <1>2, <1>3

(* Every step keeps what a guard has locked and returned. *)
LEMMA GuardStep ==
  ASSUME TypeInv, GuardInv, [Next]_vars
  PROVE  GuardInv'
<1>1. CASE UNCHANGED vars
  BY <1>1 DEF vars, GuardInv, LocksHeld, GotHeld, LocksAscend, At, Admins
<1>2. ASSUME NEW r \in Requests, Arrive(r) \/ (Proceed(r) /\ ~LockRow(r))
      PROVE  GuardInv'
  <2>1. /\ \A x \in Requests \ {r} : req'[x] = req[x]
        /\ req'[r] # None => req'[r].got = {}
    BY <1>2, GuardFrame
  <2>2. CASE Refuse(r) \/ Write(r) \/ Fail(r)
    <3>1. lock' = Unlocked(r)
      BY <2>2 DEF Refuse, Write, Fail
    <3>2. \A u \in Admins : lock[u] \in {None, r} \/ u \in Admins'
      <4>1. CASE Write(r)
        BY <4>1, OthersStay DEF Write, Available
      <4>2. CASE Refuse(r) \/ Fail(r)
        BY <4>2 DEF Refuse, Fail, Admins
      <4> QED
        BY <2>2, <4>1, <4>2
    <3> QED
      BY <2>1, <3>1, <3>2, GuardEnds
  <2>3. CASE ~(Refuse(r) \/ Write(r) \/ Fail(r))
    <3>1. lock' = lock /\ ~At(r, "tx")
      BY <1>2, <2>3 DEF Arrive, HandleLogin, HandleCreateUser, HandleEditUser,
        HandleResetPassword, HandleDeleteUser, HandleChangeOwnPassword, RunUserSet, Begin,
        Proceed, Authenticate, Load, CreateUser, UpdateUserPassword, Snapshot, Revoke,
        Mint, At
    <3>2. Admins \subseteq Admins'
      <4>1. CASE CreateUser(r) \/ UpdateUserPassword(r)
        BY <4>1, AdminsStay
      <4>2. CASE ~(CreateUser(r) \/ UpdateUserPassword(r))
        <5>1. users' = users
          BY <1>2, <2>3, <4>2 DEF Arrive, HandleLogin, HandleCreateUser, HandleEditUser,
            HandleResetPassword, HandleDeleteUser, HandleChangeOwnPassword, RunUserSet,
            Begin, Proceed, Authenticate, Load, Snapshot, Revoke, Mint
        <5> QED
          BY <5>1 DEF Admins
      <4> QED
        BY <4>1, <4>2
    <3> QED
      BY <2>1, <3>1, <3>2, GuardAside
  <2> QED
    BY <2>2, <2>3
<1>3. ASSUME NEW r \in Requests, LockRow(r)
      PROVE  GuardInv'
  BY <1>3, GuardLocks
<1>4. CASE \E t \in Tokens : HandleLogout(t) \/ Expire(t)
  BY <1>4 DEF HandleLogout, Expire, Drop, GuardInv, LocksHeld, GotHeld, LocksAscend, At,
              Admins
<1>5. CASE Restart
  <2> DEFINE dead == {r \in Requests : req[r] # None /\ req[r].op \notin Commands}
  <2>1. /\ users' = users
        /\ \A r \in Requests : req'[r] = IF r \in dead THEN None ELSE req[r]
        /\ \A u \in Users : lock'[u] = IF lock[u] \in dead THEN None ELSE lock[u]
    BY <1>5 DEF Restart
  <2>2. LocksHeld'
    BY <2>1 DEF GuardInv, LocksHeld, At, TypeInv, TypeOK
  <2>3. \A r \in Requests : req'[r] # None => r \notin dead /\ req'[r] = req[r]
    BY <2>1
  <2>4. GotHeld'
    <3> SUFFICES ASSUME NEW r \in Requests, req'[r] # None, NEW u \in req'[r].got
                 PROVE  u \in Admins' /\ lock'[u] = r
      BY DEF GotHeld
    <3>1. u \in Admins /\ lock[u] = r /\ u \in Users
      BY <2>3 DEF GuardInv, GotHeld, Admins
    <3> QED
      BY <2>1, <2>3, <3>1 DEF Admins
  <2>5. LocksAscend'
    <3> SUFFICES ASSUME NEW r \in Requests, req'[r] # None, NEW u \in Users, lock'[u] = r,
                        NEW v \in req'[r].todo
                 PROVE  u < v
      BY DEF LocksAscend
    <3>1. lock[u] = r
      BY <2>1, AccountsAssumption
    <3> QED
      BY <2>3, <3>1 DEF GuardInv, LocksAscend
  <2> QED
    BY <2>2, <2>4, <2>5 DEF GuardInv
<1> QED
  BY <1>1, <1>2, <1>3, <1>4, <1>5 DEF Next

(* Nobody is in a transaction. *)
LEMMA GuardInit ==
  ASSUME Init
  PROVE  GuardInv
BY DEF Init, GuardInv, LocksHeld, GotHeld, LocksAscend

(* A guarded write goes past the guard only by an admin other than the user it
   writes, or blindly. *)
LEMMA GuardTells ==
  ASSUME TypeInv, GuardInv, NEW r \in Requests, Write(r), ~BlindWrite(r), Guarded(req[r])
  PROVE  \E u \in Admins : u # req[r].id
<1>1. req[r] # None /\ req[r] \in Request
  BY InFlight DEF Write, At
<1>2. req[r].got # {} /\ req[r].got # {req[r].id}
  BY DEF BlindWrite, Write, LastAdmin
<1>3. PICK u \in req[r].got : u # req[r].id
  BY <1>2
<1> QED
  BY <1>1, <1>3 DEF GuardInv, GotHeld

(* The steps that write the table. *)
LEMMA Writers ==
  ASSUME [Next]_vars
  PROVE  \/ users' = users
         \/ \E r \in Requests : CreateUser(r) \/ UpdateUserPassword(r) \/ Write(r)
<1>1. ASSUME NEW r \in Requests, Arrive(r)
      PROVE  users' = users
  BY <1>1 DEF Arrive, HandleLogin, HandleCreateUser, HandleEditUser, HandleResetPassword,
              HandleDeleteUser, HandleChangeOwnPassword, RunUserSet, Begin
<1>2. ASSUME NEW r \in Requests, Proceed(r)
      PROVE  users' = users \/ CreateUser(r) \/ UpdateUserPassword(r) \/ Write(r)
  BY <1>2 DEF Proceed, Authenticate, Load, Snapshot, LockRow, Refuse, Fail, Revoke, Mint
<1>3. CASE (\E t \in Tokens : HandleLogout(t) \/ Expire(t)) \/ Restart
  BY <1>3 DEF HandleLogout, Expire, Drop, Restart
<1>4. CASE UNCHANGED vars
  BY <1>4 DEF vars
<1> QED
  BY <1>1, <1>2, <1>3, <1>4 DEF Next

(* A step takes an administrator away by leaving another, or blindly. *)
LEMMA AdminStep ==
  ASSUME TypeInv, GuardInv, [Next]_vars, AnyAdmin
  PROVE  AnyAdmin' \/ \E r \in Requests : BlindWrite(r)
<1>1. ASSUME NEW r \in Requests, Write(r), ~BlindWrite(r)
      PROVE  AnyAdmin'
  <2>1. CASE Guarded(req[r])
    BY <1>1, <2>1, GuardTells, OthersStay DEF AnyAdmin
  <2>2. CASE ~Guarded(req[r])
    <3>1. req[r] \in Request /\ req[r].role = "admin" /\ req[r].op # "delete"
      BY <1>1, <2>2, InFlight DEF Write, At, Guarded
    <3>2. CASE users[req[r].id] = None
      BY <1>1, <3>2 DEF Write, AnyAdmin, Admins
    <3>3. CASE users[req[r].id] # None
      <4>1. users[req[r].id] \in Row /\ req[r].id \in Users
        BY <3>1, <3>3, RowType DEF TypeInv, Request
      <4>2. users' = [users EXCEPT ![req[r].id] = [@ EXCEPT !.role = "admin"]]
        BY <1>1, <3>1, <3>3 DEF Write
      <4>3. [users[req[r].id] EXCEPT !.role = "admin"] \in Row
        BY <4>1 DEF Row, Roles
      <4>4. [users[req[r].id] EXCEPT !.role = "admin"].role = "admin"
        BY <4>1 DEF Row
      <4>5. req[r].id \in Admins'
        BY <4>1, <4>2, <4>3, <4>4, AccountsAssumption DEF Admins, Row, TypeInv, TypeOK
      <4> QED
        BY <4>5 DEF AnyAdmin
    <3> QED
      BY <3>2, <3>3
  <2> QED
    BY <2>1, <2>2
<1>2. ASSUME NEW r \in Requests, CreateUser(r) \/ UpdateUserPassword(r)
      PROVE  AnyAdmin'
  BY <1>2, AdminsStay DEF AnyAdmin
<1>3. CASE users' = users
  BY <1>3 DEF AnyAdmin, Admins
<1> QED
  BY <1>1, <1>2, <1>3, Writers

(* A step of the statements is a step of the table, or a blind write. *)
LEMMA TableStep ==
  ASSUME TypeInv, GuardInv, [Next]_vars
  PROVE  Table!Next \/ (\E r \in Requests : BlindWrite(r)) \/ users' = users
<1>1. ASSUME NEW r \in Requests, CreateUser(r), users' # users
      PROVE  Table!Next
  <2> DEFINE q == req[r]
  <2>1. q.id \in Users /\ q.pw \in Passwords /\ q.role \in Roles \cup {None}
    BY <1>1, InFlight DEF CreateUser, At, Carries, Request
  <2>2. PICK role \in Roles :
          users' = [users EXCEPT ![q.id] = [role |-> role, pw |-> q.pw]]
    BY <1>1, <2>1 DEF CreateUser, Roles
  <2>3. Table!CreateUser(q.id, role, q.pw)
    BY <1>1, <2>2 DEF CreateUser, Table!CreateUser
  <2> QED
    BY <2>1, <2>3 DEF Table!Next
<1>2. ASSUME NEW r \in Requests, UpdateUserPassword(r), users' # users
      PROVE  Table!Next
  <2> DEFINE q == req[r]
  <2>1. q.id \in Users /\ q.pw \in Passwords
    BY <1>2, InFlight DEF UpdateUserPassword, At, Carries, Request
  <2>2. Table!UpdateUserPassword(q.id, q.pw)
    BY <1>2 DEF UpdateUserPassword, WithPassword, Table!UpdateUserPassword
  <2> QED
    BY <2>1, <2>2 DEF Table!Next
<1>3. ASSUME NEW r \in Requests, Write(r), ~BlindWrite(r), users' # users
      PROVE  Table!Next
  <2> DEFINE q == req[r]
  <2>1. q.id \in Users /\ (q.op # "delete" => q.role \in Roles) /\ users[q.id] # None
    BY <1>3, InFlight DEF Write, At, Carries, Request
  <2>2. Guarded(q) => ~Table!IsLastAdmin(q.id)
    BY <1>3, GuardTells DEF Table!IsLastAdmin, Table!Admins, Admins
  <2>3. CASE q.op = "delete"
    <3>1. Table!DeleteUser(q.id)
      BY <1>3, <2>1, <2>2, <2>3 DEF Write, Guarded, Table!DeleteUser
    <3> QED
      BY <2>1, <3>1 DEF Table!Next
  <2>4. CASE q.op # "delete"
    <3>1. Table!UpdateUserProfile(q.id, q.role)
      BY <1>3, <2>1, <2>2, <2>4 DEF Write, Guarded, Table!UpdateUserProfile
    <3> QED
      BY <2>1, <2>4, <3>1 DEF Table!Next
  <2> QED
    BY <2>3, <2>4
<1> QED
  BY <1>1, <1>2, <1>3, Writers

(* guardLastAdmin, in every order of the statements of any number of requests
   and commands: an administrator remains, unless all that its snapshot held
   were demoted or deleted while it waited for their rows. *)
THEOREM AdminRemainsUnlessBlindHolds == Spec => AdminRemainsUnlessBlind
<1>1. Init => TypeInv /\ GuardInv
  BY TypeInit, GuardInit
<1>2. TypeInv /\ GuardInv /\ [Next]_vars => (TypeInv /\ GuardInv)'
  BY TypeStep, GuardStep
<1>3. TypeInv /\ GuardInv /\ [Next]_vars
        => [AnyAdmin => AnyAdmin' \/ \E r \in Requests : BlindWrite(r)]_vars
  BY AdminStep
<1> QED
  BY <1>1, <1>2, <1>3, PTL DEF Spec, AdminRemainsUnlessBlind

(* The Postgres store's statements implement the memory store's atomic
   operations, the blind write apart. *)
THEOREM ImplementsUserTableHolds == Spec => ImplementsUserTable
<1>1. Init => TypeInv /\ GuardInv /\ Table!Init
  BY TypeInit, GuardInit DEF Init, Table!Init
<1>2. TypeInv /\ GuardInv /\ [Next]_vars => (TypeInv /\ GuardInv)'
  BY TypeStep, GuardStep
<1>3. TypeInv /\ GuardInv /\ [Next]_vars
        => [Table!Next \/ \E r \in Requests : BlindWrite(r)]_users
  BY TableStep
<1> QED
  BY <1>1, <1>2, <1>3, PTL DEF Spec, ImplementsUserTable

(* Of guards that wait for one another, follow the one that waits for the last
   row: its holder waits for a later one. *)
LEMMA NoCycle ==
  ASSUME TypeInv, GuardInv
  PROVE  GuardsDoNotDeadlock
<1> SUFFICES ASSUME NEW R \in SUBSET Requests, R # {}, Deadlocked(R),
                    \A r \in R : req[r].todo # {}
             PROVE  FALSE
  BY DEF GuardsDoNotDeadlock
<1> DEFINE S == {u \in Users : \E r \in R : u \in NextRows(req[r]) /\ lock[u] \in R}
<1>1. \A r \in R : \E u \in S : u \in NextRows(req[r])
  <2> SUFFICES ASSUME NEW r \in R
               PROVE  \E u \in S : u \in NextRows(req[r])
    OBVIOUS
  <2>1. PICK u \in Awaited(r) : lock[u] \in R \ {r}
    BY DEF Deadlocked
  <2>2. At(r, "tx") /\ u \in NextRows(req[r])
    BY <2>1 DEF Awaited
  <2>3. u \in Users
    BY <2>2, InFlight DEF At, NextRows, Request
  <2> QED
    BY <2>1, <2>2, <2>3
<1>2. PICK u \in S : \A v \in S : v <= u
  BY <1>1, FiniteTableAssumption
<1>3. PICK r \in R : lock[u] = r
  OBVIOUS
<1>4. PICK v \in S : v \in NextRows(req[r])
  BY <1>1
<1>5. req[r] # None
  BY <1>3, AccountsAssumption DEF GuardInv, LocksHeld, At
<1>6. u < v
  BY <1>3, <1>4, <1>5 DEF GuardInv, LocksAscend, NextRows
<1>7. u \in Nat /\ v \in Nat /\ v <= u
  BY <1>2, AccountsAssumption
<1> QED
  BY <1>6, <1>7

(* Two guards, or any number of them, never wait for one another (ORDER BY id
   in guardLastAdmin). *)
THEOREM GuardsDoNotDeadlockHolds == Spec => []GuardsDoNotDeadlock
<1>1. Init => TypeInv /\ GuardInv
  BY TypeInit, GuardInit
<1>2. TypeInv /\ GuardInv /\ [Next]_vars => (TypeInv /\ GuardInv)'
  BY TypeStep, GuardStep
<1>3. TypeInv /\ GuardInv => GuardsDoNotDeadlock
  BY NoCycle
<1> QED
  BY <1>1, <1>2, <1>3, PTL DEF Spec

-----------------------------------------------------------------------------
(* Sessions *)

(* What SessionsFollowPasswords says of one session. *)
Current(s) ==
  \/ s.loose
  \/ users[s.user] # None /\ users[s.user].pw = s.pw
  \/ \E r \in Requests : At(r, "revoke") /\ req[r].id = s.user

(* The revocations under way, a step of r apart. *)
LEMMA RevokesStay ==
  ASSUME TypeInv, NEW r \in Requests, ~At(r, "revoke"),
         \A x \in Requests \ {r} : req'[x] = req[x],
         NEW u, \E x \in Requests : At(x, "revoke") /\ req[x].id = u
  PROVE  \E x \in Requests : At(x, "revoke")' /\ req'[x].id = u
BY DEF At

(* A step that leaves users and sessions alone, and is no revocation's. *)
LEMMA SessionsAside ==
  ASSUME TypeInv, SessionsFollowPasswords, NEW r \in Requests, ~At(r, "revoke"),
         UNCHANGED <<users, sessions>>, \A x \in Requests \ {r} : req'[x] = req[x]
  PROVE  SessionsFollowPasswords'
<1> SUFFICES ASSUME NEW t \in Live'
             PROVE  Current(sessions[t])'
  BY DEF SessionsFollowPasswords, Current
<1>1. Current(sessions[t])
  BY DEF SessionsFollowPasswords, Current, Live
<1> QED
  BY <1>1, RevokesStay DEF Current

(* A step that writes the row of u at most: the other users' sessions have
   nothing to follow. *)
LEMMA SessionsOfOthers ==
  ASSUME TypeInv, SessionsFollowPasswords, NEW r \in Requests, ~At(r, "revoke"),
         \A x \in Requests \ {r} : req'[x] = req[x],
         NEW u \in Users, \A v \in Users \ {u} : users'[v] = users[v],
         sessions' \in {sessions, Loosened(u)},
         \A t \in Live' : sessions'[t].user = u => Current(sessions[t])'
  PROVE  SessionsFollowPasswords'
<1> SUFFICES ASSUME NEW t \in Live', sessions'[t].user # u
             PROVE  Current(sessions[t])'
  BY DEF SessionsFollowPasswords, Current
<1>1. t \in Tokens /\ sessions'[t] # None
  BY DEF Live
<1>2. sessions[t] # None => sessions[t] \in Session
  BY <1>1 DEF TypeInv, TypeOK
<1>3. sessions[t] # None /\ sessions'[t] = sessions[t]
  <2>1. CASE sessions' = sessions
    BY <1>1, <2>1
  <2>2. CASE sessions' = Loosened(u)
    <3>1. CASE sessions[t] # None /\ sessions[t].user = u
      <4>1. sessions'[t] = [sessions[t] EXCEPT !.loose = TRUE]
        BY <1>1, <2>2, <3>1 DEF Loosened
      <4> QED
        BY <1>2, <3>1, <4>1 DEF Session
    <3>2. CASE ~(sessions[t] # None /\ sessions[t].user = u)
      BY <1>1, <2>2, <3>2 DEF Loosened
    <3> QED
      BY <3>1, <3>2
  <2> QED
    BY <2>1, <2>2
<1>4. Current(sessions[t]) /\ sessions[t].user \in Users \ {u}
  BY <1>1, <1>2, <1>3 DEF SessionsFollowPasswords, Current, Live, Session
<1> QED
  BY <1>3, <1>4, RevokesStay DEF Current

(* What the written user's sessions have to follow: the step is marked, by its
   own revocation or as one nobody revokes for, or the password stays. *)
LEMMA SessionsOfWritten ==
  ASSUME TypeInv, SessionsFollowPasswords, NEW r \in Requests,
         CreateUser(r) \/ UpdateUserPassword(r) \/ Write(r),
         NEW t \in Live', sessions'[t].user = req[r].id
  PROVE  Current(sessions[t])'
<1> DEFINE q == req[r]
<1>1. /\ q # None /\ q \in Request /\ Carries(q) /\ q.id \in Users
      /\ q.pc \in {"insert", "password", "tx"} /\ t \in Tokens /\ sessions'[t] # None
      /\ \A x \in Requests \ {r} : req'[x] = req[x]
  BY InFlight DEF CreateUser, UpdateUserPassword, Write, At, Request, Live,
                  GoOrAnswer, Answer, TypeInv, TypeOK
<1>2. CASE sessions' = Loosened(q.id)
  <2>1. sessions[t] # None /\ sessions[t] \in Session
    BY <1>1, <1>2 DEF Loosened, TypeInv, TypeOK
  <2>2. CASE sessions[t].user = q.id
    <3>1. sessions'[t] = [sessions[t] EXCEPT !.loose = TRUE]
      BY <1>1, <1>2, <2>1, <2>2 DEF Loosened
    <3> QED
      BY <2>1, <3>1 DEF Current, Session
  <2>3. CASE sessions[t].user # q.id
    BY <1>1, <1>2, <2>1, <2>3 DEF Loosened
  <2> QED
    BY <2>2, <2>3
<1>3. CASE req'[r] # None /\ req'[r].pc = "revoke" /\ req'[r].id = q.id
  BY <1>3 DEF Current, At
<1>4. CASE /\ sessions' = sessions
           /\ users[q.id] # None =>
                users'[q.id] # None /\ users'[q.id].pw = users[q.id].pw
  <2>1. Current(sessions[t]) /\ sessions[t].user = q.id
    BY <1>1, <1>4 DEF SessionsFollowPasswords, Current, Live
  <2>2. ~At(r, "revoke")
    BY <1>1 DEF At
  <2> QED
    BY <1>1, <1>4, <2>1, <2>2, RevokesStay DEF Current
<1>5. ASSUME GoOrAnswer(r, "revoke")
      PROVE  req'[r] # None /\ req'[r].pc = "revoke" /\ req'[r].id = q.id
  <2> DEFINE p == [q EXCEPT !.pc = "revoke", !.role = None,
                            !.pw = IF q.op = "change" THEN @ ELSE None,
                            !.seen = None, !.got = {}]
  <2>1. req' = [req EXCEPT ![r] = p]
    BY <1>5 DEF GoOrAnswer
  <2>2. p \in Request /\ p.pc = "revoke" /\ p.id = q.id
    BY <1>1 DEF Request
  <2> HIDE DEF p
  <2> QED
    BY <2>1, <2>2, NoRequestAssumption DEF TypeInv, TypeOK
<1>6. CASE users' = users /\ sessions' = sessions
  BY <1>4, <1>6
<1>7. CASE CreateUser(r)
  BY <1>4, <1>7 DEF CreateUser
<1>8. CASE UpdateUserPassword(r) /\ users[q.id] # None
  <2>1. q.op \in {"reset", "change"} \cup Commands
    BY <1>1, <1>8 DEF UpdateUserPassword, At, Carries
  <2>2. CASE q.op \in {"reset", "change"}
    <3>1. AfterPassword(q.op) = "revoke"
      BY <2>2 DEF AfterPassword
    <3> QED
      BY <1>2, <1>3, <1>5, <1>8, <3>1 DEF UpdateUserPassword
  <2>3. CASE q.op \in Commands
    BY <1>2, <1>8, <2>3 DEF UpdateUserPassword
  <2> QED
    BY <2>1, <2>2, <2>3
<1>9. CASE Write(r) /\ users[q.id] # None
  <2>1. CASE q.op = "delete"
    <3>1. AfterWrite(q) = "revoke"
      BY <2>1 DEF AfterWrite
    <3> QED
      BY <1>2, <1>3, <1>5, <1>9, <2>1, <3>1 DEF Write
  <2>2. CASE q.op # "delete"
    <3>1. sessions' = sessions /\ users' = [users EXCEPT ![q.id] = [@ EXCEPT !.role = q.role]]
      BY <1>9, <2>2 DEF Write
    <3>2. users[q.id] \in Row /\ q.role \in Roles
      BY <1>1, <1>9, <2>2, RowType DEF TypeInv, Write, At, Carries
    <3>3. /\ [users[q.id] EXCEPT !.role = q.role] \in Row
          /\ [users[q.id] EXCEPT !.role = q.role].pw = users[q.id].pw
      BY <3>2 DEF Row
    <3> QED
      BY <1>1, <1>4, <3>1, <3>3, AccountsAssumption DEF TypeInv, TypeOK, Row
  <2> QED
    BY <2>1, <2>2
<1> QED
  BY <1>6, <1>7, <1>8, <1>9 DEF UpdateUserPassword, Write

(* The sessions of a user are destroyed. *)
LEMMA SessionsRevoked ==
  ASSUME TypeInv, SessionsFollowPasswords, NEW r \in Requests, Revoke(r)
  PROVE  SessionsFollowPasswords'
<1> SUFFICES ASSUME NEW t \in Live'
             PROVE  Current(sessions[t])'
  BY DEF SessionsFollowPasswords, Current
<1>1. /\ t \in Tokens /\ sessions'[t] = sessions[t]
      /\ sessions[t] # None /\ sessions[t].user # req[r].id
  BY DEF Revoke, SessionsWithout, Live
<1>2. Current(sessions[t])
  BY <1>1 DEF SessionsFollowPasswords, Current, Live
<1>3. users' = users /\ \A x \in Requests \ {r} : req'[x] = req[x]
  BY DEF Revoke, Go, Answer, TypeInv, TypeOK
<1>4. CASE \E x \in Requests : At(x, "revoke") /\ req[x].id = sessions[t].user
  <2>1. PICK x \in Requests \ {r} : At(x, "revoke") /\ req[x].id = sessions[t].user
    BY <1>1, <1>4
  <2>2. At(x, "revoke")' /\ req'[x].id = sessions[t].user
    BY <1>3, <2>1 DEF At
  <2> QED
    BY <1>1, <2>2 DEF Current
<1> QED
  BY <1>1, <1>2, <1>3, <1>4 DEF Current

(* A session is minted; it is marked if its password has been changed already. *)
LEMMA SessionsMinted ==
  ASSUME TypeInv, SessionsFollowPasswords, NEW r \in Requests, Mint(r)
  PROVE  SessionsFollowPasswords'
<1>1. /\ users' = users /\ ~At(r, "revoke")
      /\ \A x \in Requests \ {r} : req'[x] = req[x]
  BY DEF Mint, At, Answer, TypeInv, TypeOK
<1>2. CASE sessions' = sessions
  BY <1>1, <1>2, SessionsAside
<1>3. CASE sessions' # sessions
  <2>1. PICK s :
          /\ s.loose \/ (users[s.user] # None /\ users[s.user].pw = s.pw)
          /\ \E u \in Tokens \ Live : sessions' = [sessions EXCEPT ![u] = s]
    <3> DEFINE late == users[req[r].id] = None \/ users[req[r].id].pw # req[r].pw
               s    == [user |-> req[r].id, pw |-> req[r].pw, loose |-> late]
    <3>1. s.loose \/ (users[s.user] # None /\ users[s.user].pw = s.pw)
      OBVIOUS
    <3>2. \E u \in Tokens \ Live : sessions' = [sessions EXCEPT ![u] = s]
      BY <1>3 DEF Mint
    <3> QED
      BY <3>1, <3>2
  <2>2. PICK u \in Tokens \ Live : sessions' = [sessions EXCEPT ![u] = s]
    BY <2>1
  <2> SUFFICES ASSUME NEW t \in Live'
               PROVE  Current(sessions[t])'
    BY DEF SessionsFollowPasswords, Current
  <2>3. CASE t = u
    BY <1>1, <2>1, <2>2, <2>3 DEF Current, TypeInv, TypeOK
  <2>4. CASE t # u
    <3>1. sessions'[t] = sessions[t] /\ Current(sessions[t])
      BY <2>2, <2>4 DEF SessionsFollowPasswords, Current, Live, TypeInv, TypeOK
    <3> QED
      BY <1>1, <3>1, RevokesStay DEF Current
  <2> QED
    BY <2>3, <2>4
<1> QED
  BY <1>2, <1>3

(* Every step keeps the sessions' rule. *)
LEMMA SessionsStep ==
  ASSUME TypeInv, SessionsFollowPasswords, [Next]_vars
  PROVE  SessionsFollowPasswords'
<1>1. CASE UNCHANGED vars
  BY <1>1 DEF vars, SessionsFollowPasswords, Live, At
<1>2. ASSUME NEW r \in Requests,
             \/ Arrive(r) \/ Authenticate(r) \/ Load(r) \/ Snapshot(r) \/ LockRow(r)
             \/ Refuse(r) \/ Fail(r)
      PROVE  SessionsFollowPasswords'
  <2>1. ~At(r, "revoke") /\ UNCHANGED <<users, sessions>>
    BY <1>2 DEF Arrive, HandleLogin, HandleCreateUser, HandleEditUser,
      HandleResetPassword, HandleDeleteUser, HandleChangeOwnPassword, RunUserSet, Begin,
      Authenticate, Load, Snapshot, LockRow, Refuse, Fail, At
  <2>2. \A x \in Requests \ {r} : req'[x] = req[x]
    BY <1>2, GuardFrame DEF Proceed, LockRow, TypeInv, TypeOK
  <2> QED
    BY <2>1, <2>2, SessionsAside
<1>3. ASSUME NEW r \in Requests, CreateUser(r) \/ UpdateUserPassword(r) \/ Write(r)
      PROVE  SessionsFollowPasswords'
  <2> DEFINE u == req[r].id
  <2>1. u \in Users /\ ~At(r, "revoke")
    BY <1>3, InFlight DEF CreateUser, UpdateUserPassword, Write, At, Request
  <2>2. /\ \A v \in Users \ {u} : users'[v] = users[v]
        /\ sessions' \in {sessions, Loosened(u)}
        /\ \A x \in Requests \ {r} : req'[x] = req[x]
    BY <1>3 DEF CreateUser, UpdateUserPassword, Write, GoOrAnswer, Answer, TypeInv, TypeOK
  <2>3. \A t \in Live' : sessions'[t].user = u => Current(sessions[t])'
    BY <1>3, SessionsOfWritten
  <2> HIDE DEF u
  <2> QED
    BY <2>1, <2>2, <2>3, SessionsOfOthers
<1>4. ASSUME NEW t \in Tokens, Drop(t)
      PROVE  SessionsFollowPasswords'
  BY <1>4 DEF Drop, SessionsFollowPasswords, Live, At, TypeInv, TypeOK
<1>5. CASE Restart
  BY <1>5 DEF Restart, SessionsFollowPasswords, Live
<1> QED
  BY <1>1, <1>2, <1>3, <1>4, <1>5, SessionsRevoked, SessionsMinted
     DEF Next, Proceed, HandleLogout, Expire

(* A session outlives its password only where nobody was left to revoke it, or
   the revocation is still to come (destroyUser after resets, changes and
   deletions; Authenticate and Mint of a login beside them). *)
THEOREM SessionsFollowPasswordsHolds == Spec => []SessionsFollowPasswords
<1>1. Init => TypeInv /\ SessionsFollowPasswords
  BY TypeInit DEF Init, SessionsFollowPasswords, Live
<1>2. TypeInv /\ SessionsFollowPasswords /\ [Next]_vars
        => (TypeInv /\ SessionsFollowPasswords)'
  BY TypeStep, SessionsStep
<1> QED
  BY <1>1, <1>2, PTL DEF Spec
=============================================================================
