----------------------------- MODULE UserTable ------------------------------
(***************************************************************************)
(* What the users table promises: the operations of the memory store, each *)
(* of them atomic under its mutex.  A call that is refused, or finds no     *)
(* row, leaves the table alone and is a stuttering step here.               *)
(***************************************************************************)
CONSTANTS Users, Roles, Passwords, None

VARIABLE users

Admins == {u \in Users : users[u] # None /\ users[u].role = "admin"}

IsLastAdmin(u) == Admins = {u}

CreateUser(u, role, pw) ==
  /\ users[u] = None
  /\ users' = [users EXCEPT ![u] = [role |-> role, pw |-> pw]]

UpdateUserProfile(u, role) ==
  /\ users[u] # None
  /\ role = "admin" \/ ~IsLastAdmin(u)
  /\ users' = [users EXCEPT ![u].role = role]

UpdateUserPassword(u, pw) ==
  /\ users[u] # None
  /\ users' = [users EXCEPT ![u].pw = pw]

DeleteUser(u) ==
  /\ users[u] # None
  /\ ~IsLastAdmin(u)
  /\ users' = [users EXCEPT ![u] = None]

Init == users = [u \in Users |-> None]

Next ==
  \E u \in Users :
    \/ \E role \in Roles, pw \in Passwords : CreateUser(u, role, pw)
    \/ \E role \in Roles : UpdateUserProfile(u, role)
    \/ \E pw \in Passwords : UpdateUserPassword(u, pw)
    \/ DeleteUser(u)

Spec == Init /\ [][Next]_users
=============================================================================
