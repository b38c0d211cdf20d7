------------------------------ MODULE Accounts ------------------------------
(***************************************************************************)
(* The user accounts: src/app/routers/accounts.py and register of          *)
(* src/app/routers/auth.py, over the table users.                          *)
(*                                                                         *)
(* Each handler decides on what its SELECTs found and writes afterwards,   *)
(* and other requests commit at the awaits between.  Only the UNIQUE       *)
(* username is checked by the write itself.                                *)
(***************************************************************************)
EXTENDS Naturals, FiniteSets

CONSTANTS
  Sessions,    \* requests in flight at the same time
  Demoters,    \* the sessions that take the administrator role away
  Users,       \* usernames
  None         \* the role of a user that does not exist

ASSUME SessionAssumption == Demoters \subseteq Sessions
ASSUME NoneAssumption == None \notin {"admin", "player"}

VARIABLES
  role,  \* the users rows: the role of each username
  pc,    \* how far each session's request has come
  view   \* the account each session has loaded, and its role then

vars == <<role, pc, view>>

Roles == {"admin", "player"}
NoView == [user |-> {}, role |-> None]

TypeOK ==
  /\ role \in [Users -> Roles \cup {None}]
  /\ pc \in [Sessions -> {"idle", "admin", "account", "counted", "register"}]
  /\ view \in [Sessions -> [user : {{u} : u \in Users}, role : Roles] \cup {NoView}]

(* The database after its migrations, before anybody has registered.       *)
Init == /\ role = [u \in Users |-> None]
        /\ pc = [s \in Sessions |-> "idle"]
        /\ view = [s \in Sessions |-> NoView]

Existing == {u \in Users : role[u] # None}
Administrators == {u \in Users : role[u] = "admin"}

-----------------------------------------------------------------------------
Step(s, from, to, read) ==
  /\ pc[s] = from
  /\ pc' = [pc EXCEPT ![s] = to]
  /\ view' = [view EXCEPT ![s] = read]
  /\ UNCHANGED role

Close(s) == /\ pc' = [pc EXCEPT ![s] = "idle"]
            /\ view' = [view EXCEPT ![s] = NoView]

Fail(s) == pc[s] # "idle" /\ Close(s) /\ UNCHANGED role

(* require_admin_user.  The row it loads stays in the identity map, where  *)
(* an administrator who updates the own account finds it again.            *)
RequireAdmin(s) ==
  \E u \in Administrators :
    Step(s, "idle", "admin", [user |-> {u}, role |-> "admin"])

(* update_account: session.get, from the identity map or the table.        *)
GetAccount(s) ==
  \E u \in Existing :
    Step(s, "admin", "account",
         IF u \in view[s].user THEN view[s]
         ELSE [user |-> {u}, role |-> role[u]])

(* Mutant: the last administrator may go.                                  *)
CountAdminsAny(s) ==
  /\ s \in Demoters
  /\ view[s].role = "admin"
  /\ Step(s, "account", "counted", view[s])

(* count_admins, when an administrator is to become a player.              *)
CountAdmins(s) ==
  /\ s \in Demoters
  /\ view[s].role = "admin"
  /\ Cardinality(Administrators) > 1
  /\ Step(s, "account", "counted", view[s])

SetRole(s, from, new) ==
  /\ pc[s] = from
  /\ \E u \in view[s].user : role' = [role EXCEPT ![u] = new]
  /\ Close(s)

Demote(s) == SetRole(s, "counted", "player")

Promote(s) == view[s].role = "player" /\ SetRole(s, "account", "admin")

(* create_account: rejected when the username exists, by its SELECT or by  *)
(* the UNIQUE constraint.                                                  *)
CreateAccount(s) ==
  /\ pc[s] = "admin"
  /\ \E u \in Users \ Existing, r \in Roles : role' = [role EXCEPT ![u] = r]
  /\ Close(s)

(* register: count_users.                                                  *)
CountUsers(s) == Existing = {} /\ Step(s, "idle", "register", NoView)

Register(s) ==
  /\ pc[s] = "register"
  /\ \E u \in Users \ Existing : role' = [role EXCEPT ![u] = "admin"]
  /\ Close(s)

Next == \E s \in Sessions :
          \/ RequireAdmin(s) \/ GetAccount(s) \/ CountAdmins(s)
          \/ Demote(s) \/ Promote(s) \/ CreateAccount(s)
          \/ CountUsers(s) \/ Register(s) \/ Fail(s)

Spec == Init /\ [][Next]_vars

-----------------------------------------------------------------------------
(* Properties.                                                             *)

(* Once there are accounts there is an administrator: register makes one,  *)
(* and update_account refuses to demote the last.                          *)
SomeAdmin == Existing # {} => Administrators # {}

(* "This endpoint is public only while no users exist" (README.MD): to     *)
(* register succeeds only while there is no account, so that who registers *)
(* second does not become an administrator.                                *)
InitialOnce ==
  [][\A s \in Sessions :
       pc[s] = "register" /\ role' # role /\ pc'[s] # pc[s]
         => Existing = {}]_vars
=============================================================================
