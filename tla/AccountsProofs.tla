--------------------------- MODULE AccountsProofs ---------------------------
(***************************************************************************)
(* Proofs about Accounts, for any number of sessions and users.            *)
(*                                                                         *)
(* Accounts are never deleted, so that a session that has been authorised  *)
(* or has loaded an account shows that there are accounts (Base).  A       *)
(* demotion counts before it writes, and what it counted stays true until  *)
(* it writes as long as nobody else demotes, which is what the assumption  *)
(* of SomeAdministrator says.  The run accounts_last_admin shows that it   *)
(* is needed.                                                              *)
(***************************************************************************)
EXTENDS Accounts, FiniteSetTheorems, TLAPS

Beyond == {"admin", "account", "counted"}

(* What holds of every session whatever the others do.                     *)
Base == /\ TypeOK
        /\ \A s \in Sessions : pc[s] \in Beyond => Existing # {}

(* A demotion that has counted leaves another administrator behind.        *)
Counted == \A s \in Sessions :
             pc[s] = "counted" => /\ s \in Demoters
                                  /\ Administrators \ view[s].user # {}

(* Whoever exists goes on existing.                                        *)
Grows == Existing \subseteq Existing'

LEMMA InitBase == Init => Base /\ Counted /\ SomeAdmin
BY NoneAssumption DEF Init, Base, TypeOK, Counted, SomeAdmin, Existing,
                      Administrators, NoView, Roles, Beyond

LEMMA StepGrows == TypeOK /\ [Next]_vars => Grows
<1> SUFFICES ASSUME TypeOK, [Next]_vars PROVE Grows
  OBVIOUS
<1> USE NoneAssumption DEF Grows, Existing
<1>1. CASE role' = role
  BY <1>1
<1>2. CASE \E u \in Users, r \in Roles : role' = [role EXCEPT ![u] = r]
  BY <1>2 DEF TypeOK, Roles
<1>3. CASE UNCHANGED vars
  BY <1>1, <1>3 DEF vars
<1>4. ASSUME NEW s \in Sessions,
             \/ RequireAdmin(s) \/ GetAccount(s) \/ CountAdmins(s)
             \/ CountUsers(s) \/ Fail(s)
      PROVE  Grows
  BY <1>1, <1>4 DEF RequireAdmin, GetAccount, CountAdmins, CountUsers, Fail, Step
<1>5. ASSUME NEW s \in Sessions, Demote(s) \/ Promote(s)
      PROVE  Grows
  <2>1. view[s].user \subseteq Users
    BY DEF TypeOK, NoView
  <2>. QED
    BY <1>2, <1>5, <2>1 DEF Demote, Promote, SetRole, Roles
<1>6. ASSUME NEW s \in Sessions, CreateAccount(s) \/ Register(s)
      PROVE  Grows
  BY <1>2, <1>6 DEF CreateAccount, Register, Existing, Roles
<1>. QED
  BY <1>3, <1>4, <1>5, <1>6 DEF Next

LEMMA StepType == TypeOK /\ [Next]_vars => TypeOK'
<1> SUFFICES ASSUME TypeOK, [Next]_vars PROVE TypeOK'
  OBVIOUS
<1> USE NoneAssumption DEF TypeOK, Roles
<1>1. CASE UNCHANGED vars
  BY <1>1 DEF vars
<1>2. ASSUME NEW s \in Sessions, RequireAdmin(s) PROVE TypeOK'
  BY <1>2 DEF RequireAdmin, Step, Administrators
<1>3. ASSUME NEW s \in Sessions, GetAccount(s) PROVE TypeOK'
  <2> PICK u \in Existing :
        Step(s, "admin", "account",
             IF u \in view[s].user THEN view[s]
             ELSE [user |-> {u}, role |-> role[u]])
    BY <1>3 DEF GetAccount
  <2>1. u \in Users /\ role[u] \in {"admin", "player"}
    BY DEF Existing
  <2>. QED
    BY <2>1 DEF Step
<1>4. ASSUME NEW s \in Sessions, CountAdmins(s) \/ CountUsers(s) PROVE TypeOK'
  BY <1>4 DEF CountAdmins, CountUsers, Step
<1>5. ASSUME NEW s \in Sessions, Demote(s) \/ Promote(s) PROVE TypeOK'
  <2>1. view[s].user \subseteq Users
    BY DEF NoView
  <2>. QED
    BY <1>5, <2>1 DEF Demote, Promote, SetRole, Close
<1>6. ASSUME NEW s \in Sessions, CreateAccount(s) \/ Register(s) \/ Fail(s)
      PROVE  TypeOK'
  BY <1>6 DEF CreateAccount, Register, Fail, Close, Existing
<1>. QED
  BY <1>1, <1>2, <1>3, <1>4, <1>5, <1>6 DEF Next

(***************************************************************************)
(* Every variable of Accounts keeps its type.                              *)
(***************************************************************************)
THEOREM TypeCorrect == Spec => []TypeOK
<1>1. Init => TypeOK
  BY InitBase DEF Base
<1>. QED
  BY <1>1, StepType, PTL DEF Spec

-----------------------------------------------------------------------------
(* What the steps of one session leave of the others, and of itself.       *)
LEMMA StepBase == Base /\ [Next]_vars => Base'
<1> SUFFICES ASSUME Base, [Next]_vars, NEW s \in Sessions, pc'[s] \in Beyond
             PROVE  Existing' # {}
  BY StepType DEF Base
<1>1. Grows
  BY StepGrows DEF Base
<1>2. CASE pc[s] \in Beyond
  BY <1>1, <1>2 DEF Base, Grows
<1>3. CASE pc[s] \notin Beyond
  <2>1. RequireAdmin(s)
    <3>1. \A t \in Sessions :
            \/ RequireAdmin(t) \/ GetAccount(t) \/ CountAdmins(t)
            \/ Demote(t) \/ Promote(t) \/ CreateAccount(t)
            \/ CountUsers(t) \/ Register(t) \/ Fail(t)
            => t = s
      BY <1>3 DEF RequireAdmin, GetAccount, CountAdmins, Demote, Promote, SetRole,
             CreateAccount, CountUsers, Register, Fail, Step, Close, Beyond,
             Base, TypeOK
    <3>2. ~UNCHANGED vars
      BY <1>3 DEF vars
    <3>3. ~(GetAccount(s) \/ CountAdmins(s))
      BY <1>3 DEF GetAccount, CountAdmins, Step, Beyond
    <3>4. ~(Demote(s) \/ Promote(s) \/ CreateAccount(s) \/ Register(s) \/ Fail(s))
      BY DEF Demote, Promote, SetRole, CreateAccount, Register, Fail, Close,
             Beyond, Base, TypeOK
    <3>5. ~CountUsers(s)
      BY DEF CountUsers, Step, Beyond, Base, TypeOK
    <3>. QED
      BY <3>1, <3>2, <3>3, <3>4, <3>5 DEF Next
  <2>2. Existing # {}
    BY <2>1, NoneAssumption DEF RequireAdmin, Administrators, Existing
  <2>. QED
    BY <1>1, <2>2 DEF Grows
<1>. QED
  BY <1>2, <1>3

LEMMA TwoAdministrators ==
  ASSUME IsFiniteSet(Users), NEW V \in {{u} : u \in Users} \cup {{}},
         Cardinality(Administrators) > 1
  PROVE  Administrators \ V # {}
<1> SUFFICES ASSUME Administrators \subseteq V PROVE FALSE
  OBVIOUS
<1>1. IsFiniteSet(V) /\ Cardinality(V) <= 1
  <2>1. CASE V = {}
    <3>1. IsFiniteSet(V) /\ Cardinality(V) = 0
      BY <2>1, FS_EmptySet, Zenon
    <3>. QED
      BY <3>1
  <2>2. ASSUME NEW u \in Users, V = {u} PROVE IsFiniteSet(V) /\ Cardinality(V) <= 1
    <3>1. IsFiniteSet(V) /\ Cardinality(V) = 1
      BY <2>2, FS_Singleton, Zenon
    <3>. QED
      BY <3>1
  <2>. QED
    BY <2>1, <2>2
<1>2. Cardinality(Administrators) <= Cardinality(V)
  BY <1>1, FS_Subset
<1>3. Cardinality(Administrators) \in Nat /\ Cardinality(V) \in Nat
  BY <1>1, FS_Subset, FS_CardinalityType
<1>. QED
  BY <1>1, <1>2, <1>3

(* Of the steps, only a demotion takes an administrator away.              *)
LEMMA KeepsAdministrators ==
  ASSUME TypeOK, NEW s \in Sessions,
         \/ RequireAdmin(s) \/ GetAccount(s) \/ CountAdmins(s)
         \/ Promote(s) \/ CreateAccount(s)
         \/ CountUsers(s) \/ Register(s) \/ Fail(s)
  PROVE  Administrators \subseteq Administrators'
<1> USE NoneAssumption DEF Administrators
<1>1. CASE role' = role
  BY <1>1
<1>2. CASE \E u \in Users \ Existing, r \in Roles : role' = [role EXCEPT ![u] = r]
  BY <1>2 DEF TypeOK, Existing
<1>3. CASE Promote(s)
  <2>1. view[s].user \subseteq Users
    BY DEF TypeOK, NoView
  <2>. QED
    BY <1>3, <2>1 DEF Promote, SetRole, TypeOK
<1>4. CASE CreateAccount(s) \/ Register(s)
  BY <1>2, <1>4 DEF CreateAccount, Register, Roles
<1>. QED
  BY <1>1, <1>3, <1>4 DEF RequireAdmin, GetAccount, CountAdmins, CountUsers, Fail,
                          Step

(***************************************************************************)
(* While at most one session demotes, there is an administrator as soon as *)
(* there are accounts.                                                     *)
(***************************************************************************)
THEOREM SomeAdministrator ==
  ASSUME IsFiniteSet(Users), \A s, t \in Demoters : s = t
  PROVE  Spec => []SomeAdmin
<1> DEFINE IInv == Base /\ Counted /\ SomeAdmin
<1>1. Init => IInv
  BY InitBase
<1>2. IInv /\ [Next]_vars => IInv'
  <2> SUFFICES ASSUME IInv, [Next]_vars PROVE Counted' /\ SomeAdmin'
    BY StepBase
  <2> USE DEF Base
  <2>1. CASE UNCHANGED vars
    BY <2>1 DEF vars, Counted, SomeAdmin, Existing, Administrators
  <2>2. ASSUME NEW s \in Sessions, Demote(s) PROVE Counted' /\ SomeAdmin'
    <3>1. s \in Demoters /\ Administrators \ view[s].user # {}
      BY <2>2 DEF Demote, SetRole, Counted
    <3>2. PICK u \in view[s].user : role' = [role EXCEPT ![u] = "player"]
      BY <2>2 DEF Demote, SetRole
    <3>3. PICK v \in Administrators : v \notin view[s].user
      BY <3>1
    <3>4. v \in Administrators'
      BY <3>2, <3>3 DEF Administrators, TypeOK
    <3>5. \A t \in Sessions : pc'[t] # "counted"
      BY <2>2, <3>1 DEF Demote, SetRole, Close, Counted, TypeOK
    <3>. QED
      BY <3>4, <3>5 DEF Counted, SomeAdmin
  <2>3. ASSUME NEW s \in Sessions,
               \/ RequireAdmin(s) \/ GetAccount(s) \/ CountAdmins(s)
               \/ Promote(s) \/ CreateAccount(s)
               \/ CountUsers(s) \/ Register(s) \/ Fail(s)
        PROVE  Counted' /\ SomeAdmin'
    <3>1. Administrators \subseteq Administrators'
      BY <2>3, KeepsAdministrators
    <3>2. SomeAdmin'
      <4>1. CASE Register(s)
        <5>1. PICK u \in Users \ Existing : role' = [role EXCEPT ![u] = "admin"]
          BY <4>1 DEF Register
        <5>2. u \in Administrators'
          BY <5>1 DEF Administrators, TypeOK
        <5>. QED
          BY <5>2 DEF SomeAdmin
      <4>2. CASE CreateAccount(s)
        <5>1. Existing # {}
          BY <4>2 DEF CreateAccount, Beyond
        <5>. QED
          BY <3>1, <5>1 DEF SomeAdmin
      <4>3. CASE Promote(s)
        <5>1. Existing # {}
          BY <4>3 DEF Promote, SetRole, Beyond
        <5>. QED
          BY <3>1, <5>1 DEF SomeAdmin
      <4>4. CASE \/ RequireAdmin(s) \/ GetAccount(s) \/ CountAdmins(s)
                 \/ CountUsers(s) \/ Fail(s)
        <5>1. role' = role
          BY <4>4 DEF RequireAdmin, GetAccount, CountAdmins, CountUsers, Fail,
                      Step
        <5>. QED
          BY <5>1 DEF SomeAdmin, Existing, Administrators
      <4>. QED
        BY <2>3, <4>1, <4>2, <4>3, <4>4
    <3>3. ASSUME NEW t \in Sessions, pc'[t] = "counted"
          PROVE  t \in Demoters /\ Administrators \ view'[t].user # {}
      <4>1. CASE pc[t] = "counted" /\ view'[t] = view[t]
        BY <4>1 DEF Counted
      <4>2. CASE t = s /\ CountAdmins(s)
        <5>1. view'[t] = view[t] /\ t \in Demoters /\ Cardinality(Administrators) > 1
          BY <4>2 DEF CountAdmins, Step, TypeOK
        <5>2. view[t].user \in {{u} : u \in Users} \cup {{}}
          BY DEF TypeOK, NoView
        <5>. QED
          BY <5>1, <5>2, TwoAdministrators
      <4>3. CASE t = s /\ ~CountAdmins(s)
        BY <2>3, <3>3, <4>3 DEF RequireAdmin, GetAccount, Promote, SetRole,
             CreateAccount, CountUsers, Register, Fail, Step, Close, TypeOK
      <4>4. CASE t # s
        <5>1. pc'[t] = pc[t] /\ view'[t] = view[t]
          BY <2>3, <4>4 DEF RequireAdmin, GetAccount, CountAdmins, Promote,
               SetRole, CreateAccount, CountUsers, Register, Fail, Step, Close,
               TypeOK
        <5>. QED
          BY <3>3, <4>1, <5>1
      <4>. QED
        BY <4>2, <4>3, <4>4
    <3>. QED
      BY <3>1, <3>2, <3>3 DEF Counted
  <2>. QED
    BY <2>1, <2>2, <2>3 DEF Next
<1>. QED
  BY <1>1, <1>2, PTL DEF Spec
=============================================================================
