---------------------------- MODULE LoginsProofs ----------------------------
(***************************************************************************)
(* Proofs about Logins, for any number of sessions, browsers and tokens.   *)
(*                                                                         *)
(* What a browser that has never had two requests in flight has looked up  *)
(* is still so when it is acted on: its tokens are touched by its own      *)
(* requests only (Owned), of which there is one (Alone).  The limit is a   *)
(* sum that no step raises but the check itself: a failure takes one off   *)
(* the requests that are counting and adds one to the attempts.            *)
(***************************************************************************)
EXTENDS Logins, FiniteSetTheorems, SequenceTheorems, TLAPS

(* Who is idle has no request, and who works has one, of some browser.     *)
Busy ==
  \A s \in Sessions :
    /\ pc[s] = "idle" => view[s] = NoView
    /\ pc[s] # "idle" => view[s].browser \in Browsers
    /\ pc[s] \in {"found", "logout"} => view[s].token # 0

Base == TypeOK /\ Busy

-----------------------------------------------------------------------------
(* The attempts.                                                           *)

(* Dropping old attempts makes no list longer.                             *)
LEMMA FreshType ==
  ASSUME NEW q \in Seq(0 .. Window)
  PROVE  Fresh(q) \in Seq(0 .. Window) /\ Len(Fresh(q)) <= Len(q)
<1> DEFINE old == {i \in DOMAIN q : q[i] >= Window}
<1>1. IsFiniteSet(1 .. Len(q))
  BY FS_Interval
<1>2. old \in SUBSET (1 .. Len(q))
  OBVIOUS
<1>3. Cardinality(old) \in Nat
  BY <1>1, <1>2, FS_Subset, FS_CardinalityType
<1> HIDE DEF old
<1> DEFINE m == Cardinality(old) + 1
<1>4. m \in Int /\ m >= 1 /\ Len(q) \in Nat
  BY <1>3
<1> HIDE DEF m
<1>5. ASSUME NEW i \in m .. Len(q) PROVE q[i] \in 0 .. Window
  <2>1. i \in 1 .. Len(q)
    BY <1>4
  <2>. QED
    BY <2>1, ElementOfSeq
<1>6. /\ SubSeq(q, m, Len(q)) \in Seq(0 .. Window)
      /\ Len(SubSeq(q, m, Len(q))) = IF m <= Len(q) THEN Len(q) - m + 1 ELSE 0
  BY <1>4, <1>5, SubSeqProperties
<1>7. Fresh(q) = SubSeq(q, m, Len(q))
  BY DEF Fresh, old, m
<1>. QED
  BY <1>4, <1>6, <1>7

LEMMA TickType ==
  ASSUME LimitAssumption, NEW q \in Seq(0 .. Window)
  PROVE  LET r == [i \in DOMAIN q |-> Older(q[i], Window)]
         IN  r \in Seq(0 .. Window) /\ Len(r) = Len(q)
BY DEF Older, LimitAssumption

(* A token that is added leaves the others where they are.                 *)
LEMMA AppendToken ==
  ASSUME NEW S, NEW q \in Seq(S), NEW e \in S
  PROVE  /\ Append(q, e) \in Seq(S)
         /\ Len(Append(q, e)) = Len(q) + 1
         /\ DOMAIN Append(q, e) = DOMAIN q \cup {Len(q) + 1}
         /\ \A t \in DOMAIN q : Append(q, e)[t] = q[t]
         /\ Append(q, e)[Len(q) + 1] = e
BY AppendProperties

LEMMA RevokedType ==
  ASSUME LimitAssumption, tokens \in Seq(Token), NEW t \in 1 .. Len(tokens)
  PROVE  /\ Revoked(t) \in Seq(Token)
         /\ Len(Revoked(t)) = Len(tokens)
         /\ Revoked(t)[t].revoked
         /\ \A u \in 1 .. Len(tokens) :
              /\ Revoked(t)[u].user = tokens[u].user
              /\ Revoked(t)[u].login = tokens[u].login
              /\ u # t => Revoked(t)[u] = tokens[u]
<1> DEFINE r == [tokens[t] EXCEPT !.revoked = TRUE]
<1>0. tokens[t] \in Token
  BY ElementOfSeq
<1>1. /\ r \in Token
      /\ r.revoked = TRUE /\ r.user = tokens[t].user /\ r.login = tokens[t].login
  BY <1>0 DEF Token
<1>2. Revoked(t) = [tokens EXCEPT ![t] = r]
  BY DEF Revoked
<1> HIDE DEF r
<1>. QED
  BY <1>1, <1>2, ExceptSeq

-----------------------------------------------------------------------------
(* Types.                                                                  *)

LEMMA InitBase == Init => Base
BY EmptySeq DEF Init, Base, TypeOK, Busy, NoView

(* The steps of a session, by the tables they change.                      *)
Looks(s) == FindToken(s) \/ FindLogout(s) \/ LogoutAgain(s)
Counts(s) == CheckLimit(s) \/ Reject(s) \/ WrongPassword(s) \/ RightPassword(s)
Writes(s) == IssueTokenPair(s) \/ Rotate(s) \/ Logout(s)
Ends(s) == Deliver(s) \/ Fail(s)

LEMMA NextSplit ==
  Next <=> \/ \E s \in Sessions : Looks(s) \/ Counts(s) \/ Writes(s) \/ Ends(s)
           \/ Restart \/ Tick
BY Zenon DEF Next, Looks, Counts, Writes, Ends

(* Only the counting steps, a restart and time change the attempts.        *)
LEMMA StepAttempts ==
  ASSUME LimitAssumption, Base, [Next]_vars
  PROVE  attempts' \in [Browsers -> Seq(0 .. Window)]
<1> USE DEF Base
<1>1. CASE UNCHANGED attempts
  BY <1>1 DEF TypeOK
<1>2. ASSUME NEW b \in Browsers, NEW q \in Seq(0 .. Window),
             attempts' = [attempts EXCEPT ![b] = q]
      PROVE  attempts' \in [Browsers -> Seq(0 .. Window)]
  BY <1>2 DEF TypeOK
<1>3. ASSUME NEW s \in Sessions, CheckLimit(s) \/ Reject(s)
      PROVE  attempts' \in [Browsers -> Seq(0 .. Window)]
  <2>1. PICK b \in Browsers : attempts' = [attempts EXCEPT ![b] = Fresh(attempts[b])]
    BY <1>3 DEF CheckLimit, Reject
  <2>2. Fresh(attempts[b]) \in Seq(0 .. Window)
    BY FreshType DEF TypeOK
  <2>. QED
    BY <1>2, <2>1, <2>2
<1>4. ASSUME NEW s \in Sessions, WrongPassword(s) \/ RightPassword(s)
      PROVE  attempts' \in [Browsers -> Seq(0 .. Window)]
  <2>1. view[s].browser \in Browsers
    BY <1>4 DEF WrongPassword, RightPassword, Step, Goto, Busy
  <2>2. 0 \in 0 .. Window
    BY DEF LimitAssumption
  <2>3. Append(attempts[view[s].browser], 0) \in Seq(0 .. Window)
    BY <2>1, <2>2, AppendProperties DEF TypeOK
  <2>. QED
    BY <1>2, <1>4, <2>1, <2>3, EmptySeq DEF WrongPassword, RightPassword
<1>5. CASE Restart
  BY <1>5, EmptySeq DEF Restart
<1>6. CASE Tick
  BY <1>6, TickType DEF Tick, TypeOK
<1>. QED
  BY <1>1, <1>3, <1>4, <1>5, <1>6, NextSplit
     DEF Looks, Counts, Writes, Ends, FindToken, FindLogout, LogoutAgain,
         IssueTokenPair, Rotate, Logout, Deliver, Fail, vars

(* What a step makes of the tokens: nothing, one that is older, one that   *)
(* is revoked, one more, or both.                                          *)
LEMMA StepTokens ==
  ASSUME LimitAssumption, Base, [Next]_vars
  PROVE  tokens' \in Seq(Token) /\ Len(tokens') >= Len(tokens)
<1> USE DEF Base
<1>1. tokens \in Seq(Token) /\ Len(tokens) \in Nat
  BY DEF TypeOK
<1>2. CASE UNCHANGED tokens
  BY <1>1, <1>2
<1>3. ASSUME NEW s \in Sessions, IssueTokenPair(s)
      PROVE  tokens' \in Seq(Token) /\ Len(tokens') >= Len(tokens)
  <2>1. view[s].browser \in Browsers
    BY <1>3 DEF IssueTokenPair, Busy
  <2>2. New(view[s].browser, Len(tokens) + 1) \in Token
    BY <1>1, <2>1 DEF New, Token, LimitAssumption
  <2>. QED
    BY <1>1, <1>3, <2>2, AppendToken DEF IssueTokenPair
<1>4. ASSUME NEW s \in Sessions, Rotate(s)
      PROVE  tokens' \in Seq(Token) /\ Len(tokens') >= Len(tokens)
  <2>1. view[s].token \in 1 .. Len(tokens)
    BY <1>4 DEF Rotate, Busy, TypeOK
  <2> DEFINE old == tokens[view[s].token]
  <2>0. old \in Token
    BY <1>1, <2>1, ElementOfSeq
  <2>2. New(old.user, old.login) \in Token
    <3> HIDE DEF old
    <3>. QED
      BY <2>0 DEF New, Token, LimitAssumption
  <2>3. Revoked(view[s].token) \in Seq(Token) /\ Len(Revoked(view[s].token)) = Len(tokens)
    BY <1>1, <2>1, RevokedType
  <2>. QED
    BY <1>1, <1>4, <2>2, <2>3, AppendToken DEF Rotate
<1>5. ASSUME NEW s \in Sessions, Logout(s)
      PROVE  tokens' \in Seq(Token) /\ Len(tokens') >= Len(tokens)
  <2>1. view[s].token \in 1 .. Len(tokens)
    BY <1>5 DEF Logout, Busy, TypeOK
  <2>. QED
    BY <1>1, <1>5, <2>1, RevokedType DEF Logout
<1>6. CASE Tick
  <2>1. \A t \in DOMAIN tokens : tokens[t] \in Token
    BY <1>1, ElementOfSeq
  <2>2. \A e \in Token : [e EXCEPT !.age = Older(@, Lifetime)] \in Token
    BY DEF Older, Token, LimitAssumption
  <2>3. \A t \in DOMAIN tokens : tokens'[t] \in Token
    BY <1>6, <2>1, <2>2 DEF Tick
  <2>4. DOMAIN tokens' = 1 .. Len(tokens) /\ tokens' = [t \in 1 .. Len(tokens) |-> tokens'[t]]
    BY <1>1, <1>6 DEF Tick
  <2>. QED
    BY <1>1, <2>3, <2>4
<1>. QED
  BY <1>2, <1>3, <1>4, <1>5, <1>6, NextSplit
     DEF Looks, Counts, Writes, Ends, FindToken, FindLogout, LogoutAgain,
         CheckLimit, Reject, WrongPassword, RightPassword, Deliver, Fail,
         Restart, vars

LEMMA StepBase == LimitAssumption /\ Base /\ [Next]_vars => Base'
<1> SUFFICES ASSUME LimitAssumption, Base, [Next]_vars PROVE Base'
  OBVIOUS
<1> USE DEF Base
<1>1. /\ attempts' \in [Browsers -> Seq(0 .. Window)]
      /\ tokens' \in Seq(Token) /\ Len(tokens') >= Len(tokens)
  BY StepAttempts, StepTokens
<1>2. /\ tokens \in Seq(Token) /\ Len(tokens) \in Nat /\ Len(tokens') \in Nat
      /\ 0 .. Len(tokens) \subseteq 0 .. Len(tokens')
  BY <1>1 DEF TypeOK
<1> DEFINE Rest ==
      /\ cookie' \in [Browsers -> 0 .. Len(tokens')]
      /\ overlap' \subseteq Browsers
      /\ pc' \in [Sessions -> {"idle", "checked", "verified", "found", "logout", "reply"}]
      /\ view' \in [Sessions -> [browser : Browsers \cup {None}, token : 0 .. Len(tokens')]]
      /\ Busy'
<1>3. cookie \in [Browsers -> 0 .. Len(tokens')]
  BY <1>2 DEF TypeOK
<1>4. view \in [Sessions -> [browser : Browsers \cup {None}, token : 0 .. Len(tokens')]]
  <2>1. \A s \in Sessions :
          view[s] \in [browser : Browsers \cup {None}, token : 0 .. Len(tokens')]
    BY <1>2 DEF TypeOK
  <2>. QED
    BY <2>1 DEF TypeOK
<1>5. ASSUME NEW s \in Sessions, NEW b \in Browsers, NEW to \in {"checked", "reply"},
             Send(s, b, to, 0), UNCHANGED cookie
      PROVE  Rest
  BY <1>2, <1>3, <1>4, <1>5 DEF Send, Goto, Busy, TypeOK
<1>6. ASSUME NEW s \in Sessions, NEW b \in Browsers, NEW to \in {"found", "logout"},
             cookie[b] # 0, Send(s, b, to, cookie[b]), UNCHANGED cookie
      PROVE  Rest
  BY <1>2, <1>3, <1>4, <1>6 DEF Send, Goto, Busy, TypeOK
<1>7. ASSUME NEW s \in Sessions, NEW t \in 0 .. Len(tokens'),
             NEW from \in {"checked", "verified", "found", "logout"},
             NEW to \in {"verified", "reply"},
             Step(s, from, to, [view[s] EXCEPT !.token = t]), UNCHANGED cookie
      PROVE  Rest
  BY <1>2, <1>3, <1>4, <1>7 DEF Step, Goto, Busy, TypeOK
<1>8. ASSUME NEW s \in Sessions, Close(s), cookie' \in [Browsers -> 0 .. Len(tokens')]
      PROVE  Rest
  BY <1>2, <1>4, <1>8 DEF Close, Busy, TypeOK, NoView
<1>9. ASSUME UNCHANGED <<cookie, overlap, pc, view>> PROVE Rest
  BY <1>3, <1>4, <1>9 DEF Busy, TypeOK
<1>10. ASSUME Restart PROVE Rest
  BY <1>2, <1>3, <1>10 DEF Restart, Busy, TypeOK, NoView
<1>11. ASSUME NEW s \in Sessions, Looks(s) \/ CheckLimit(s) PROVE Rest
  BY <1>5, <1>6, <1>11, Zenon
     DEF Looks, FindToken, FindLogout, LogoutAgain, CheckLimit
<1>12. ASSUME NEW s \in Sessions, RightPassword(s) PROVE Rest
  <2>1. view[s] = [view[s] EXCEPT !.token = view[s].token]
    BY DEF TypeOK
  <2>2. view[s].token \in 0 .. Len(tokens')
    BY <1>4
  <2>. QED
    BY <1>7, <1>12, <2>1, <2>2 DEF RightPassword
<1>13. ASSUME NEW s \in Sessions, Writes(s) PROVE Rest
  <2>1. Len(tokens') \in 0 .. Len(tokens') /\ 0 \in 0 .. Len(tokens')
    BY <1>2
  <2>. QED
    BY <1>7, <1>13, <2>1, Zenon DEF Writes, IssueTokenPair, Rotate, Logout
<1>14. ASSUME NEW s \in Sessions, Deliver(s) PROVE Rest
  <2>1. cookie' \in [Browsers -> 0 .. Len(tokens')]
    BY <1>3, <1>4, <1>14 DEF Deliver, Busy
  <2>. QED
    BY <1>8, <1>14, <2>1 DEF Deliver
<1>15. ASSUME NEW s \in Sessions, WrongPassword(s) \/ Fail(s) PROVE Rest
  BY <1>3, <1>8, <1>15 DEF WrongPassword, Fail
<1>16. ASSUME NEW s \in Sessions, Reject(s) PROVE Rest
  BY <1>9, <1>16 DEF Reject
<1> HIDE DEF Rest
<1>17. Rest
  <2>1. CASE Tick \/ UNCHANGED vars
    BY <1>9, <2>1 DEF Tick, vars
  <2>. QED
    BY <1>10, <1>11, <1>12, <1>13, <1>14, <1>15, <1>16, <2>1, NextSplit
       DEF Counts, Ends
<1>. QED
  BY <1>1, <1>17 DEF TypeOK, Rest

(***************************************************************************)
(* Every variable of Logins keeps its type.                                *)
(***************************************************************************)
THEOREM TypeCorrect == Spec => []TypeOK
BY InitBase, StepBase, LimitAssumption, PTL DEF Spec, Base

-----------------------------------------------------------------------------
(* Rotation.                                                               *)

(* A browser holds and presents its own tokens.                            *)
Owned ==
  /\ \A b \in Browsers : cookie[b] # 0 => tokens[cookie[b]].user = b
  /\ \A s \in Sessions :
       view[s].token # 0 => tokens[view[s].token].user = view[s].browser

(* The tokens of a login belong to one browser.                            *)
Families ==
  \A t, u \in DOMAIN tokens :
    /\ tokens[t].login <= Len(tokens)
    /\ tokens[t].login = tokens[u].login => tokens[t].user = tokens[u].user

(* A browser outside overlap has one request at most.                      *)
Alone ==
  \A s, r \in Sessions :
    /\ view[s].browser = view[r].browser
    /\ view[s].browser \in Browsers \ overlap
    => s = r

(* Such a browser's refresh finds its token as it was looked up.           *)
Current ==
  \A s \in Sessions :
    pc[s] = "found" /\ view[s].browser \notin overlap
      => tokens[view[s].token].revoked = FALSE

RInv == Base /\ Owned /\ Families /\ Alone /\ Current /\ OneLive

Same(t) == /\ tokens'[t].user = tokens[t].user
           /\ tokens'[t].login = tokens[t].login
           /\ tokens'[t].revoked = tokens[t].revoked

LEMMA TokenFields ==
  ASSUME Base, NEW t \in DOMAIN tokens
  PROVE  /\ tokens[t] \in Token
         /\ tokens[t].user \in Browsers /\ tokens[t].login \in Nat
         /\ tokens[t].revoked \in BOOLEAN
<1>1. tokens[t] \in Token
  BY ElementOfSeq DEF Base, TypeOK
<1>. QED
  BY <1>1 DEF Token

(* The steps that write no token.                                          *)
LEMMA Unwritten ==
  ASSUME Base, [Next]_vars, \A s \in Sessions : ~Writes(s)
  PROVE  DOMAIN tokens' = DOMAIN tokens /\ \A t \in DOMAIN tokens : Same(t)
<1>1. CASE UNCHANGED tokens
  BY <1>1 DEF Same
<1>2. CASE Tick
  <2>1. DOMAIN tokens' = DOMAIN tokens
    BY <1>2 DEF Tick
  <2>2. ASSUME NEW t \in DOMAIN tokens PROVE Same(t)
    <3>1. tokens[t] \in Token
      BY TokenFields
    <3>2. \/ tokens'[t] = tokens[t]
          \/ tokens'[t] = [tokens[t] EXCEPT !.age = Older(@, Lifetime)]
      BY <1>2 DEF Tick
    <3>. QED
      BY <3>1, <3>2 DEF Same, Token
  <2>. QED
    BY <2>1, <2>2
<1>. QED
  BY <1>1, <1>2, NextSplit
     DEF Looks, Counts, Ends, FindToken, FindLogout, LogoutAgain,
         CheckLimit, Reject, WrongPassword, RightPassword, Deliver, Fail,
         Restart, vars

LEMMA Issued ==
  ASSUME LimitAssumption, Base, NEW s \in Sessions, IssueTokenPair(s)
  PROVE  LET n == Len(tokens) + 1 IN
           /\ DOMAIN tokens' = DOMAIN tokens \cup {n} /\ n \notin DOMAIN tokens
           /\ Len(tokens') = n
           /\ \A t \in DOMAIN tokens : Same(t)
           /\ tokens'[n].user = view[s].browser /\ tokens'[n].login = n
           /\ tokens'[n].revoked = FALSE
           /\ view[s].browser \in Browsers
<1>1. tokens \in Seq(Token) /\ Len(tokens) \in Nat /\ view[s].browser \in Browsers
  BY DEF Base, TypeOK, Busy, IssueTokenPair
<1>2. New(view[s].browser, Len(tokens) + 1) \in Token
  BY <1>1 DEF New, Token, LimitAssumption
<1>3. tokens' = Append(tokens, New(view[s].browser, Len(tokens) + 1))
  BY DEF IssueTokenPair
<1>4. /\ DOMAIN tokens' = DOMAIN tokens \cup {Len(tokens) + 1}
      /\ Len(tokens') = Len(tokens) + 1
      /\ \A t \in DOMAIN tokens : tokens'[t] = tokens[t]
      /\ tokens'[Len(tokens) + 1] = New(view[s].browser, Len(tokens) + 1)
  BY <1>1, <1>2, <1>3, AppendToken
<1>. QED
  <2>1. /\ tokens'[Len(tokens) + 1].user = view[s].browser
        /\ tokens'[Len(tokens) + 1].login = Len(tokens) + 1
        /\ tokens'[Len(tokens) + 1].revoked = FALSE
    BY <1>4 DEF New
  <2>. QED
    BY <1>1, <1>4, <2>1 DEF Same

LEMMA LoggedOut ==
  ASSUME LimitAssumption, Base, NEW s \in Sessions, Logout(s)
  PROVE  LET o == view[s].token IN
           /\ o \in DOMAIN tokens
           /\ DOMAIN tokens' = DOMAIN tokens /\ Len(tokens') = Len(tokens)
           /\ \A t \in DOMAIN tokens \ {o} : Same(t)
           /\ tokens'[o].user = tokens[o].user /\ tokens'[o].login = tokens[o].login
           /\ tokens'[o].revoked = TRUE
<1>1. tokens \in Seq(Token) /\ view[s].token \in 1 .. Len(tokens)
  BY DEF Base, TypeOK, Busy, Logout
<1>. QED
  BY <1>1, RevokedType DEF Logout, Same

LEMMA Rotated ==
  ASSUME LimitAssumption, Base, NEW s \in Sessions, Rotate(s)
  PROVE  LET n == Len(tokens) + 1
             o == view[s].token IN
           /\ o \in DOMAIN tokens
           /\ DOMAIN tokens' = DOMAIN tokens \cup {n} /\ n \notin DOMAIN tokens
           /\ Len(tokens') = n
           /\ \A t \in DOMAIN tokens \ {o} : Same(t)
           /\ tokens'[o].user = tokens[o].user /\ tokens'[o].login = tokens[o].login
           /\ tokens'[o].revoked = TRUE
           /\ tokens'[n].user = tokens[o].user
           /\ tokens'[n].login = tokens[o].login
           /\ tokens'[n].revoked = FALSE
<1> DEFINE o == view[s].token
           r == Revoked(o)
           e == New(tokens[o].user, tokens[o].login)
<1>1. tokens \in Seq(Token) /\ Len(tokens) \in Nat /\ o \in 1 .. Len(tokens)
  BY DEF Base, TypeOK, Busy, Rotate
<1>2. e \in Token
  <2>1. tokens[o].user \in Browsers /\ tokens[o].login \in Nat
    BY <1>1, TokenFields
  <2>. QED
    BY <2>1 DEF New, Token, LimitAssumption
<1>3. /\ r \in Seq(Token) /\ Len(r) = Len(tokens) /\ r[o].revoked = TRUE
      /\ \A u \in 1 .. Len(tokens) :
           /\ r[u].user = tokens[u].user /\ r[u].login = tokens[u].login
           /\ u # o => r[u] = tokens[u]
  BY <1>1, RevokedType
<1>4. tokens' = Append(r, e)
  BY DEF Rotate
<1> HIDE DEF r, e
<1>5. /\ DOMAIN tokens' = DOMAIN r \cup {Len(tokens) + 1} /\ Len(tokens') = Len(tokens) + 1
      /\ \A t \in DOMAIN r : tokens'[t] = r[t]
      /\ tokens'[Len(tokens) + 1] = e
  BY <1>2, <1>3, <1>4, AppendToken
<1>6. DOMAIN r = 1 .. Len(tokens) /\ DOMAIN tokens = 1 .. Len(tokens)
  BY <1>1, <1>3
<1>. QED
  <2>1. /\ tokens'[Len(tokens) + 1].user = tokens[o].user
        /\ tokens'[Len(tokens) + 1].login = tokens[o].login
        /\ tokens'[Len(tokens) + 1].revoked = FALSE
    BY <1>5 DEF e, New
  <2>. QED
    BY <1>1, <1>3, <1>5, <1>6, <2>1 DEF Same

(* No step takes a token away, or gives it to somebody else.               *)
LEMMA Keeps ==
  ASSUME LimitAssumption, Base, [Next]_vars, NEW t \in DOMAIN tokens
  PROVE  /\ t \in DOMAIN tokens'
         /\ tokens'[t].user = tokens[t].user
         /\ tokens'[t].login = tokens[t].login
<1>1. ASSUME NEW s \in Sessions, Writes(s)
      PROVE  /\ t \in DOMAIN tokens'
             /\ tokens'[t].user = tokens[t].user
             /\ tokens'[t].login = tokens[t].login
  BY <1>1, Issued, LoggedOut, Rotated DEF Writes, Same
<1>. QED
  BY <1>1, Unwritten DEF Same

LEMMA StepOwned ==
  ASSUME LimitAssumption, Base, Owned, [Next]_vars
  PROVE  Owned'
<1> USE DEF Base
<1>0. /\ \A b \in Browsers : cookie[b] # 0 => cookie[b] \in DOMAIN tokens
      /\ \A s \in Sessions : view[s].token # 0 => view[s].token \in DOMAIN tokens
  BY DEF TypeOK
<1>1. /\ \A b \in Browsers : cookie[b] # 0 => tokens'[cookie[b]].user = b
      /\ \A s \in Sessions :
           view[s].token # 0 => tokens'[view[s].token].user = view[s].browser
  BY <1>0, Keeps DEF Owned
<1>2. ASSUME NEW s \in Sessions, NEW b \in Browsers, NEW to, NEW t \in {0, cookie[b]},
             Send(s, b, to, t), UNCHANGED cookie
      PROVE  Owned'
  BY <1>1, <1>2 DEF Owned, Send, Goto, TypeOK
<1>3. ASSUME NEW s \in Sessions, Close(s), UNCHANGED cookie PROVE Owned'
  BY <1>1, <1>3 DEF Owned, Close, NoView, TypeOK
<1>4. ASSUME UNCHANGED <<cookie, view>> PROVE Owned'
  BY <1>1, <1>4 DEF Owned
<1>5. ASSUME NEW s \in Sessions, Deliver(s) PROVE Owned'
  BY <1>1, <1>5 DEF Owned, Deliver, Close, NoView, TypeOK
<1>6. ASSUME Restart PROVE Owned'
  BY <1>1, <1>6 DEF Owned, Restart, NoView, TypeOK
<1>7. ASSUME NEW s \in Sessions, NEW t \in Nat, UNCHANGED cookie,
             view' = [view EXCEPT ![s] = [view[s] EXCEPT !.token = t]],
             t # 0 => tokens'[t].user = view[s].browser
      PROVE  Owned'
  BY <1>1, <1>7 DEF Owned, TypeOK
<1>8. ASSUME NEW s \in Sessions, IssueTokenPair(s) PROVE Owned'
  <2>1. tokens'[Len(tokens')].user = view[s].browser
    BY <1>8, Issued
  <2>2. /\ view' = [view EXCEPT ![s] = [view[s] EXCEPT !.token = Len(tokens')]]
        /\ UNCHANGED cookie
    BY <1>8 DEF IssueTokenPair, Step, Goto
  <2>3. Len(tokens') \in Nat
    BY StepTokens
  <2>. QED
    BY <1>7, <2>1, <2>2, <2>3
<1>9. ASSUME NEW s \in Sessions, Rotate(s) PROVE Owned'
  <2>1. tokens'[Len(tokens')].user = tokens[view[s].token].user
    BY <1>9, Rotated
  <2>2. view[s].token # 0
    BY <1>9 DEF Rotate, Busy
  <2>3. /\ view' = [view EXCEPT ![s] = [view[s] EXCEPT !.token = Len(tokens')]]
        /\ UNCHANGED cookie
    BY <1>9 DEF Rotate, Step, Goto
  <2>4. Len(tokens') \in Nat
    BY StepTokens
  <2>. QED
    BY <1>7, <2>1, <2>2, <2>3, <2>4 DEF Owned
<1>10. ASSUME NEW s \in Sessions, Logout(s) PROVE Owned'
  <2>1. /\ view' = [view EXCEPT ![s] = [view[s] EXCEPT !.token = 0]]
        /\ UNCHANGED cookie
    BY <1>10 DEF Logout, Step, Goto
  <2>. QED
    BY <1>7, <2>1
<1>11. ASSUME NEW s \in Sessions, Looks(s) \/ CheckLimit(s) PROVE Owned'
  BY <1>2, <1>11, Zenon DEF Looks, FindToken, FindLogout, LogoutAgain, CheckLimit
<1>12. ASSUME NEW s \in Sessions, RightPassword(s) PROVE Owned'
  <2>1. UNCHANGED <<cookie, view>>
    BY <1>12 DEF RightPassword, Step, Goto, TypeOK
  <2>. QED
    BY <1>4, <2>1
<1>13. ASSUME NEW s \in Sessions, WrongPassword(s) \/ Fail(s) \/ Reject(s)
       PROVE  Owned'
  BY <1>3, <1>4, <1>13 DEF WrongPassword, Fail, Reject
<1>14. ASSUME Tick \/ UNCHANGED vars PROVE Owned'
  BY <1>4, <1>14 DEF Tick, vars
<1>. QED
  BY <1>5, <1>6, <1>8, <1>9, <1>10, <1>11, <1>12, <1>13, <1>14, NextSplit
     DEF Counts, Writes, Ends

LEMMA StepFamilies ==
  ASSUME LimitAssumption, Base, Families, [Next]_vars
  PROVE  Families'
<1> USE DEF Base
<1>1. Len(tokens) \in Nat /\ DOMAIN tokens = 1 .. Len(tokens)
      /\ Len(tokens') \in Nat /\ Len(tokens') >= Len(tokens)
  BY StepTokens DEF TypeOK
<1>2. \A t \in DOMAIN tokens :
        /\ tokens'[t].user = tokens[t].user /\ tokens'[t].login = tokens[t].login
        /\ tokens[t].login \in Nat
  BY Keeps, TokenFields
<1>3. CASE DOMAIN tokens' = DOMAIN tokens
  BY <1>1, <1>2, <1>3 DEF Families
<1>4. ASSUME NEW s \in Sessions, IssueTokenPair(s) PROVE Families'
  <2> DEFINE n == Len(tokens) + 1
  <2>1. /\ DOMAIN tokens' = DOMAIN tokens \cup {n} /\ Len(tokens') = n
        /\ tokens'[n].login = n
    BY <1>4, Issued
  <2>2. \A t \in DOMAIN tokens : tokens'[t].login <= Len(tokens) /\ tokens'[t].login # n
    BY <1>1, <1>2 DEF Families
  <2>. QED
    BY <1>1, <1>2, <2>1, <2>2 DEF Families
<1>5. ASSUME NEW s \in Sessions, Rotate(s) PROVE Families'
  <2> DEFINE n == Len(tokens) + 1
             o == view[s].token
  <2>1. /\ DOMAIN tokens' = DOMAIN tokens \cup {n} /\ Len(tokens') = n
        /\ tokens'[n].login = tokens[o].login /\ tokens'[n].user = tokens[o].user
        /\ o \in DOMAIN tokens
    BY <1>5, Rotated
  <2>. QED
    BY <1>1, <1>2, <2>1 DEF Families
<1>6. ASSUME NEW s \in Sessions, Logout(s) PROVE DOMAIN tokens' = DOMAIN tokens
  BY <1>6, LoggedOut
<1>. QED
  BY <1>3, <1>4, <1>5, <1>6, Unwritten DEF Writes

(* overlap only grows.                                                     *)
LEMMA StepOverlap == [Next]_vars => overlap \subseteq overlap'
BY DEF Next, vars, CheckLimit, Reject, WrongPassword, RightPassword, IssueTokenPair,
       FindToken, Rotate, FindLogout, LogoutAgain, Logout, Deliver, Fail, Restart,
       Tick, Send, Step, Close

LEMMA StepAlone ==
  ASSUME Base, Alone, [Next]_vars
  PROVE  Alone'
<1> USE DEF Base
<1>0. overlap \subseteq overlap'
  BY StepOverlap
<1>1. ASSUME NEW s \in Sessions, NEW b \in Browsers, NEW to, NEW t, Send(s, b, to, t)
      PROVE  Alone'
  <2>1. view' = [view EXCEPT ![s] = [browser |-> b, token |-> t]]
    BY <1>1 DEF Send, Goto
  <2>2. b \notin overlap' => \A r \in Sessions : view[r].browser # b
    BY <1>1 DEF Send, Requests
  <2>. QED
    BY <1>0, <2>1, <2>2 DEF Alone, TypeOK
<1>2. ASSUME NEW s \in Sessions, Close(s) PROVE Alone'
  BY <1>0, <1>2, NoneAssumption DEF Alone, Close, NoView, TypeOK
<1>3. ASSUME \A s \in Sessions : view'[s].browser = view[s].browser PROVE Alone'
  BY <1>0, <1>3 DEF Alone
<1>4. ASSUME Restart PROVE Alone'
  BY <1>4, NoneAssumption DEF Alone, Restart, NoView
<1>5. ASSUME NEW s \in Sessions, Looks(s) \/ CheckLimit(s) PROVE Alone'
  BY <1>1, <1>5, Zenon DEF Looks, FindToken, FindLogout, LogoutAgain, CheckLimit
<1>6. ASSUME NEW s \in Sessions, Writes(s) \/ RightPassword(s) \/ Reject(s)
      PROVE  \A r \in Sessions : view'[r].browser = view[r].browser
  <2>1. CASE view' = view \/ view' = [view EXCEPT ![s] = view[s]]
    BY <2>1 DEF TypeOK
  <2>2. ASSUME NEW t, view' = [view EXCEPT ![s] = [view[s] EXCEPT !.token = t]]
        PROVE  \A r \in Sessions : view'[r].browser = view[r].browser
    BY <2>2 DEF TypeOK
  <2>3. CASE Writes(s)
    BY <2>2, <2>3 DEF Writes, IssueTokenPair, Rotate, Logout, Step, Goto
  <2>. QED
    BY <1>6, <2>1, <2>3 DEF RightPassword, Reject, Step, Goto
<1>7. ASSUME NEW s \in Sessions, Ends(s) \/ WrongPassword(s) PROVE Alone'
  BY <1>2, <1>7 DEF Ends, Deliver, Fail, WrongPassword
<1>8. ASSUME Tick \/ UNCHANGED vars PROVE Alone'
  BY <1>3, <1>8 DEF Tick, vars
<1>. QED
  BY <1>3, <1>4, <1>5, <1>6, <1>7, <1>8, NextSplit DEF Counts

(* The token a session writes is its browser's; another session that is    *)
(* outside overlap has another token.                                      *)
LEMMA OthersToken ==
  ASSUME Base, Owned, Alone, NEW s \in Sessions, NEW r \in Sessions, r # s,
         view[s].token # 0, view[s].token = view[r].token,
         view[r].browser \in Browsers \ overlap
  PROVE  FALSE
BY DEF Owned, Alone

LEMMA StepCurrent ==
  ASSUME LimitAssumption, Base, Owned, Alone, Current, [Next]_vars
  PROVE  Current'
<1> SUFFICES ASSUME NEW r \in Sessions, pc'[r] = "found",
                    view'[r].browser \notin overlap'
             PROVE  tokens'[view'[r].token].revoked = FALSE
  BY DEF Current
<1>1. overlap \subseteq overlap'
  BY StepOverlap
<1>2. CASE FindToken(r)
  <2>1. /\ pc'[r] = "found" /\ tokens' = tokens
        /\ \E b \in Browsers : /\ cookie[b] # 0 /\ ~tokens[cookie[b]].revoked
                               /\ view'[r].token = cookie[b]
    BY <1>2 DEF FindToken, Send, Goto, Base, TypeOK
  <2>2. PICK b \in Browsers : /\ cookie[b] # 0 /\ ~tokens[cookie[b]].revoked
                             /\ view'[r].token = cookie[b]
    BY <2>1
  <2>3. cookie[b] \in DOMAIN tokens
    BY <2>2 DEF Base, TypeOK
  <2>. QED
    BY <2>1, <2>2, <2>3, TokenFields
<1>3. CASE ~FindToken(r)
  <2>1. pc[r] = "found" /\ view'[r] = view[r]
    <3>1. CASE UNCHANGED <<pc, view>>
      BY <3>1
    <3>2. ASSUME NEW s \in Sessions,
                 \/ FindLogout(s) \/ LogoutAgain(s) \/ CheckLimit(s)
                 \/ WrongPassword(s) \/ RightPassword(s) \/ Writes(s) \/ Ends(s)
          PROVE  pc[r] = "found" /\ view'[r] = view[r]
      BY <3>2 DEF FindLogout, LogoutAgain, CheckLimit, WrongPassword, RightPassword,
                  Writes, IssueTokenPair, Rotate, Logout, Ends, Deliver, Fail,
                  Send, Step, Goto, Close, Base, TypeOK
    <3>3. ASSUME NEW s \in Sessions, FindToken(s)
          PROVE  pc[r] = "found" /\ view'[r] = view[r]
      BY <1>3, <3>3 DEF FindToken, Send, Goto, Base, TypeOK
    <3>4. ~Restart
      BY DEF Restart
    <3>. QED
      BY <3>1, <3>2, <3>3, <3>4, NextSplit
         DEF Looks, Counts, Reject, Tick, vars
  <2>2. /\ view[r].token \in DOMAIN tokens /\ view[r].token # 0
        /\ view[r].browser \in Browsers \ overlap
        /\ tokens[view[r].token].revoked = FALSE
    BY <1>1, <2>1 DEF Current, Base, Busy, TypeOK
  <2>3. ASSUME NEW s \in Sessions, Writes(s), view[r].token # view[s].token
        PROVE  tokens'[view[r].token].revoked = FALSE
    BY <2>2, <2>3, Issued, Rotated, LoggedOut DEF Writes, Same
  <2>4. ASSUME NEW s \in Sessions, IssueTokenPair(s)
        PROVE  tokens'[view[r].token].revoked = FALSE
    BY <2>2, <2>4, Issued DEF Same
  <2>5. ASSUME NEW s \in Sessions, Rotate(s) \/ Logout(s),
               view[r].token = view[s].token
        PROVE  FALSE
    <3>1. pc'[s] # "found" /\ view[s].token # 0
      BY <2>5 DEF Rotate, Logout, Step, Goto, Base, Busy, TypeOK
    <3>. QED
      BY <2>2, <2>5, <3>1, OthersToken
  <2>. QED
    BY <2>1, <2>2, <2>3, <2>4, <2>5, Unwritten DEF Writes, Same
<1>. QED
  BY <1>2, <1>3

LEMMA StepOneLive ==
  ASSUME LimitAssumption, RInv, [Next]_vars
  PROVE  OneLive'
<1> USE DEF RInv
<1> SUFFICES ASSUME NEW t \in DOMAIN tokens', NEW u \in DOMAIN tokens',
                    tokens'[t].user \notin overlap',
                    ~tokens'[t].revoked, ~tokens'[u].revoked,
                    tokens'[t].login = tokens'[u].login
             PROVE  t = u
  BY DEF OneLive, Live
<1>1. overlap \subseteq overlap'
  BY StepOverlap
<1>2. CASE t \in DOMAIN tokens /\ u \in DOMAIN tokens
  <2>1. ASSUME NEW v \in DOMAIN tokens, ~tokens'[v].revoked
        PROVE  ~tokens[v].revoked
    <3>1. ASSUME NEW s \in Sessions, Writes(s) PROVE ~tokens[v].revoked
      BY <2>1, <3>1, Issued, Rotated, LoggedOut DEF Writes, Same
    <3>. QED
      BY <2>1, <3>1, Unwritten DEF Same
  <2>. QED
    BY <1>1, <1>2, <2>1, Keeps DEF OneLive, Live
<1>3. ASSUME NEW v \in DOMAIN tokens', v \notin DOMAIN tokens,
             NEW w \in DOMAIN tokens,
             \/ tokens'[v].user \notin overlap'
             \/ tokens'[w].user \notin overlap',
             ~tokens'[v].revoked, ~tokens'[w].revoked,
             tokens'[v].login = tokens'[w].login
      PROVE  FALSE
  <2>1. /\ tokens'[w].user = tokens[w].user /\ tokens'[w].login = tokens[w].login
        /\ tokens[w].login <= Len(tokens) /\ tokens[w].login \in Nat
        /\ Len(tokens) \in Nat
    BY Keeps, TokenFields DEF Families, Base, TypeOK
  <2>2. ASSUME NEW s \in Sessions, IssueTokenPair(s) PROVE FALSE
    <3>1. tokens'[v].login = Len(tokens) + 1
      BY <1>3, <2>2, Issued
    <3>. QED
      BY <1>3, <2>1, <3>1
  <2>3. ASSUME NEW s \in Sessions, Rotate(s) PROVE FALSE
    <3> DEFINE o == view[s].token
    <3>1. /\ o \in DOMAIN tokens
          /\ tokens'[v].user = tokens[o].user /\ tokens'[v].login = tokens[o].login
          /\ tokens'[o].revoked = TRUE
      BY <1>3, <2>3, Rotated
    <3>2. w # o /\ ~tokens[w].revoked
      BY <1>3, <2>3, <3>1, Rotated DEF Same
    <3>3. tokens[w].user = tokens[o].user
      BY <1>3, <2>1, <3>1 DEF Families
    <3>4. tokens[o].user \notin overlap
      BY <1>1, <1>3, <2>1, <3>1, <3>3
    <3>5. tokens[o].revoked = FALSE
      <4>1. pc[s] = "found" /\ view[s].browser = tokens[o].user
        BY <2>3 DEF Rotate, Owned, Base, Busy
      <4>. QED
        BY <3>4, <4>1 DEF Current
    <3>. QED
      BY <1>3, <2>1, <3>1, <3>2, <3>4, <3>5 DEF OneLive, Live
  <2>4. ASSUME NEW s \in Sessions, Logout(s) PROVE FALSE
    BY <1>3, <2>4, LoggedOut
  <2>. QED
    BY <1>3, <2>2, <2>3, <2>4, Unwritten DEF Writes
<1>4. CASE t \notin DOMAIN tokens /\ u \notin DOMAIN tokens
  <2>1. ASSUME NEW s \in Sessions, Writes(s) PROVE t = u
    <3>1. \/ DOMAIN tokens' = DOMAIN tokens
          \/ DOMAIN tokens' = DOMAIN tokens \cup {Len(tokens) + 1}
      BY <2>1, Issued, Rotated, LoggedOut DEF Writes
    <3>. QED
      BY <1>4, <3>1
  <2>. QED
    BY <1>4, <2>1, Unwritten
<1>. QED
  BY <1>2, <1>3, <1>4

(***************************************************************************)
(* Of the tokens of one login at most one can be used, for every browser   *)
(* that waits for its replies.                                             *)
(***************************************************************************)
THEOREM Rotation == Spec => []OneLive
<1>1. Init => RInv
  BY InitBase, NoneAssumption
     DEF Init, RInv, Owned, Families, Alone, Current, OneLive, NoView
<1>2. RInv /\ [Next]_vars => RInv'
  BY LimitAssumption, StepBase, StepOwned, StepFamilies, StepAlone, StepCurrent,
     StepOneLive DEF RInv
<1>. QED
  BY <1>1, <1>2, PTL DEF Spec, RInv

-----------------------------------------------------------------------------
(* The limit.                                                              *)

Within(b) ==
  Len(attempts[b]) + Cardinality(Counting(b))
    < MaxAttempts + IF b \in overlap THEN Cardinality(Sessions) ELSE 1

LEMMA CountingFinite ==
  ASSUME IsFiniteSet(Sessions), NEW C \in SUBSET Sessions
  PROVE  /\ IsFiniteSet(C) /\ Cardinality(C) \in Nat
         /\ Cardinality(C) <= Cardinality(Sessions)
         /\ Cardinality(Sessions) \in Nat
BY FS_Subset, FS_CardinalityType

(* With no more attempts and no more requests that count, the limit holds  *)
(* as it did, and a browser that comes into overlap gets a wider one.      *)
LEMMA WithinStays ==
  ASSUME IsFiniteSet(Sessions), LimitAssumption, NEW s \in Sessions,
         NEW b \in Browsers,
         Within(b), overlap \subseteq overlap',
         Len(attempts[b]) \in Nat, Len(attempts'[b]) \in Nat,
         Len(attempts'[b]) <= Len(attempts[b]), Counting(b)' \subseteq Counting(b)
  PROVE  Within(b)'
<1> DEFINE c == Cardinality(Counting(b))
           d == Cardinality(Counting(b)')
           n == Cardinality(Sessions)
<1>1. /\ c \in Nat /\ d \in Nat /\ n \in Nat /\ d <= c
  <2>1. Counting(b) \in SUBSET Sessions /\ Counting(b)' \in SUBSET Sessions
    BY DEF Counting
  <2>2. IsFiniteSet(Counting(b))
    BY <2>1, CountingFinite
  <2>. QED
    BY <2>1, <2>2, CountingFinite, FS_Subset
<1>2. n >= 1
  <2>1. Cardinality({s}) = 1
    BY FS_Singleton
  <2>2. Cardinality({s}) <= n
    BY FS_Subset
  <2>. QED
    BY <1>1, <2>1, <2>2
<1>3. Len(attempts[b]) + c < MaxAttempts + IF b \in overlap THEN n ELSE 1
  BY DEF Within
<1> HIDE DEF c, d, n
<1>4. Len(attempts'[b]) + d < MaxAttempts + IF b \in overlap' THEN n ELSE 1
  BY <1>1, <1>2, <1>3 DEF LimitAssumption
<1>. QED
  BY <1>4 DEF Within, d, n

(***************************************************************************)
(* A browser gets past the limit by what it has in flight at most, and not *)
(* at all when it waits for its replies, for any number of sessions.       *)
(***************************************************************************)
THEOREM Limit ==
  ASSUME IsFiniteSet(Sessions)
  PROVE  Spec => []LimitHolds
<1> DEFINE LInv == Base /\ LimitHolds
<1> USE LimitAssumption
<1>0. MaxAttempts \in Nat \ {0}
  BY DEF LimitAssumption
<1>1. Init => LInv
  <2> SUFFICES ASSUME Init PROVE LimitHolds
    BY InitBase
  <2>1. \A b \in Browsers : Counting(b) = {} /\ Len(attempts[b]) = 0 /\ b \notin overlap
    BY DEF Init, Counting
  <2>2. Cardinality({}) = 0
    BY FS_EmptySet
  <2>3. \A b \in Browsers : Cardinality(Counting(b)) = 0
    BY <2>1, <2>2
  <2>. QED
    BY <1>0, <2>1, <2>3 DEF LimitHolds
<1>2. LInv /\ [Next]_vars => LInv'
  <2> SUFFICES ASSUME LInv, [Next]_vars, NEW b \in Browsers PROVE Within(b)'
    BY StepBase DEF LimitHolds, Within
  <2> USE DEF Base
  <2>1. /\ Within(b) /\ overlap \subseteq overlap'
        /\ attempts[b] \in Seq(0 .. Window) /\ attempts'[b] \in Seq(0 .. Window)
        /\ Len(attempts[b]) \in Nat /\ Len(attempts'[b]) \in Nat
    BY StepOverlap, StepAttempts DEF LimitHolds, Within, TypeOK
  <2>2. ASSUME NEW s \in Sessions, Len(attempts'[b]) <= Len(attempts[b]),
               Counting(b)' \subseteq Counting(b)
        PROVE  Within(b)'
    BY <2>1, <2>2, WithinStays
  <2>3. ASSUME UNCHANGED <<pc, view, overlap>>, Len(attempts'[b]) = Len(attempts[b])
        PROVE  Within(b)'
    BY <2>1, <2>3 DEF Within, Counting
  <2>4. ASSUME NEW s \in Sessions, Looks(s) \/ Writes(s) \/ Ends(s)
        PROVE  Within(b)'
    <3>1. attempts'[b] = attempts[b]
      BY <2>4 DEF Looks, Writes, Ends, FindToken, FindLogout, LogoutAgain,
                  IssueTokenPair, Rotate, Logout, Deliver, Fail
    <3>2. \A r \in Sessions : pc'[r] = "checked" => pc[r] = "checked" /\ view'[r] = view[r]
      BY <2>4 DEF Looks, Writes, Ends, FindToken, FindLogout, LogoutAgain,
                  IssueTokenPair, Rotate, Logout, Deliver, Fail, Send, Step,
                  Goto, Close, TypeOK
    <3>. QED
      BY <2>1, <2>2, <3>1, <3>2 DEF Counting
  <2>5. ASSUME NEW s \in Sessions, Reject(s) PROVE Within(b)'
    <3>1. Len(attempts'[b]) <= Len(attempts[b])
      BY <2>1, <2>5, FreshType DEF Reject, TypeOK
    <3>2. Counting(b)' = Counting(b)
      BY <2>5 DEF Reject, Counting
    <3>. QED
      BY <2>2, <3>1, <3>2
  <2>6. ASSUME NEW s \in Sessions, RightPassword(s) PROVE Within(b)'
    <3>1. Len(attempts'[b]) <= Len(attempts[b])
      BY <2>1, <2>6 DEF RightPassword, TypeOK
    <3>2. Counting(b)' \subseteq Counting(b)
      BY <2>6 DEF RightPassword, Step, Goto, Counting, TypeOK
    <3>. QED
      BY <2>2, <3>1, <3>2
  <2>7. ASSUME NEW s \in Sessions, WrongPassword(s) PROVE Within(b)'
    <3>1. /\ pc[s] = "checked" /\ view[s].browser \in Browsers
          /\ \A r \in Sessions : pc'[r] = "checked" <=> r # s /\ pc[r] = "checked"
          /\ \A r \in Sessions \ {s} : view'[r] = view[r]
          /\ overlap' = overlap
      BY <2>7 DEF WrongPassword, Close, TypeOK, Busy
    <3>2. CASE view[s].browser # b
      <4>1. attempts'[b] = attempts[b] /\ Counting(b)' \subseteq Counting(b)
        BY <2>7, <3>1, <3>2 DEF WrongPassword, Counting, TypeOK
      <4>. QED
        BY <2>1, <2>2, <4>1
    <3>3. CASE view[s].browser = b
      <4>1. Counting(b)' = Counting(b) \ {s} /\ s \in Counting(b)
        BY <3>1, <3>3 DEF Counting
      <4>2. Len(attempts'[b]) = Len(attempts[b]) + 1
        <5>1. attempts'[b] = Append(attempts[b], 0)
          BY <2>7, <3>3 DEF WrongPassword, TypeOK
        <5>2. 0 \in 0 .. Window
          BY DEF LimitAssumption
        <5>. QED
          BY <2>1, <5>1, <5>2, AppendProperties
      <4>3. IsFiniteSet(Counting(b)) /\ Cardinality(Counting(b)) \in Nat
        BY CountingFinite DEF Counting
      <4>4. Cardinality(Counting(b)') = Cardinality(Counting(b)) - 1
        BY <4>1, <4>3, FS_RemoveElement
      <4>. QED
        BY <2>1, <3>1, <4>2, <4>3, <4>4 DEF Within
    <3>. QED
      BY <3>2, <3>3
  <2>8. ASSUME NEW s \in Sessions, CheckLimit(s) PROVE Within(b)'
    <3>1. PICK a \in Browsers : /\ Send(s, a, "checked", 0)
                               /\ attempts' = [attempts EXCEPT ![a] = Fresh(attempts[a])]
                               /\ Len(attempts'[a]) < MaxAttempts
      BY <2>8 DEF CheckLimit
    <3>2. /\ pc' = [pc EXCEPT ![s] = "checked"]
          /\ view' = [view EXCEPT ![s] = [browser |-> a, token |-> 0]]
          /\ overlap' = IF Requests(a) = {} THEN overlap ELSE overlap \cup {a}
          /\ pc[s] = "idle"
      BY <3>1 DEF Send, Goto
    <3>3. CASE a # b
      <4>1. attempts'[b] = attempts[b] /\ Counting(b)' \subseteq Counting(b)
        BY <3>1, <3>2, <3>3 DEF Counting, TypeOK
      <4>. QED
        BY <2>1, <2>2, <4>1
    <3>4. CASE a = b /\ b \in overlap'
      <4>1. Counting(b)' \in SUBSET Sessions
        BY DEF Counting
      <4>2. /\ Cardinality(Counting(b)') \in Nat /\ Cardinality(Sessions) \in Nat
            /\ Cardinality(Counting(b)') <= Cardinality(Sessions)
        BY <4>1, CountingFinite
      <4>. QED
        BY <1>0, <2>1, <3>1, <3>4, <4>2 DEF Within
    <3>5. CASE a = b /\ b \notin overlap'
      <4>1. Requests(b) = {}
        BY <3>2, <3>5
      <4>2. Counting(b)' = {s}
        BY <3>2, <3>5, <4>1 DEF Requests, Counting, TypeOK
      <4>3. Cardinality(Counting(b)') = 1
        BY <4>2, FS_Singleton
      <4>. QED
        BY <1>0, <2>1, <3>1, <3>5, <4>3 DEF Within
    <3>. QED
      BY <3>3, <3>4, <3>5
  <2>9. ASSUME Restart PROVE Within(b)'
    <3>1. Counting(b)' = {} /\ Len(attempts'[b]) = 0
      BY <2>9 DEF Restart, Counting
    <3>2. Cardinality(Counting(b)') = 0
      BY <3>1, FS_EmptySet
    <3>3. Cardinality(Sessions) \in Nat
      BY CountingFinite
    <3>. QED
      BY <1>0, <3>1, <3>2, <3>3 DEF Within
  <2>10. ASSUME Tick PROVE Within(b)'
    <3>1. Len(attempts'[b]) = Len(attempts[b])
      BY <2>1, <2>10, TickType DEF Tick
    <3>. QED
      BY <2>3, <2>10, <3>1 DEF Tick
  <2>11. CASE UNCHANGED vars
    BY <2>3, <2>11 DEF vars
  <2>. QED
    BY <2>4, <2>5, <2>6, <2>7, <2>8, <2>9, <2>10, <2>11, NextSplit DEF Counts
<1>. QED
  BY <1>1, <1>2, PTL DEF Spec
=============================================================================
