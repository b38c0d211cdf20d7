------------------------------- MODULE Logins -------------------------------
(***************************************************************************)
(* Staying logged in: login, refresh and logout of                         *)
(* src/app/routers/auth.py over the table refresh_tokens, the counter of   *)
(* failed attempts kept in the process, and the cookie each browser holds. *)
(*                                                                         *)
(* Time is the age of attempts and tokens, in ticks and as far as it       *)
(* matters.  A browser logs in to one account from one host, so that it    *)
(* also stands for a key of the counter.  register counts its attempts the *)
(* same way: its CheckLimit, and its rejections as WrongPassword.          *)
(***************************************************************************)
EXTENDS Naturals, Sequences, FiniteSets

CONSTANTS
  Sessions,     \* requests in flight at the same time
  Browsers,
  MaxAttempts,  \* AUTH_RATE_LIMIT_MAX_ATTEMPTS
  Window,       \* AUTH_RATE_LIMIT_WINDOW_SECONDS, in ticks
  Lifetime,     \* refresh_token_expires_seconds, in ticks
  MaxTokens,    \* bound: tokens ever issued
  None          \* no browser

ASSUME NoneAssumption == None \notin Browsers
ASSUME LimitAssumption == {MaxAttempts, Window, Lifetime} \subseteq Nat \ {0}
ASSUME BoundAssumption == MaxTokens \in Nat

VARIABLES
  attempts,  \* _auth_attempts: the age of each failure, the oldest first
  tokens,    \* the refresh_tokens rows, by id
  cookie,    \* the id of the token each browser holds, 0 for none
  overlap,   \* history: the browsers that have had two requests in flight
  pc,        \* how far each session's request has come
  view       \* whose request it is, and the token it has read or answers with

vars == <<attempts, tokens, cookie, overlap, pc, view>>

(* login is history: the first token of the chain this one has come from.  *)
(* Nothing reads replaced_by_token_id.                                     *)
Token == [user : Browsers, age : 0 .. Lifetime, revoked : BOOLEAN, login : Nat]
NoView == [browser |-> None, token |-> 0]

TypeOK ==
  /\ attempts \in [Browsers -> Seq(0 .. Window)]
  /\ tokens \in Seq(Token)
  /\ cookie \in [Browsers -> 0 .. Len(tokens)]
  /\ overlap \subseteq Browsers
  /\ pc \in [Sessions -> {"idle", "checked", "verified", "found", "logout", "reply"}]
  /\ view \in [Sessions -> [browser : Browsers \cup {None}, token : 0 .. Len(tokens)]]

Init == /\ attempts = [b \in Browsers |-> <<>>]
        /\ tokens = <<>>
        /\ cookie = [b \in Browsers |-> 0]
        /\ overlap = {}
        /\ pc = [s \in Sessions |-> "idle"]
        /\ view = [s \in Sessions |-> NoView]

-----------------------------------------------------------------------------
Goto(s, from, to, read) ==
  /\ pc[s] = from
  /\ pc' = [pc EXCEPT ![s] = to]
  /\ view' = [view EXCEPT ![s] = read]

Step(s, from, to, read) == Goto(s, from, to, read) /\ UNCHANGED overlap

Close(s) == /\ pc' = [pc EXCEPT ![s] = "idle"]
            /\ view' = [view EXCEPT ![s] = NoView]
            /\ UNCHANGED overlap

Requests(b) == {s \in Sessions : view[s].browser = b}

Send(s, b, to, t) ==
  /\ overlap' = IF Requests(b) = {} THEN overlap ELSE overlap \cup {b}
  /\ Goto(s, "idle", to, [browser |-> b, token |-> t])

(* The attempts inside the window.  They are in the order in which they    *)
(* were recorded: those that have left it are the first.                   *)
Fresh(q) == SubSeq(q, Cardinality({i \in DOMAIN q : q[i] >= Window}) + 1, Len(q))

Revoked(t) == [tokens EXCEPT ![t].revoked = TRUE]

-----------------------------------------------------------------------------
(* login.                                                                  *)

(* Mutant: one attempt more than the limit.                                *)
CheckBeyondLimit(s) ==
  \E b \in Browsers :
    /\ Send(s, b, "checked", 0)
    /\ attempts' = [attempts EXCEPT ![b] = Fresh(@)]
    /\ Len(attempts'[b]) <= MaxAttempts
    /\ UNCHANGED <<tokens, cookie>>

(* check_auth_rate_limit, before the user is looked up.                    *)
CheckLimit(s) ==
  \E b \in Browsers :
    /\ Send(s, b, "checked", 0)
    /\ attempts' = [attempts EXCEPT ![b] = Fresh(@)]
    /\ Len(attempts'[b]) < MaxAttempts
    /\ UNCHANGED <<tokens, cookie>>

(* Mutant: a rejected request counts as the latest attempt.                *)
RejectCounted(s) ==
  \E b \in Browsers :
    /\ pc[s] = "idle"
    /\ Len(Fresh(attempts[b])) >= MaxAttempts
    /\ attempts' = [attempts EXCEPT ![b] = Append(Tail(Fresh(@)), 0)]
    /\ UNCHANGED <<tokens, cookie, overlap, pc, view>>

(* 429.                                                                    *)
Reject(s) ==
  \E b \in Browsers :
    /\ pc[s] = "idle"
    /\ Len(Fresh(attempts[b])) >= MaxAttempts
    /\ attempts' = [attempts EXCEPT ![b] = Fresh(@)]
    /\ UNCHANGED <<tokens, cookie, overlap, pc, view>>

(* record_auth_failure, for an unknown user as for a wrong password.       *)
WrongPassword(s) ==
  /\ pc[s] = "checked"
  /\ attempts' = [attempts EXCEPT ![view[s].browser] = Append(@, 0)]
  /\ Close(s)
  /\ UNCHANGED <<tokens, cookie>>

(* clear_auth_failures, before issue_token_pair waits for its commit.      *)
RightPassword(s) ==
  /\ Step(s, "checked", "verified", view[s])
  /\ attempts' = [attempts EXCEPT ![view[s].browser] = <<>>]
  /\ UNCHANGED <<tokens, cookie>>

New(b, login) == [user |-> b, age |-> 0, revoked |-> FALSE, login |-> login]

IssueTokenPair(s) ==
  LET b == view[s].browser IN
    /\ pc[s] = "verified" /\ Len(tokens) < MaxTokens
    /\ tokens' = Append(tokens, New(b, Len(tokens) + 1))
    /\ Step(s, "verified", "reply", [view[s] EXCEPT !.token = Len(tokens')])
    /\ UNCHANGED <<attempts, cookie>>

-----------------------------------------------------------------------------
(* refresh.                                                                *)

(* Mutant: the token may have been used before.                            *)
FindAnyToken(s) ==
  \E b \in Browsers :
    /\ cookie[b] # 0
    /\ tokens[cookie[b]].age < Lifetime
    /\ Send(s, b, "found", cookie[b])
    /\ UNCHANGED <<attempts, tokens, cookie>>

(* The SELECT of the token; one that is revoked or has expired gets a 401. *)
FindToken(s) ==
  \E b \in Browsers :
    /\ cookie[b] # 0
    /\ ~tokens[cookie[b]].revoked
    /\ tokens[cookie[b]].age < Lifetime
    /\ Send(s, b, "found", cookie[b])
    /\ UNCHANGED <<attempts, tokens, cookie>>

(* After the SELECT of the user: the flush takes the write lock, so that   *)
(* the new row and the UPDATE of the old one, by id, are one step.         *)
Rotate(s) ==
  LET old == tokens[view[s].token] IN
    /\ pc[s] = "found" /\ Len(tokens) < MaxTokens
    /\ tokens' = Append(Revoked(view[s].token), New(old.user, old.login))
    /\ Step(s, "found", "reply", [view[s] EXCEPT !.token = Len(tokens')])
    /\ UNCHANGED <<attempts, cookie>>

-----------------------------------------------------------------------------
(* logout.                                                                 *)

(* With a token that is not revoked, expired or not, a commit follows;     *)
(* otherwise the cookie is cleared at once.                                *)
FindLogout(s) ==
  \E b \in Browsers :
    /\ cookie[b] # 0
    /\ ~tokens[cookie[b]].revoked
    /\ Send(s, b, "logout", cookie[b])
    /\ UNCHANGED <<attempts, tokens, cookie>>

LogoutAgain(s) ==
  \E b \in Browsers :
    /\ cookie[b] # 0 => tokens[cookie[b]].revoked
    /\ Send(s, b, "reply", 0)
    /\ UNCHANGED <<attempts, tokens, cookie>>

Logout(s) ==
  /\ pc[s] = "logout"
  /\ tokens' = Revoked(view[s].token)
  /\ Step(s, "logout", "reply", [view[s] EXCEPT !.token = 0])
  /\ UNCHANGED <<attempts, cookie>>

-----------------------------------------------------------------------------
(* What happens around the handlers.                                       *)

(* The reply sets or clears the cookie.                                    *)
Deliver(s) ==
  /\ pc[s] = "reply"
  /\ cookie' = [cookie EXCEPT ![view[s].browser] = view[s].token]
  /\ Close(s)
  /\ UNCHANGED <<attempts, tokens>>

(* An error rolls back what is not committed; a reply may be lost.         *)
Fail(s) == pc[s] # "idle" /\ Close(s) /\ UNCHANGED <<attempts, tokens, cookie>>

(* The process and its memory end, with the requests in flight.            *)
Restart ==
  /\ attempts' = [b \in Browsers |-> <<>>]
  /\ pc' = [s \in Sessions |-> "idle"]
  /\ view' = [s \in Sessions |-> NoView]
  /\ UNCHANGED <<tokens, cookie, overlap>>

Older(age, limit) == IF age < limit THEN age + 1 ELSE limit

(* Nothing depends on the age of a token that is revoked.                  *)
Tick ==
  /\ attempts' = [b \in Browsers |->
                    [i \in DOMAIN attempts[b] |-> Older(attempts[b][i], Window)]]
  /\ tokens' = [t \in DOMAIN tokens |->
                  IF tokens[t].revoked THEN tokens[t]
                  ELSE [tokens[t] EXCEPT !.age = Older(@, Lifetime)]]
  /\ UNCHANGED <<cookie, overlap, pc, view>>

Next ==
  \/ \E s \in Sessions :
       \/ CheckLimit(s) \/ Reject(s) \/ WrongPassword(s) \/ RightPassword(s)
       \/ IssueTokenPair(s) \/ FindToken(s) \/ Rotate(s)
       \/ FindLogout(s) \/ LogoutAgain(s) \/ Logout(s) \/ Deliver(s)
       \/ Fail(s)
  \/ Restart
  \/ Tick

Spec == Init /\ [][Next]_vars

(* Time goes on.                                                           *)
FairSpec == Spec /\ WF_vars(Tick)

-----------------------------------------------------------------------------
(* Properties.                                                             *)

(***************************************************************************)
(* Refresh tokens rotate: of all the tokens that have come from one login  *)
(* at most one can be used, through lost replies, restarts and whatever    *)
(* other browsers do, as long as the browser sends one request at a time.  *)
(***************************************************************************)
Live(t) == ~tokens[t].revoked
OneLive ==
  \A t, u \in DOMAIN tokens :
    /\ tokens[t].user \notin overlap
    /\ Live(t) /\ Live(u) /\ tokens[t].login = tokens[u].login
    => t = u

(***************************************************************************)
(* The counter is read before the user is looked up and written after it:  *)
(* a browser that sends several requests at once gets past the limit by as *)
(* many as are in flight and by no more, and one that waits for each reply *)
(* does not get past it.                                                   *)
(***************************************************************************)
Counting(b) == {s \in Sessions : pc[s] = "checked" /\ view[s].browser = b}
LimitHolds ==
  \A b \in Browsers :
    Len(attempts[b]) + Cardinality(Counting(b))
      < MaxAttempts + IF b \in overlap THEN Cardinality(Sessions) ELSE 1

(* Whoever has been locked out is let in again by waiting, also when the   *)
(* browser goes on trying meanwhile.                                       *)
LockedOut(b) == Len(Fresh(attempts[b])) >= MaxAttempts
LockoutEnds == \A b \in Browsers : LockedOut(b) ~> ~LockedOut(b)
=============================================================================
