----------------------------- MODULE Inventions -----------------------------
(***************************************************************************)
(* The inventions of the campaign and what the characters draw from them:  *)
(* src/app/routers/inventions.py over the tables inventions and            *)
(* character_inventions, and characters.invengineer_enabled.               *)
(*                                                                         *)
(* A draw writes first, to get SQLite's write lock, and reads the          *)
(* catalogue under the lock; writer is the session that holds it.  The     *)
(* other handlers decide on what they have read and write in one step,     *)
(* for which the lock must be free.  A write that waits for the lock too   *)
(* long fails.                                                             *)
(***************************************************************************)
EXTENDS Naturals, FiniteSets, Sequences, Functions

CONSTANTS
  Sessions,    \* requests in flight at the same time
  Characters,
  Catalogue,   \* name keys of inventions
  DrawCount,   \* inventions in a draw
  None         \* nobody

ASSUME CountAssumption == DrawCount \in Nat \ {0}
ASSUME NobodyAssumption == None \notin Sessions

VARIABLES
  known,    \* the inventions rows
  active,   \* those of them with is_active
  enabled,  \* characters.invengineer_enabled
  drawn,    \* the character_inventions rows of each character, by position
  writer,   \* the session that holds the write lock
  pc,       \* how far each session's request has come
  view      \* what it has read: the character or invention, and its picks

db == <<known, active, enabled, drawn>>
vars == <<known, active, enabled, drawn, writer, pc, view>>

Draws(S) == {d \in [1 .. DrawCount -> S] : IsInjective(d)}
NoView == [of |-> None, was |-> FALSE, items |-> <<>>]

TypeOK ==
  /\ active \subseteq known /\ known \subseteq Catalogue
  /\ enabled \in [Characters -> BOOLEAN]
  /\ drawn \in [Characters -> Draws(known) \cup {<<>>}]
  /\ writer \in Sessions \cup {None}
  /\ pc \in [Sessions -> {"idle", "add", "remove", "switch", "character",
                          "claimed", "picked"}]
  /\ view \in [Sessions -> [of : Catalogue \cup Characters \cup {None},
                            was : BOOLEAN, items : Seq(Catalogue)]]

Init == /\ known = {} /\ active = {}
        /\ enabled = [c \in Characters |-> FALSE]
        /\ drawn = [c \in Characters |-> <<>>]
        /\ writer = None
        /\ pc = [s \in Sessions |-> "idle"]
        /\ view = [s \in Sessions |-> NoView]

-----------------------------------------------------------------------------
Step(s, from, to, read) ==
  /\ pc[s] = from
  /\ pc' = [pc EXCEPT ![s] = to]
  /\ view' = [view EXCEPT ![s] = read]
  /\ UNCHANGED db

Release(s) == writer' = IF writer = s THEN None ELSE writer

Close(s) == /\ pc' = [pc EXCEPT ![s] = "idle"]
            /\ view' = [view EXCEPT ![s] = NoView]
            /\ Release(s)

(* A commit of a handler that does not hold the lock from before.          *)
Commit(s, from) == pc[s] = from /\ writer \in {None, s} /\ Close(s)

(* A lost connection, a lock timeout or the end of the process: the        *)
(* session rolls back and gives the lock up.                               *)
Fail(s) == pc[s] # "idle" /\ Close(s) /\ UNCHANGED db

-----------------------------------------------------------------------------
(* add_invention: a name that is active is refused, one that is not is     *)
(* activated again.                                                        *)
ReadNew(s) ==
  \E i \in Catalogue \ active :
    /\ Step(s, "idle", "add", [NoView EXCEPT !.of = i, !.was = i \in known])
    /\ UNCHANGED writer

AddInvention(s) ==
  /\ Commit(s, "add")
  /\ view[s].of \in known => view[s].was  \* UNIQUE name_key
  /\ known' = known \cup {view[s].of}
  /\ active' = active \cup {view[s].of}
  /\ UNCHANGED <<enabled, drawn>>

(* remove_invention.                                                       *)
ReadActive(s) ==
  \E i \in active : /\ Step(s, "idle", "remove", [NoView EXCEPT !.of = i])
                    /\ UNCHANGED writer

(* Mutant: the row is deleted, although draws refer to it.                 *)
RemoveRow(s) ==
  /\ Commit(s, "remove")
  /\ active' = active \ {view[s].of}
  /\ known' = known \ {view[s].of}
  /\ UNCHANGED <<enabled, drawn>>

RemoveInvention(s) ==
  /\ Commit(s, "remove")
  /\ active' = active \ {view[s].of}
  /\ UNCHANGED <<known, enabled, drawn>>

(* get_character_or_404 of set_invengineer_enabled and draw_inventions.    *)
ReadCharacter(s) ==
  \E c \in Characters, to \in {"switch", "character"} :
    /\ Step(s, "idle", to, [NoView EXCEPT !.of = c, !.was = enabled[c]])
    /\ UNCHANGED writer

(* set_invengineer_enabled.  The ORM writes the flag when it differs from  *)
(* the one loaded, and nothing otherwise.                                  *)
SetEnabled(s) ==
  /\ Commit(s, "switch")
  /\ \E on \in BOOLEAN :
       enabled' = IF on = view[s].was THEN enabled
                  ELSE [enabled EXCEPT ![view[s].of] = on]
  /\ UNCHANGED <<known, active, drawn>>

-----------------------------------------------------------------------------
(* draw_inventions.                                                        *)

(* Mutant: the flag is looked up without a write, which takes no lock.     *)
ClaimUnlocked(s) ==
  /\ pc[s] = "character"
  /\ enabled[view[s].of]
  /\ Step(s, "character", "claimed", view[s])
  /\ UNCHANGED writer

(* The UPDATE that takes the lock, and its WHERE.                          *)
ClaimDraw(s) ==
  /\ pc[s] = "character"
  /\ writer = None
  /\ enabled[view[s].of]
  /\ Step(s, "character", "claimed", view[s])
  /\ writer' = s

(* Without a row to update: 403, and the rollback releases the lock.       *)
Inactive(s) ==
  /\ pc[s] = "character"
  /\ writer = None /\ ~enabled[view[s].of]
  /\ Close(s)
  /\ UNCHANGED db

(* The catalogue in random order, read inside the transaction.             *)
PickItems(s) ==
  /\ \E items \in Draws(active) :
       Step(s, "claimed", "picked", [view[s] EXCEPT !.items = items])
  /\ UNCHANGED writer

(* Mutant: the error leaves the transaction open.                          *)
TooFewKept(s) ==
  /\ pc[s] = "claimed"
  /\ Cardinality(active) < DrawCount
  /\ pc' = [pc EXCEPT ![s] = "idle"]
  /\ view' = [view EXCEPT ![s] = NoView]
  /\ UNCHANGED <<db, writer>>

(* 409: the session ends without a commit.                                 *)
TooFew(s) ==
  /\ pc[s] = "claimed"
  /\ Cardinality(active) < DrawCount
  /\ Close(s)
  /\ UNCHANGED db

ReplaceDraw(s) ==
  /\ pc[s] = "picked"
  /\ writer \in {None, s}
  /\ drawn' = [drawn EXCEPT ![view[s].of] = view[s].items]
  /\ Close(s)
  /\ UNCHANGED <<known, active, enabled>>

Reads(s) == ReadNew(s) \/ ReadActive(s) \/ ReadCharacter(s)

(* What a request that has begun does next by itself.                      *)
Proceed(s) ==
  \/ AddInvention(s) \/ RemoveInvention(s) \/ SetEnabled(s)
  \/ ClaimDraw(s) \/ Inactive(s) \/ PickItems(s) \/ TooFew(s)
  \/ ReplaceDraw(s)

Next == \E s \in Sessions : Reads(s) \/ Proceed(s) \/ Fail(s)

Spec == Init /\ [][Next]_vars

(* The event loop resumes a handler whose statement has been executed.     *)
FairSpec == Spec /\ \A s \in Sessions : WF_vars(Proceed(s))

-----------------------------------------------------------------------------
(* Properties.                                                             *)

(***************************************************************************)
(* A draw consists of inventions that are active, for a character whose    *)
(* module is enabled, at the moment it is committed and not only when it   *)
(* was decided.                                                            *)
(***************************************************************************)
DrawnWhileActive ==
  [][\A c \in Characters :
       drawn'[c] # drawn[c] => enabled[c] /\ Range(drawn'[c]) \subseteq active]_vars

(* Draws are of distinct inventions, whose rows stay after their removal.  *)
DrawsKept == \A c \in Characters : drawn[c] \in Draws(known) \cup {<<>>}

(* Whoever holds the write lock gives it up, also when the draw is refused *)
(* after the lock was taken.                                               *)
LockReleased == \A s \in Sessions : writer = s ~> writer # s
=============================================================================
