-------------------------------- MODULE Deck --------------------------------
(***************************************************************************)
(* The Hearthstomancer deck of one character: src/app/routers/hearthstone.py *)
(* over the tables character_decks, deck_card_definitions and              *)
(* deck_card_copies of src/app/models.py.                                  *)
(*                                                                         *)
(* Every request runs in a database session of its own.  load_deck is      *)
(* three SELECTs (the deck row, its definitions, their copies), each in    *)
(* autocommit: every one sees the last committed state, and other requests *)
(* run at the await between two of them.  From the first UPDATE, which is  *)
(* claim_revision's compare-and-set in almost every handler, to the commit *)
(* the connection holds SQLite's write lock, so that part of a handler is  *)
(* one action.  A handler that returns an error, loses the claim, times    *)
(* out on the lock or dies with the process rolls back: Fail.              *)
(*                                                                         *)
(* A copy is identified by its row id, which SQLite reuses (the next id is *)
(* one more than the highest), a definition by its fingerprint, unique in  *)
(* the deck.  Shuffle keys are random, so only whether a copy has one is   *)
(* kept: among the copies that have one, any may come first.               *)
(***************************************************************************)
EXTENDS Integers, FiniteSets, Functions

CONSTANTS
  Sessions,     \* requests in flight at the same time
  Admins,       \* the sessions of administrators, who may change the status
  Overwriters,  \* the administrators who may do so over what others committed
  Cards,        \* definition fingerprints
  None,         \* SQL NULL
  PackSize,     \* cards in a pack
  MaxCopies,    \* bound: highest copy id
  MaxRevision   \* bound: highest revision a claim may produce

ASSUME SessionAssumption == /\ Admins \subseteq Sessions
                            /\ Overwriters \subseteq Admins
ASSUME BoundAssumption == /\ PackSize \in Nat \ {0}
                          /\ MaxCopies \in Nat
                          /\ MaxRevision \in Nat
                          /\ None \notin Nat

VARIABLES
  deck,     \* the character_decks row
  defs,     \* fingerprints of the deck_card_definitions rows
  copies,   \* the deck_card_copies rows by id
  pc,       \* how far each session's request has come
  view,     \* what load_deck left in each session's identity map
  target    \* the operation and copy a session selected before its claim

db == <<deck, defs, copies>>
vars == <<deck, defs, copies, pc, view, target>>

Ids == 1 .. MaxCopies
Zones == {"deck", "drawn", "destroyed"}
Copy == [card : Cards, golden : BOOLEAN, zone : Zones, keyed : BOOLEAN]
Row == [configured : BOOLEAN, enabled : BOOLEAN, revision : Nat,
        undo : Ids \cup {None}]

Unconfigured == [configured |-> FALSE, enabled |-> FALSE, revision |-> 0,
                 undo |-> None]
NewDeck == [configured |-> TRUE, enabled |-> TRUE, revision |-> 0,
            undo |-> None]
NoCopies == [i \in {} |-> None]
EmptyView == [deck |-> Unconfigured, defs |-> {}, copies |-> NoCopies]
NoTarget == [op |-> "none", id |-> None, row |-> NoCopies]

CopyTable == UNION {[S -> Copy] : S \in SUBSET Ids}
View == [deck : Row, defs : SUBSET Cards, copies : CopyTable]
Target == [op : {"none", "discard", "play", "remove", "undo", "clear"},
           id : Ids \cup {None}, row : CopyTable]

TypeOK ==
  /\ deck \in Row
  /\ defs \in SUBSET Cards
  /\ copies \in CopyTable
  /\ pc \in [Sessions -> {"idle", "row", "defs", "ready", "selected"}]
  /\ view \in [Sessions -> View]
  /\ target \in [Sessions -> Target]

Without(f, S) == Restrict(f, DOMAIN f \ S)

(***************************************************************************)
(* A character starts without a deck, or with one an administrator has     *)
(* activated before.                                                       *)
(***************************************************************************)
Init ==
  /\ deck \in {Unconfigured, NewDeck}
  /\ defs = {}
  /\ copies = NoCopies
  /\ pc = [s \in Sessions |-> "idle"]
  /\ view = [s \in Sessions |-> EmptyView]
  /\ target = [s \in Sessions |-> NoTarget]

-----------------------------------------------------------------------------
(* load_deck: one SELECT for the row, then selectinload's two.             *)

LoadRow(s) ==
  /\ pc[s] = "idle"
  /\ pc' = [pc EXCEPT ![s] = "row"]
  /\ view' = [view EXCEPT ![s].deck = deck]
  /\ UNCHANGED <<db, target>>

LoadDefinitions(s) ==
  /\ pc[s] = "row"
  /\ pc' = [pc EXCEPT ![s] = "defs"]
  /\ view' = [view EXCEPT ![s].defs = defs]
  /\ UNCHANGED <<db, target>>

LoadCopies(s) ==
  /\ pc[s] = "defs"
  /\ pc' = [pc EXCEPT ![s] = "ready"]
  /\ view' = [view EXCEPT ![s].copies =
                Restrict(copies, {i \in DOMAIN copies :
                                    copies[i].card \in view[s].defs})]
  /\ UNCHANGED <<db, target>>

(* The session ends, having answered, and its identity map goes with it.   *)
Close(s) ==
  /\ pc' = [pc EXCEPT ![s] = "idle"]
  /\ view' = [view EXCEPT ![s] = EmptyView]
  /\ target' = [target EXCEPT ![s] = NoTarget]

Fail(s) ==
  /\ pc[s] # "idle"
  /\ Close(s)
  /\ UNCHANGED db

-----------------------------------------------------------------------------
(* The ORM session.  An object that is already in the identity map keeps   *)
(* the attributes it was loaded with, whatever the rows say now, and only  *)
(* attributes that differ from those are written by the UPDATE.            *)

Known(s) == view[s].copies
Held(s, i) == i \in DOMAIN Known(s) \cup DOMAIN target[s].row
Seen(s, i) == IF i \in DOMAIN Known(s) THEN Known(s)[i]
              ELSE IF i \in DOMAIN target[s].row THEN target[s].row[i]
              ELSE copies[i]

Merge(new, seen, stored) == IF new = seen THEN stored ELSE new

Write(s, tbl, i, zone, keyed) ==
  [tbl EXCEPT ![i].zone = Merge(zone, Seen(s, i).zone, @),
              ![i].keyed = Merge(keyed, Seen(s, i).keyed, @)]

(* The copies a join with the deck's definitions returns.                  *)
Joined(c, zones) == {i \in DOMAIN c.copies : /\ c.copies[i].zone \in zones
                                             /\ c.copies[i].card \in c.defs}

Content == [defs |-> defs, copies |-> copies]

(* Mutant: the definition is kept.                                         *)
DeletedCopyOnly(s, c, i) == [c EXCEPT !.copies = Without(@, {i})]

(***************************************************************************)
(* delete_copy_and_orphan_definition: the last copy takes its definition   *)
(* along, and the ORM cascades over the definition's loaded copies.        *)
(***************************************************************************)
Deleted(s, c, i) ==
  LET card == Seen(s, i).card
      others == {j \in DOMAIN c.copies \ {i} : c.copies[j].card = card}
      cascade == IF card \in view[s].defs
                 THEN {j \in DOMAIN Known(s) : Known(s)[j].card = card}
                 ELSE {j \in DOMAIN c.copies : /\ c.copies[j].card = card
                                               /\ card \in c.defs}
  IN IF others # {}
     THEN [c EXCEPT !.copies = Without(@, {i})]
     ELSE [defs |-> c.defs \ {card}, copies |-> Without(c.copies, cascade)]

(* Mutants: the destroyed copy is kept; the pointer is kept.               *)
FinalizedNothing(s) == Content
FinalizedUndoKept(s) == deck.undo

(***************************************************************************)
(* finalize_undo: a mutation forgets the undoable play, and deletes the    *)
(* copy it destroyed for good.                                             *)
(***************************************************************************)
Finalized(s) ==
  LET u == view[s].deck.undo
  IN IF /\ u # None
        /\ Held(s, u) \/ u \in DOMAIN copies
        /\ Seen(s, u).zone = "destroyed"
     THEN Deleted(s, Content, u)
     ELSE Content

FinalizedUndo(s) == IF view[s].deck.undo = None THEN deck.undo ELSE None

-----------------------------------------------------------------------------
(* What a handler reads between load_deck and its claim.                   *)

Active(s, at) == pc[s] = at /\ view[s].deck.enabled

Select(s, op, i) ==
  /\ Active(s, "ready")
  /\ pc' = [pc EXCEPT ![s] = "selected"]
  /\ target' = [target EXCEPT ![s] =
                  [op |-> op, id |-> i,
                   row |-> Restrict(copies, ({i} \cap DOMAIN copies) \ DOMAIN Known(s))]]
  /\ UNCHANGED <<db, view>>

(* Mutants: the zone, or is_golden, is not tested.                         *)
SelectAnyZone(s) == \E i \in Joined(Content, Zones) : Select(s, "discard", i)

SelectGolden(s) == \E i \in Joined(Content, {"drawn"}) :
                     Select(s, "discard", i) \/ Select(s, "play", i)

(* get_drawn_copy of discard_drawn_card and play_drawn_card.               *)
SelectDrawn(s) ==
  \E i \in Joined(Content, {"drawn"}) :
    \/ Select(s, "discard", i)
    \/ ~Seen(s, i).golden /\ Select(s, "play", i)

(* The copy remove_card_copy takes: the oldest one of its kind in the deck. *)
SelectRemoved(s) ==
  \E i \in Joined(Content, {"deck"}) :
    /\ \A j \in Joined(Content, {"deck"}) :
         /\ copies[j].card = copies[i].card
         /\ copies[j].golden = copies[i].golden
         => i <= j
    /\ Select(s, "remove", i)

(* undo_last_play looks its copy up in the identity map, then in the table. *)
SelectUndo(s) ==
  LET u == view[s].deck.undo
  IN /\ u # None
     /\ Select(s, IF /\ Held(s, u) \/ u \in DOMAIN copies
                     /\ Seen(s, u).zone = "destroyed"
                  THEN "undo" ELSE "clear", u)

-----------------------------------------------------------------------------
(* The write transactions.                                                 *)

(* Mutant: the UPDATE has no WHERE revision.                               *)
ClaimUnchecked(s) == deck.revision < MaxRevision

(* claim_revision: UPDATE ... WHERE revision = the one that was loaded.    *)
Claim(s) ==
  /\ deck.revision = view[s].deck.revision
  /\ deck.revision < MaxRevision

(* Mutant: the revision is not incremented.                                *)
CommitSameRevision(s, undo, c) ==
  /\ deck' = [deck EXCEPT !.undo = undo]
  /\ defs' = c.defs
  /\ copies' = c.copies
  /\ Close(s)

Commit(s, undo, c) ==
  /\ deck' = [deck EXCEPT !.revision = view[s].deck.revision + 1,
                          !.undo = undo]
  /\ defs' = c.defs
  /\ copies' = c.copies
  /\ Close(s)

Highest(h, tbl) == /\ h \in DOMAIN tbl \cup {0}
                   /\ \A i \in DOMAIN tbl : i <= h

(* The table with one new row in the deck zone per entry of rows, a        *)
(* sequence of <<card, golden>>, under the ids that follow h.              *)
Inserted(tbl, h, rows) ==
  [i \in DOMAIN tbl \cup {h + k : k \in DOMAIN rows} |->
     IF i \in DOMAIN tbl THEN tbl[i]
     ELSE [card |-> rows[i - h][1], golden |-> rows[i - h][2],
           zone |-> "deck", keyed |-> TRUE]]

CardsOf(rows) == {rows[k][1] : k \in DOMAIN rows}

(* A pack holds distinct catalogue cards, whose fingerprints differ.       *)
SavePack(s) ==
  /\ Active(s, "ready")
  /\ Claim(s)
  /\ LET c == Finalized(s)
     IN \E pack \in [1 .. PackSize -> Cards \X {FALSE}], h \in 0 .. MaxCopies :
          /\ IsInjective(pack)
          /\ Highest(h, c.copies)
          /\ h + PackSize <= MaxCopies
          /\ Commit(s, FinalizedUndo(s),
                    [defs |-> c.defs \cup CardsOf(pack),
                     copies |-> Inserted(c.copies, h, pack)])

ReplaceComposition(s) ==
  /\ Active(s, "ready")
  /\ Claim(s)
  /\ LET c == Finalized(s)
         rest == Without(c.copies, Joined(c, Zones))
     IN \E n, h \in 0 .. MaxCopies :
          /\ Highest(h, rest)
          /\ h + n <= MaxCopies
          /\ \E rows \in [1 .. n -> Cards \X BOOLEAN] :
               Commit(s, FinalizedUndo(s),
                      [defs |-> CardsOf(rows), copies |-> Inserted(rest, h, rows)])

(* The copy ORDER BY shuffle_key, id puts first: NULL sorts before any key. *)
OnTop(c, i) ==
  LET pile == Joined(c, {"deck"})
      bare == {j \in pile : ~c.copies[j].keyed}
  IN /\ i \in pile
     /\ bare # {} => i \in bare /\ \A j \in bare : i <= j

DrawCard(s) ==
  /\ Active(s, "ready")
  /\ Claim(s)
  /\ LET c == Finalized(s)
     IN \E i \in DOMAIN c.copies :
          /\ OnTop(c, i)
          /\ Commit(s, FinalizedUndo(s),
                    [c EXCEPT !.copies = Write(s, @, i, "drawn", FALSE)])

Selected(s, op) == Active(s, "selected") /\ target[s].op = op

(* Mutant: the copy that has just been put back gets no key.                *)
NotReshuffled(c) == c

(* reshuffle_remaining: every copy in the deck zone gets a new key, the    *)
(* one that autoflush has just put there included.                         *)
Reshuffled(c) ==
  [c EXCEPT !.copies = [i \in DOMAIN c.copies |->
     IF i \in Joined(c, {"deck"})
     THEN [c.copies[i] EXCEPT !.keyed = TRUE] ELSE c.copies[i]]]

(* An UPDATE that matches no row is a StaleDataError, and the end of the   *)
(* request; without a changed attribute there is no UPDATE.                *)
Writable(s, tbl, i, zone) == i \in DOMAIN tbl \/ Seen(s, i).zone = zone

DiscardDrawn(s) ==
  /\ Selected(s, "discard")
  /\ Claim(s)
  /\ LET c == Finalized(s)
         i == target[s].id
     IN /\ Writable(s, c.copies, i, "deck")
        /\ Commit(s, FinalizedUndo(s),
             Reshuffled([c EXCEPT !.copies =
                           IF i \in DOMAIN @
                           THEN Write(s, @, i, "deck", Seen(s, i).keyed)
                           ELSE @]))

PlayDrawn(s) ==
  /\ Selected(s, "play")
  /\ Claim(s)
  /\ LET c == Finalized(s)
         i == target[s].id
     IN /\ Writable(s, c.copies, i, "destroyed")
        /\ Commit(s, i, [c EXCEPT !.copies =
                           IF i \in DOMAIN @
                           THEN Write(s, @, i, "destroyed", FALSE) ELSE @])

UndoLastPlay(s) ==
  /\ Selected(s, "undo")
  /\ Claim(s)
  /\ LET i == target[s].id
     IN /\ Writable(s, copies, i, "drawn")
        /\ Commit(s, None, [Content EXCEPT !.copies =
                              IF i \in DOMAIN @
                              THEN Write(s, @, i, "drawn", FALSE) ELSE @])

(* The other branch of undo_last_play: the copy it looked up is gone or    *)
(* not destroyed, and the pointer is cleared without a claim.              *)
ClearUndo(s) ==
  /\ Selected(s, "clear")
  /\ deck' = [deck EXCEPT !.undo = None]
  /\ Close(s)
  /\ UNCHANGED <<defs, copies>>

RemoveCopy(s) ==
  /\ Selected(s, "remove")
  /\ Claim(s)
  /\ Commit(s, FinalizedUndo(s), Deleted(s, Finalized(s), target[s].id))

(* Every copy of the deck and of the hand goes to the deck, with a new key. *)
Restocked(s, c) ==
  [c EXCEPT !.copies = [i \in DOMAIN c.copies |->
     IF i \in Joined(c, {"deck", "drawn"})
     THEN [c.copies[i] EXCEPT
             !.zone = Merge("deck", Seen(s, i).zone, c.copies[i].zone),
             !.keyed = TRUE]
     ELSE c.copies[i]]]

ResetDeck(s) ==
  /\ Active(s, "ready")
  /\ Claim(s)
  /\ Commit(s, FinalizedUndo(s), Restocked(s, Finalized(s)))

(***************************************************************************)
(* set_hearthstomancer_status: creates the deck, or writes the loaded      *)
(* revision plus one through the ORM, without claim_revision.  Nothing in  *)
(* the code says so of the revision here: only with every administrator an *)
(* overwriter is this the handler, and with the others it is the handler   *)
(* as long as nothing is committed between its SELECTs and its UPDATE.     *)
(***************************************************************************)
SetStatus(s) ==
  /\ s \in Admins
  /\ pc[s] = "ready"
  /\ s \in Overwriters \/ deck.revision = view[s].deck.revision
  /\ view[s].deck.revision < MaxRevision
  /\ IF view[s].deck.configured
     THEN \E enabled \in BOOLEAN :
            deck' = [deck EXCEPT
                       !.enabled = Merge(enabled, view[s].deck.enabled, @),
                       !.revision = view[s].deck.revision + 1]
     ELSE /\ ~deck.configured
          /\ deck' = NewDeck
  /\ Close(s)
  /\ UNCHANGED <<defs, copies>>

-----------------------------------------------------------------------------
Load(s) == LoadRow(s) \/ LoadDefinitions(s) \/ LoadCopies(s)
Lookup(s) == SelectDrawn(s) \/ SelectRemoved(s) \/ SelectUndo(s)
Mutate(s) ==
  \/ SavePack(s) \/ ReplaceComposition(s) \/ DrawCard(s) \/ DiscardDrawn(s)
  \/ PlayDrawn(s) \/ UndoLastPlay(s) \/ RemoveCopy(s) \/ ResetDeck(s)

Next == \E s \in Sessions :
  Load(s) \/ Lookup(s) \/ Mutate(s) \/ ClearUndo(s) \/ SetStatus(s) \/ Fail(s)

Spec == Init /\ [][Next]_vars
-----------------------------------------------------------------------------
(* Safety.                                                                 *)

(***************************************************************************)
(* The optimistic lock: while the revision a request loaded is current, all *)
(* it loaded is current, so that a successful claim_revision makes the     *)
(* whole handler act on the deck as it is.  Only the undo pointer may have *)
(* been cleared meanwhile, by undo_last_play's branch without a claim.     *)
(***************************************************************************)
Current(s) == /\ view[s].deck.enabled
              /\ view[s].deck.revision = deck.revision

ViewCurrent ==
  \A s \in Sessions :
    /\ view[s].deck.revision <= deck.revision
    /\ Current(s) =>
         /\ deck.enabled
         /\ deck.undo \in {view[s].deck.undo, None}
         /\ pc[s] \in {"defs", "ready", "selected"} => view[s].defs = defs
         /\ pc[s] \in {"ready", "selected"} => view[s].copies = copies

(***************************************************************************)
(* Discard, play, remove and undo choose their copy before they claim the  *)
(* revision: if the claim is still possible, the copy is still what it was *)
(* chosen for, and load_deck had already brought it in.                    *)
(***************************************************************************)
Suitable(t) ==
  /\ t.id \in DOMAIN copies
  /\ t.op \in {"discard", "play"} => copies[t.id].zone = "drawn"
  /\ t.op = "play" => ~copies[t.id].golden
  /\ t.op = "remove" => copies[t.id].zone = "deck"
  /\ t.op = "undo" => copies[t.id].zone = "destroyed"

TargetCurrent ==
  \A s \in Sessions :
    IF pc[s] = "selected"
    THEN Current(s) => /\ DOMAIN target[s].row = {}
                       /\ target[s].op = "clear" \/ Suitable(target[s])
    ELSE target[s] = NoTarget

(***************************************************************************)
(* The undo pointer, which has no foreign key, designates an existing copy *)
(* that a play destroyed, never one that was deleted, drawn again or       *)
(* golden ("Une carte dorée ne peut pas être jouée/détruite").             *)
(***************************************************************************)
UndoIsDestroyedNormal ==
  deck.undo # None => /\ deck.undo \in DOMAIN copies
                      /\ copies[deck.undo].zone = "destroyed"
                      /\ ~copies[deck.undo].golden

(***************************************************************************)
(* Golden cards are never destroyed, although play_drawn_card tests        *)
(* is_golden on the copy it read before its claim.                         *)
(***************************************************************************)
GoldenNeverDestroyed ==
  \A i \in DOMAIN copies : copies[i].golden => copies[i].zone # "destroyed"

(***************************************************************************)
(* A copy has a shuffle key exactly while it is in the deck: NULL sorts    *)
(* first, so a card put back without a key would be the next one drawn.    *)
(***************************************************************************)
KeyedIffInDeck ==
  \A i \in DOMAIN copies : copies[i].keyed <=> copies[i].zone = "deck"

(***************************************************************************)
(* No foreign key is enforced: the handlers alone keep a definition for    *)
(* every copy, and no definition without a copy.                           *)
(***************************************************************************)
NoOrphans == defs = {copies[i].card : i \in DOMAIN copies}

(***************************************************************************)
(* "Un deck désactivé reste visible en lecture seule et conserve son état": *)
(* no step changes the cards of a disabled deck, although the requests that *)
(* were let through before it was disabled are still under way.             *)
(***************************************************************************)
FrozenWhileDisabled ==
  [][~deck.enabled => UNCHANGED <<defs, copies>>]_vars

(***************************************************************************)
(* A played card is kept only until the next request that changes the deck, *)
(* which deletes it or takes it back: no request that takes a revision      *)
(* leaves one more destroyed copy behind than there was, apart from the one *)
(* it has just played.  (The clearing of the pointer without a claim is no  *)
(* such request, and may leave one behind.)                                 *)
(***************************************************************************)
Left == {i \in DOMAIN copies : copies[i].zone = "destroyed"} \ {deck.undo}

PlaysFinalized ==
  [][deck'.revision # deck.revision => Left' \subseteq Left]_vars

-----------------------------------------------------------------------------
(* The mapping under which Deck implements DeckLedger.                     *)

Kinds == Cards \X BOOLEAN     \* a card, golden or not
Kind(copy) == <<copy.card, copy.golden>>

(* The pile and the hand are the copies of the two zones, counted by kind. *)
OfKind(tbl, zone, k) ==
  {i \in DOMAIN tbl : tbl[i].zone = zone /\ Kind(tbl[i]) = k}

Count(tbl, zone) == [k \in Kinds |-> Cardinality(OfKind(tbl, zone, k))]

(***************************************************************************)
(* A destroyed copy matters while the undo pointer designates it, or a     *)
(* request has found that pointer and can still claim the revision: the    *)
(* branch of undo_last_play without a claim may have cleared it meanwhile. *)
(***************************************************************************)
Pending(s) == pc[s] # "idle" /\ Current(s)

Pointers ==
  ({deck.undo} \cup {view[s].deck.undo : s \in {r \in Sessions : Pending(r)}})
    \ {None}

Undoable == IF Pointers = {} THEN None
            ELSE Kind(copies[CHOOSE i \in Pointers : TRUE])

Ledger == INSTANCE DeckLedger WITH enabled <- deck.enabled,
                                   pile <- Count(copies, "deck"),
                                   hand <- Count(copies, "drawn"),
                                   undoable <- Undoable

(***************************************************************************)
(* Deck implements DeckLedger: whatever the interleaving of the requests,  *)
(* every committed one has the effect of one ledger operation on the deck  *)
(* as it was when it committed.                                            *)
(***************************************************************************)
ImplementsLedger == Ledger!LedgerSpec
=============================================================================
