----------------------------- MODULE DeckLedger -----------------------------
(***************************************************************************)
(* What a player sees of a Hearthstomancer deck: how many cards of each    *)
(* kind are in the pile and in the hand, and which played card can still   *)
(* be taken back.  Every operation is one indivisible step on the deck as  *)
(* it is then; there are no sessions, revisions, rows or shuffle keys.     *)
(***************************************************************************)
EXTENDS Integers, FiniteSets

CONSTANTS Cards, None, PackSize

VARIABLES enabled, pile, hand, undoable

ledger == <<enabled, pile, hand, undoable>>

Kinds == Cards \X BOOLEAN     \* a card, golden or not
Golden(k) == k[2]
Empty == [k \in Kinds |-> 0]

LedgerTypeOK == /\ enabled \in BOOLEAN
                /\ pile \in [Kinds -> Nat]
                /\ hand \in [Kinds -> Nat]
                /\ undoable \in Kinds \cup {None}

LedgerInit == /\ enabled \in BOOLEAN
              /\ pile = Empty
              /\ hand = Empty
              /\ undoable = None

Take(f, k) == f[k] > 0 /\ f' = [f EXCEPT ![k] = @ - 1]
Put(f, k) == f' = [f EXCEPT ![k] = @ + 1]

(* A pack is some different cards, none of them golden.                    *)
AddPack == \E pack \in SUBSET {k \in Kinds : ~Golden(k)} :
             /\ Cardinality(pack) = PackSize
             /\ pile' = [k \in Kinds |-> IF k \in pack THEN pile[k] + 1 ELSE pile[k]]
             /\ undoable' = None
             /\ UNCHANGED hand

Replace == pile' \in [Kinds -> Nat] /\ hand' = Empty /\ undoable' = None

Draw(k) == Take(pile, k) /\ Put(hand, k) /\ undoable' = None

Discard(k) == Take(hand, k) /\ Put(pile, k) /\ undoable' = None

Play(k) == /\ ~Golden(k)
           /\ Take(hand, k)
           /\ undoable' = k
           /\ UNCHANGED pile

TakeBack(k) == /\ undoable = k
               /\ Put(hand, k)
               /\ undoable' = None
               /\ UNCHANGED pile

Remove(k) == Take(pile, k) /\ undoable' = None /\ UNCHANGED hand

Reset == /\ pile' = [k \in Kinds |-> pile[k] + hand[k]]
         /\ hand' = Empty
         /\ undoable' = None

Mutation == \/ AddPack \/ Replace \/ Reset
            \/ \E k \in Kinds : \/ Draw(k) \/ Discard(k) \/ Play(k)
                                \/ TakeBack(k) \/ Remove(k)

(* Whatever the status, a player may lose the chance to take a play back,  *)
(* and no more.                                                            *)
Switch == /\ enabled' \in BOOLEAN
          /\ undoable' \in {undoable, None}
          /\ UNCHANGED <<pile, hand>>

LedgerNext == Switch \/ (enabled /\ Mutation /\ UNCHANGED enabled)

LedgerSpec == LedgerInit /\ [][LedgerNext]_ledger
=============================================================================
