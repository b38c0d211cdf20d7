------------------------------- MODULE MCDeck -------------------------------
(***************************************************************************)
(* Model checking of Deck.  Packs' functions are evaluated with it.        *)
(***************************************************************************)
EXTENDS Deck, Packs, TLC

Symmetric == Permutations(Sessions) \cup Permutations(Cards)
=============================================================================
