-------------------------------- MODULE Packs --------------------------------
(***************************************************************************)
(* The choice of a pack: weighted_pack_sample of                           *)
(* src/app/hearthstone_catalog.py, which open_card_pack calls for five     *)
(* cards of a set.                                                         *)
(*                                                                         *)
(* Cards are taken one by one without being put back, first one that is    *)
(* rare or better if there is any, then by weights; so pools and packs are *)
(* numbers of cards by rarity.  A random choice is any of the rarities     *)
(* that have cards left and a positive weight.  Weights are integers in    *)
(* the proportions of the code's.                                          *)
(***************************************************************************)
EXTENDS Integers, FiniteSetsExt

(* PACK_RARITY_TARGETS, in hundredths of a percent.                        *)
RarityTargets == [COMMON |-> 6925, RARE |-> 2400, EPIC |-> 525, LEGENDARY |-> 150]
Rarities == DOMAIN RarityTargets
RareOrBetter == Rarities \ {"COMMON"}

Total(numbers, S) == MapThenSumSet(LAMBDA r : numbers[r], S)

(* A card of another rarity, or of none, counts as a common one.           *)
PackRarity(rarity) == IF rarity \in Rarities THEN rarity ELSE "COMMON"

(* count - 1 ordinary slots make up for what the guaranteed slot does not  *)
(* give; a rarity it already gives too much of gets nothing.               *)
OrdinaryWeights(count) ==
  LET rare == Total(RarityTargets, RareOrBetter)
  IN  [r \in Rarities |->
         Max({0, count * RarityTargets[r] * rare
                   - (IF r \in RareOrBetter THEN 10000 * RarityTargets[r] ELSE 0)})]

NoCards == [r \in Rarities |-> 0]

(* _weighted_rarity_choice: the packs with one card more.                  *)
WithOneMore(pools, weights, allowed, pack) ==
  {[pack EXCEPT ![r] = @ + 1] :
     r \in {q \in allowed : pools[q] > pack[q] /\ weights[q] > 0}}

(* The packs after each slot, from those with the guaranteed card.         *)
Filled(pools, weights, first, from, count) ==
  LET filled[n \in from .. count] ==
        IF n = from THEN first
        ELSE UNION {WithOneMore(pools, weights, Rarities, pack) : pack \in filled[n - 1]}
  IN  filled

(* What weighted_pack_sample may return.  It returns no cards when the set *)
(* has too few, or when no card is left that a slot may take.              *)
Samples(pools, count) ==
  LET guaranteed == WithOneMore(pools, RarityTargets, RareOrBetter, NoCards)
      some == guaranteed # {}
      weights == IF some THEN OrdinaryWeights(count) ELSE RarityTargets
      packs == IF some THEN Filled(pools, weights, guaranteed, 1, count)
               ELSE Filled(pools, weights, {NoCards}, 0, count)
      stuck == \E n \in DOMAIN packs \ {count} : \E pack \in packs[n] :
                 WithOneMore(pools, weights, Rarities, pack) = {}
  IN  IF count <= 0 \/ Total(pools, Rarities) < count THEN {NoCards}
      ELSE packs[count] \cup (IF stuck THEN {NoCards} ELSE {})

-----------------------------------------------------------------------------
(* What a pack is promised to be: cards of the set, as many as asked for,  *)
(* of which one is rare or better if the set has such a card.              *)
Promised(pools, count) ==
  {pack \in [Rarities -> 0 .. count] :
     /\ \A r \in Rarities : pack[r] <= pools[r]
     /\ Total(pack, Rarities) = count
     /\ Total(pools, RareOrBetter) > 0 => Total(pack, RareOrBetter) > 0}

(* Every promised pack can be drawn, no other, and a set of five cards or  *)
(* more always gives one.                                                  *)
ASSUME PacksAsPromised ==
  \A pools \in [Rarities -> {0, 1, 4, 5}] :
    Samples(pools, 5) =
      IF Total(pools, Rarities) >= 5 THEN Promised(pools, 5) ELSE {NoCards}

(* The guaranteed slot and the four others together give each rarity its   *)
(* share of five cards: the ordinary weights add up to four slots.         *)
ASSUME SharesAsTargeted ==
  LET rare == Total(RarityTargets, RareOrBetter)
  IN  /\ Total(RarityTargets, Rarities) = 10000
      /\ Total(OrdinaryWeights(5), Rarities) = 4 * 10000 * rare
=============================================================================
