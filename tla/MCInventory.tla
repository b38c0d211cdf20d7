----------------------------- MODULE MCInventory -----------------------------
(***************************************************************************)
(* Model checking of Inventory: who writes which character.                *)
(***************************************************************************)
EXTENDS Inventory, TLC

CONSTANTS s1, s2, x, y

(* One session per character, or both on one character.                    *)
OwnTargets == (s1 :> {x}) @@ (s2 :> {y})
SharedTargets == (s1 :> {x}) @@ (s2 :> {x})

Symmetric == Permutations(Names) \cup Permutations(Things)
=============================================================================
