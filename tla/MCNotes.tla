------------------------------ MODULE MCNotes ------------------------------
(***************************************************************************)
(* Model checking of Notes, with a character that both sessions may write. *)
(***************************************************************************)
EXTENDS Notes, TLC

CONSTANTS s1, s2, x

SharedTargets == (s1 :> {x}) @@ (s2 :> {x})
=============================================================================
