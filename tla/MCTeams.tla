------------------------------- MODULE MCTeams -------------------------------
(* Model checking of Teams.                                                *)
EXTENDS Teams, TLC

Symmetric == Permutations(Sessions) \cup Permutations(Users \ {Admin})
             \cup Permutations(Characters) \cup Permutations(Slugs)
=============================================================================
