----------------------------- MODULE MCAccounts -----------------------------
(* Model checking of Accounts: the users are interchangeable.              *)
EXTENDS Accounts, TLC

Symmetric == Permutations(Users)
=============================================================================
