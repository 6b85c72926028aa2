----------------------------- MODULE MCAccounts -----------------------------
(***************************************************************************)
(* Small instances of Accounts: handlers, users and issuers have no order  *)
(* and are symmetric; one of the settings is the initial one.              *)
(***************************************************************************)
EXTENDS Accounts, TLC

Symmetry == Permutations(Tasks) \cup Permutations(Users) \cup Permutations(Issuers)
=============================================================================
