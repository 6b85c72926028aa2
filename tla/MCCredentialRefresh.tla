------------------------ MODULE MCCredentialRefresh ------------------------
(***************************************************************************)
(* Small instances of CredentialRefresh; tasks are symmetric.              *)
(***************************************************************************)
EXTENDS CredentialRefresh, TLC

Symmetry == Permutations(Tasks)
=============================================================================
