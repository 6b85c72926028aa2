----------------------------- MODULE MCDispatch -----------------------------
(***************************************************************************)
(* Small instances of Dispatch; calls and providers are symmetric.         *)
(***************************************************************************)
EXTENDS Dispatch, TLC

Symmetry == Permutations(Calls) \cup Permutations(Providers)
=============================================================================
