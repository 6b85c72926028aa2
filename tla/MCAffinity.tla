----------------------------- MODULE MCAffinity -----------------------------
(***************************************************************************)
(* A small instance of Affinity: two handlers beside the maintenance task, *)
(* so that a request can come between a decision of the task and one of a  *)
(* deletion, and the reverse.                                              *)
(***************************************************************************)
EXTENDS Affinity
=============================================================================
