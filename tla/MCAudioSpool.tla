---------------------------- MODULE MCAudioSpool ----------------------------
(***************************************************************************)
(* A small instance of AudioSpool: two calls, so that one can remove its   *)
(* file while the task is on its way to the file the other has left        *)
(* behind; three scans fit into the retention.                             *)
(***************************************************************************)
EXTENDS AudioSpool
=============================================================================
