--------------------------- MODULE MCAuditPipeline ---------------------------
(***************************************************************************)
(* Small instances of AuditPipeline.  Two calls on two slots fill the      *)
(* channel with reserved slots, with queued messages and with a mix of     *)
(* both; a batch of two mixes events and transports of two calls; the      *)
(* archive budget admits one call at a time.  There is no symmetry, since  *)
(* both instances check temporal properties under fairness.                *)
(***************************************************************************)
EXTENDS AuditPipeline
=============================================================================
