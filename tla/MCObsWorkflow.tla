---------------------------- MODULE MCObsWorkflow -----------------------------
(* The instance TLC checks: model values stand for the processors. *)
EXTENDS ObsWorkflow

=============================================================================
