------------------------- MODULE MCResourceAllocation -------------------------
(* The instance TLC checks: model values stand for the observations. *)
EXTENDS ResourceAllocation

=============================================================================
