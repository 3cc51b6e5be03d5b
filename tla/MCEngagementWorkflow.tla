------------------------ MODULE MCEngagementWorkflow ------------------------
(* The instance of EngagementWorkflow for TLC. *)
EXTENDS EngagementWorkflow
=============================================================================
