----------------------------- MODULE MCWorkflowRun -----------------------------
(* WorkflowRun for TLC: one run id, a process that may crash and come up again. *)
EXTENDS WorkflowRun
=============================================================================
