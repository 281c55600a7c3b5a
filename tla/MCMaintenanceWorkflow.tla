------------------------- MODULE MCMaintenanceWorkflow -------------------------
(* Small instances of MaintenanceWorkflow for TLC. *)
EXTENDS MaintenanceWorkflow, TLC

\* Requests are treated alike.
Symmetric == Permutations(Request)
================================================================================
