----------------------------- MODULE MCPMWorkOrders -----------------------------
(* Small instances of PMWorkOrders for TLC. *)
EXTENDS PMWorkOrders
================================================================================
