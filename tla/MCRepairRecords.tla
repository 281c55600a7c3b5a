---------------------------- MODULE MCRepairRecords ----------------------------
(* A small instance of RepairRecords for TLC. *)
EXTENDS RepairRecords, TLC

\* One user of the workshop and one of Transportation.
CONSTANTS r1, r2
Roles == (r1 :> "WORKSHOP_SUPERVISOR") @@ (r2 :> "TRANSPORT")

Symmetric == Permutations(Part) \cup Permutations(Invoice)
================================================================================
