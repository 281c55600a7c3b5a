------------------------------ MODULE MCChecklist ------------------------------
(* Small instances of Checklist for TLC. *)
EXTENDS Checklist, TLC

Symmetric ==
  Permutations(Vehicle) \cup Permutations(Inspection) \cup Permutations(Request)
================================================================================
