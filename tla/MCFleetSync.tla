------------------------------ MODULE MCFleetSync ------------------------------
(* Small instances of FleetSync for TLC. *)
EXTENDS FleetSync

CONSTANTS n1, n2, n3, d1, pA, pB

Row(plate, ds) == [listed |-> TRUE, bad |-> "nothing", plate |-> plate, drivers |-> ds]

List(row1, row2, row3) ==
  [n \in Number |-> CASE n = n1 -> row1 [] n = n2 -> row2 [] OTHER -> row3]

MCFirst == List(Row(pA, {d1}), Row(pB, {}), Unlisted)

\* n1 and n2 swap plates; n2 leaves the list, n1 gets its plate and a vehicle of the old
\* mock appears; a driver of n1 has a customer number that is none; all is as it was.
MCLists ==
  {MCFirst,
   List(Row(pB, {}), Row(pA, {}), Unlisted),
   List(Row(pB, {d1}), Unlisted, Row(NoPlate, {})),
   List([Row(pA, {d1}) EXCEPT !.bad = "driver"], Row(pB, {}), Unlisted)}
================================================================================
