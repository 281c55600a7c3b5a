----------------------------- MODULE MCMaterialFlow -----------------------------
(* Small instances of MaterialFlow for TLC. *)
EXTENDS MaterialFlow, TLC

\* One stocked material, asked for in a quantity the stock may cover, together with
\* a line of a quantity nothing can be ordered in; users add a line of their own.
OneNumber == {"n1"}
Asked == [material |-> "n1", quantity |-> 1, catalog |-> TRUE]
Nothing == [material |-> "n1", quantity |-> 0, catalog |-> FALSE]
Added == [material |-> "n1", quantity |-> 2, catalog |-> FALSE]
ThreeLines == {Asked, Nothing, Added}
BothLines == {{Asked, Nothing}}
OneByHand == {Added}

\* Requests are treated alike.
Symmetric == Permutations(Request)
================================================================================
