-------------------------- MODULE MCSAPTransactions --------------------------
(* Small instances of SAPTransactions for TLC. *)
EXTENDS SAPTransactions, TLC

\* Keys, requests and workers are each treated alike; not used with liveness.
Symmetric == Permutations(Key) \cup Permutations(Request) \cup Permutations(Worker)
===============================================================================
