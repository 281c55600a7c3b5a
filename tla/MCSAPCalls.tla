------------------------------ MODULE MCSAPCalls ------------------------------
(* A small instance of SAPCalls for TLC. *)
EXTENDS SAPCalls, TLC

\* A document that is closed, one that is reversed, one that is read back, one
\* whose answer has lines, and a list with a look-up.
Called == NotificationAdapter \cup GoodsIssueAdapter
          \cup {f \in PurchaseOrderAdapter : f.act # "move"}
          \cup {f \in RequisitionAdapter : f.act = "create"}
          \cup FaultCatalogAdapter

\* Callers and documents are interchangeable: no property names one.
Symmetric == Permutations(Callers) \cup Permutations(Docs)
===============================================================================
