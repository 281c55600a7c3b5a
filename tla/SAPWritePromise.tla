--------------------------- MODULE SAPWritePromise ---------------------------
(***************************************************************************)
(* What ADR-004 promises of a SAP write: the adapter is called again only  *)
(* while SAP has no document for the idempotency key and the retry budget  *)
(* lasts, and the only number ever handed to the business object is the    *)
(* number of that one document.                                            *)
(***************************************************************************)
EXTENDS Naturals

CONSTANTS Key, MaxRetries

VARIABLES
  docs,      \* documents SAP holds for the key
  attempts,  \* adapter calls made for the key
  known      \* the number FMMS keeps on the business object, 0 if none

promiseVars == <<docs, attempts, known>>

PromiseInit ==
  /\ docs = [k \in Key |-> 0]
  /\ attempts = [k \in Key |-> 0]
  /\ known = [k \in Key |-> 0]

Attempt(k) ==
  /\ docs[k] = 0
  /\ attempts[k] <= MaxRetries
  /\ attempts' = [attempts EXCEPT ![k] = @ + 1]
  /\ \E created \in {0, 1} : docs' = [docs EXCEPT ![k] = created]
  /\ UNCHANGED known

Learn(k) ==
  /\ docs[k] = 1
  /\ known' = [known EXCEPT ![k] = 1]
  /\ UNCHANGED <<docs, attempts>>

PromiseNext == \E k \in Key : Attempt(k) \/ Learn(k)

PromiseSpec == PromiseInit /\ [][PromiseNext]_promiseVars
================================================================================
