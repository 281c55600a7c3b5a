---------------------------- MODULE SAPCallPromise ----------------------------
(***************************************************************************)
(* What an SAP port promises the services that call it (core/sap/ports):   *)
(* a call has its effect in SAP at most once; a call that returns a DTO    *)
(* had it; a call that raises SAPIntegrationError for a refusal had none;  *)
(* only a call that is cut off leaves the caller not knowing.  The one     *)
(* exception the client leaves open is a DTO with no effect behind it, the *)
(* end "unfounded" of a call whose commit SAP refused.                     *)
(***************************************************************************)
CONSTANTS Callers, Docs, Statuses

VARIABLES
  sap,      \* the status of every document in SAP
  effect,   \* the documents the caller's current or last call changed
  outcome   \* "busy" during a call, otherwise how the caller's last call ended

promiseVars == <<sap, effect, outcome>>

PromiseInit ==
  /\ sap \in [Docs -> Statuses]
  /\ effect = [c \in Callers |-> {}]
  /\ outcome = [c \in Callers |-> "none"]

Begin(c) ==
  /\ outcome[c] # "busy"
  /\ outcome' = [outcome EXCEPT ![c] = "busy"]
  /\ effect' = [effect EXCEPT ![c] = {}]
  /\ UNCHANGED sap

\* The one effect: it may come with the end of a call that is cut off.
Take(c) ==
  /\ outcome[c] = "busy"
  /\ effect[c] = {}
  /\ \E D \in (SUBSET Docs) \ {{}} :
       /\ effect' = [effect EXCEPT ![c] = D]
       /\ \E s \in [D -> Statuses] :
            sap' = [d \in Docs |-> IF d \in D THEN s[d] ELSE sap[d]]
  /\ \/ UNCHANGED outcome
     \/ outcome' = [outcome EXCEPT ![c] = "cut"]

End(c) ==
  /\ outcome[c] = "busy"
  /\ \/ effect[c] # {} /\ outcome' = [outcome EXCEPT ![c] = "written"]
     \/ effect[c] = {} /\ outcome' = [outcome EXCEPT ![c] = "unfounded"]
     \/ effect[c] = {} /\ outcome' = [outcome EXCEPT ![c] = "read"]
     \/ effect[c] = {} /\ outcome' = [outcome EXCEPT ![c] = "refused"]
     \/ outcome' = [outcome EXCEPT ![c] = "cut"]
  /\ UNCHANGED <<sap, effect>>

PromiseNext == \E c \in Callers : Begin(c) \/ Take(c) \/ End(c)

PromiseSpec == PromiseInit /\ [][PromiseNext]_promiseVars
================================================================================
