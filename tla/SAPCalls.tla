------------------------------- MODULE SAPCalls -------------------------------
(***************************************************************************)
(* One call of an SAP adapter: the port's method, the client below it, and *)
(* SAP.  A BAPI adapter builds the parameters, the client opens a          *)
(* connection, calls the function module, calls BAPI_TRANSACTION_COMMIT    *)
(* whatever the RETURN table says, reads nothing of what that answers, and *)
(* only then does the adapter look at the function's RETURN and turn the   *)
(* answer into a DTO.  An OData adapter sends one GET.                     *)
(* A call can be cut off between any two of these steps.                   *)
(*                                                                         *)
(* SAP itself is external: it does what a function module is documented to *)
(* do, all of it or, when it answers E or A, nothing.                      *)
(***************************************************************************)
EXTENDS FiniteSets

CONSTANTS
  Callers,  \* requests and workers that call a port
  Docs,     \* the documents SAP may create
  MockDoc,  \* the number every successful answer of the mock client carries
  Used,     \* the functions called, out of Functions
  NoDoc     \* no number

ASSUME CallsAssumption == NoDoc \notin Docs /\ MockDoc \notin Docs /\ MockDoc # NoDoc

VARIABLES
  client,   \* which client the composition root built from SAPConfig
  sap,      \* the documents SAP has committed
  luw,      \* what a connection has changed and not committed
  call,     \* the call every caller is in
  effect,   \* history: the documents the caller's call changed in SAP
  outcome,  \* how the caller's last call ended, "busy" while it runs
  told,     \* history: what DTOs have said of documents
  unfounded \* history: the numbers in DTOs of changes whose commit SAP refused

vars == <<client, sap, luw, call, effect, outcome, told, unfounded>>

--------------------------------------------------------------------------------
(* The adapters: function module, family of documents, what the function   *)
(* does, the status the DTO gives, and where the DTO's number comes from.  *)

Fn(fm, family, act, says, number) ==
  [fm |-> fm, family |-> family, act |-> act, says |-> says, number |-> number]

NotificationAdapter == {
  Fn("BAPI_ALM_NOTIF_CREATE", "notification", "create", "made", "answer"),
  Fn("BAPI_ALM_NOTIF_CLOSE", "notification", "move", "moved", "request")}

PMOrderAdapter == {
  Fn("BAPI_ALM_ORDER_MAINTAIN", "pm order", "create", "made", "answer"),
  Fn("BAPI_ALM_ORDER_COMPLETE", "pm order", "move", "moved", "request"),
  Fn("BAPI_ALM_ORDER_READ", "pm order", "get", "as read", "answer")}

\* An order that was read is "ACTIVE" whatever its status.
PurchaseOrderAdapter == {
  Fn("BAPI_PO_CREATE1", "purchase order", "create", "made", "answer"),
  Fn("BAPI_PO_APPROVE", "purchase order", "move", "moved", "request"),
  Fn("BAPI_PO_GET_DETAIL", "purchase order", "get", "exists", "either")}

ServicePOAdapter == {
  Fn("BAPI_SERVICE_PO_CREATE", "service order", "create", "made", "answer"),
  Fn("BAPI_SERVICE_PO_CONFIRM", "service order", "move", "moved", "request"),
  Fn("BAPI_SERVICE_PO_GET", "service order", "get", "exists", "either")}

RequisitionAdapter == {
  Fn("BAPI_PR_CREATE", "requisition", "create", "made", "answer"),
  Fn("BAPI_PR_GET_DETAIL", "requisition", "get", "exists", "request")}

\* A reversal is a material document of its own.
GoodsReceiptAdapter == {
  Fn("BAPI_GOODSMVT_CREATE_GR", "goods receipt", "create", "made", "answer"),
  Fn("BAPI_GOODSMVT_CANCEL_GR", "goods receipt", "reverse", "made", "answer")}

GoodsIssueAdapter == {
  Fn("BAPI_GOODSMVT_CREATE_GI", "goods issue", "create", "made", "answer"),
  Fn("BAPI_GOODSMVT_CANCEL_GI", "goods issue", "reverse", "made", "answer")}

MeasurementAdapter == {
  Fn("MEASUREM_DOCUM_RFC_SINGLE_001", "measurement", "create", "made", "answer")}

VehicleAssignmentAdapter == {
  Fn("ZFM_FLEET_ASSIGN_REPLACEMENT", "assignment", "create", "made", "answer")}

\* Lists are read whole; "find" is a list that is then searched for one row,
\* "entry" a GET of one row by its key.
Read(service, act) == Fn(service, "rows", act, "as read", "request")

FaultCatalogAdapter == {Read("defect codes", "list"), Read("defect code", "find")}
ObjectPartAdapter == {Read("object parts", "list"), Read("object part", "find"),
                      Read("CatalogEntry", "entry")}
CentralStockAdapter == {Read("central stock", "list")}
InventoryAdapter == {Read("plant stock", "list"), Read("material stock", "entry")}
MaterialAdapter == {Read("materials", "list"), Read("material", "entry")}

Writers == UNION {NotificationAdapter, PMOrderAdapter, PurchaseOrderAdapter,
                  ServicePOAdapter, RequisitionAdapter, GoodsReceiptAdapter,
                  GoodsIssueAdapter, MeasurementAdapter, VehicleAssignmentAdapter}

Readers == UNION {FaultCatalogAdapter, ObjectPartAdapter, CentralStockAdapter,
                  InventoryAdapter, MaterialAdapter}

Functions == Writers \cup Readers

--------------------------------------------------------------------------------

Scenarios == {"SUCCESS", "BAPI_ERROR", "TRANSPORT_ERROR", "DUPLICATE"}

\* SAPConfig.use_mock chooses the mock, or the clients that reach SAP.
Clients == {"bapi"} \cup Scenarios

Statuses == {"absent", "made", "moved"}

DocRow == [family : {f.family : f \in Writers} \cup {"none"}, status : Statuses]

NoFn == Fn("none", "none", "none", "none", "none")

NoCall ==
  [pc |-> "idle", fn |-> NoFn, arg |-> NoDoc, ret |-> "S", number |-> NoDoc, commit |-> "due"]

\* commit is history: whether SAP has refused the call's.
CallState == {NoCall} \cup
  [pc : {"open", "ran", "answered"}, fn : Used, arg : Docs \cup {MockDoc, NoDoc},
   ret : {"S", "W", "E", "A"}, number : Docs \cup {MockDoc, NoDoc}, commit : {"due", "refused"}]

\* What is not committed belongs to a connection that is open.
TypeOK ==
  /\ client \in Clients
  /\ sap \in [Docs -> DocRow]
  /\ luw \in [Callers -> SUBSET (Docs \X DocRow)]
  /\ call \in [Callers -> CallState]
  /\ effect \in [Callers -> SUBSET Docs]
  /\ outcome \in [Callers -> {"none", "busy", "written", "unfounded", "read", "refused", "cut"}]
  /\ told \subseteq [doc : Docs \cup {MockDoc, NoDoc}, family : {f.family : f \in Writers},
                     says : {"made", "moved", "exists", "as read"}]
  /\ unfounded \subseteq Docs \cup {MockDoc, NoDoc}
  /\ \A c \in Callers : luw[c] # {} => call[c].pc = "ran"

Init ==
  /\ client \in Clients
  /\ sap = [d \in Docs |-> [family |-> "none", status |-> "absent"]]
  /\ luw = [c \in Callers |-> {}]
  /\ call = [c \in Callers |-> NoCall]
  /\ effect = [c \in Callers |-> {}]
  /\ outcome = [c \in Callers |-> "none"]
  /\ told = {}
  /\ unfounded = {}

\* The numbers FMMS can ask about: those a DTO gave it.
Known == ({t.doc : t \in told} \cup unfounded) \ {NoDoc}

\* The call is over; the connection is closed with whatever it did not commit.
Ends(c, how) ==
  /\ call' = [call EXCEPT ![c] = NoCall]
  /\ luw' = [luw EXCEPT ![c] = {}]
  /\ outcome' = [outcome EXCEPT ![c] = how]

--------------------------------------------------------------------------------
(* Opening a call. *)

Arguments(f) == IF f.act \in {"move", "reverse", "get"} THEN Known ELSE {NoDoc}

OpenCall(c, f) ==
  /\ call[c].pc = "idle"
  /\ \E d \in Arguments(f) :
       call' = [call EXCEPT ![c] = [NoCall EXCEPT !.pc = "open", !.fn = f, !.arg = d]]
  /\ effect' = [effect EXCEPT ![c] = {}]
  /\ outcome' = [outcome EXCEPT ![c] = "busy"]
  /\ UNCHANGED <<client, sap, luw, told, unfounded>>

\* The connection goes back to a pool with its work still open.
ConnectionFailsPooled(c) ==
  /\ client = "bapi"
  /\ call[c].fn \in Writers
  /\ call[c].pc \in {"open", "ran"}
  /\ call' = [call EXCEPT ![c] = NoCall]
  /\ outcome' = [outcome EXCEPT ![c] = "cut"]
  /\ UNCHANGED <<client, sap, luw, effect, told, unfounded>>

\* CommunicationError, LogonError and ABAPRuntimeError of the connection, before
\* or in the function or before the commit: SAPClientError, and nothing stays.
ConnectionFails(c) ==
  /\ client = "bapi"
  /\ call[c].fn \in Writers
  /\ call[c].pc \in {"open", "ran"}
  /\ Ends(c, "cut")
  /\ UNCHANGED <<client, sap, effect, told, unfounded>>

--------------------------------------------------------------------------------
(* The function module in SAP. *)

\* SAP's own lock: a document another connection has changed cannot be changed.
Locked(c, d) == \E q \in Callers \ {c} : \E chg \in luw[q] : chg[1] = d

\* SAP gives a number once, also that of a document it did not keep.
Fresh(c, d) ==
  /\ sap[d].status = "absent" /\ ~Locked(c, d)
  /\ d \notin Known /\ \A q \in Callers : call[q].number # d

Ran(c, ret, number, changes) ==
  /\ call' = [call EXCEPT ![c].pc = "ran", ![c].ret = ret, ![c].number = number]
  /\ luw' = [luw EXCEPT ![c] = changes]
  /\ UNCHANGED <<client, sap, effect, outcome, told, unfounded>>

Running(c, acts) ==
  /\ client = "bapi" /\ call[c].pc = "open"
  /\ call[c].fn \in Writers /\ call[c].fn.act \in acts

\* The new document's number comes back, but maybe not where the adapter looks.
SAPCreates(c) ==
  /\ Running(c, {"create"})
  /\ \E d \in Docs, ret \in {"S", "W"} : \E number \in {d, NoDoc} :
       /\ Fresh(c, d)
       /\ Ran(c, ret, number, {<<d, [family |-> call[c].fn.family, status |-> "made"]>>})

Movable(c) ==
  LET d == call[c].arg IN
  /\ d \in Docs /\ ~Locked(c, d)
  /\ sap[d] = [family |-> call[c].fn.family, status |-> "made"]

SAPMoves(c) ==
  /\ Running(c, {"move"}) /\ Movable(c)
  /\ \E ret \in {"S", "W"} :
       Ran(c, ret, call[c].arg, {<<call[c].arg, [sap[call[c].arg] EXCEPT !.status = "moved"]>>})

SAPReverses(c) ==
  /\ Running(c, {"reverse"}) /\ Movable(c)
  /\ \E d \in Docs : \E number \in {d, NoDoc} :
       /\ Fresh(c, d)
       /\ Ran(c, "S", number, {<<call[c].arg, [sap[call[c].arg] EXCEPT !.status = "moved"]>>,
                               <<d, sap[call[c].arg]>>})

SAPShows(c) ==
  /\ Running(c, {"get"})
  /\ call[c].arg \in Docs /\ sap[call[c].arg].family = call[c].fn.family
  /\ \E number \in {call[c].arg, NoDoc} : Ran(c, "S", number, {})

SAPRejects(c) ==
  /\ Running(c, {"create", "move", "reverse", "get"})
  /\ \E ret \in {"E", "A"} : Ran(c, ret, NoDoc, {})

--------------------------------------------------------------------------------
(* BAPI_TRANSACTION_COMMIT, called after the function whatever it answered. *)

Changed(c) == {chg[1] : chg \in luw[c]}

Committed(c) ==
  [d \in Docs |-> IF d \in Changed(c) THEN (CHOOSE chg \in luw[c] : chg[1] = d)[2]
                                      ELSE sap[d]]

Commit(c) ==
  /\ call[c].pc = "ran"
  /\ sap' = Committed(c)
  /\ effect' = [effect EXCEPT ![c] = Changed(c)]
  /\ luw' = [luw EXCEPT ![c] = {}]
  /\ call' = [call EXCEPT ![c].pc = "answered"]
  /\ UNCHANGED <<client, outcome, told, unfounded>>

\* The commit answers that it failed and SAP drops the work; the client does not
\* read that answer, and goes on with the function's.
CommitRefused(c) ==
  /\ call[c].pc = "ran" /\ luw[c] # {}
  /\ luw' = [luw EXCEPT ![c] = {}]
  /\ call' = [call EXCEPT ![c].pc = "answered", ![c].commit = "refused"]
  /\ UNCHANGED <<client, sap, effect, outcome, told, unfounded>>

\* SAP commits and the connection breaks before it has said so.
CommitUnheard(c) ==
  /\ call[c].pc = "ran"
  /\ sap' = Committed(c)
  /\ effect' = [effect EXCEPT ![c] = Changed(c)]
  /\ Ends(c, "cut")
  /\ UNCHANGED <<client, told, unfounded>>

--------------------------------------------------------------------------------
(* The adapter reads the answer. *)

\* assert_bapi_success as it must not be: warnings raise; or nothing does.
AcceptedStrictly(ret) == ret = "S"
AcceptedUnread(ret) == TRUE

Accepted(ret) == ret \notin {"E", "A"}

NumberTold(c) ==
  CASE call[c].fn.number = "answer" -> call[c].number
    [] call[c].fn.number = "request" -> call[c].arg
    [] call[c].fn.number = "either" ->
         IF call[c].number = NoDoc THEN call[c].arg ELSE call[c].number

Answer(c) ==
  /\ call[c].pc = "answered" /\ call[c].commit # "refused" /\ Accepted(call[c].ret)
  /\ told' = told \cup {[doc |-> NumberTold(c), family |-> call[c].fn.family,
                         says |-> call[c].fn.says]}
  /\ Ends(c, IF call[c].fn.act = "get" THEN "read" ELSE "written")
  /\ UNCHANGED <<client, sap, effect, unfounded>>

\* The same answer, and the same DTO, behind a commit that SAP refused.
AnswerUnfounded(c) ==
  /\ call[c].pc = "answered" /\ call[c].commit = "refused" /\ Accepted(call[c].ret)
  /\ unfounded' = unfounded \cup {NumberTold(c)}
  /\ Ends(c, "unfounded")
  /\ UNCHANGED <<client, sap, effect, told>>

Refusal(c) ==
  /\ call[c].pc = "answered" /\ ~Accepted(call[c].ret)
  /\ Ends(c, "refused")
  /\ UNCHANGED <<client, sap, effect, told, unfounded>>

\* A line of a requisition whose quantity is no number: the DTO cannot be built,
\* after the commit, and what is raised is not an SAPIntegrationError.
AnswerUnreadable(c) ==
  /\ call[c].pc = "answered" /\ Accepted(call[c].ret)
  /\ call[c].fn.family = "requisition"
  /\ client = "bapi"
  /\ Ends(c, "cut")
  /\ UNCHANGED <<client, sap, effect, told, unfounded>>

--------------------------------------------------------------------------------
(* MockSAPClient: canned answers by scenario, and no SAP behind them. *)

MockReturn == IF client = "SUCCESS" THEN "S" ELSE "E"

MockNumber == IF client = "SUCCESS" THEN MockDoc ELSE NoDoc

MockCalled(c) ==
  /\ client \in Scenarios \ {"TRANSPORT_ERROR"}
  /\ call[c].pc = "open" /\ call[c].fn \in Writers
  /\ call' = [call EXCEPT ![c].pc = "answered", ![c].ret = MockReturn,
                          ![c].number = MockNumber]
  /\ UNCHANGED <<client, sap, luw, effect, outcome, told, unfounded>>

MockTransportError(c) ==
  /\ client = "TRANSPORT_ERROR"
  /\ call[c].pc = "open"
  /\ Ends(c, "cut")
  /\ UNCHANGED <<client, sap, effect, told, unfounded>>

--------------------------------------------------------------------------------
(* OData: one GET, no session and nothing to commit. *)

Reading(c) == call[c].pc = "open" /\ call[c].fn \in Readers

\* The rows; of "find", the row that matches.  The mock answers every GET.
RowsRead(c) ==
  /\ Reading(c)
  /\ client # "TRANSPORT_ERROR"
  /\ Ends(c, "read")
  /\ UNCHANGED <<client, sap, effect, told, unfounded>>

\* No row of the list has the code and the group asked for.
RowNotFound(c) ==
  /\ Reading(c)
  /\ client # "TRANSPORT_ERROR"
  /\ call[c].fn.act = "find"
  /\ Ends(c, "refused")
  /\ UNCHANGED <<client, sap, effect, told, unfounded>>

\* HTTPStatusError, RequestError and the timeout are SAPClientErrors; an answer
\* that is no XML, no JSON or holds no number is raised as it is.
ReadFails(c) ==
  /\ Reading(c)
  /\ client = "bapi"
  /\ Ends(c, "cut")
  /\ UNCHANGED <<client, sap, effect, told, unfounded>>

--------------------------------------------------------------------------------

Next ==
  \E c \in Callers :
    \/ \E f \in Used : OpenCall(c, f)
    \/ ConnectionFails(c)
    \/ SAPCreates(c) \/ SAPMoves(c) \/ SAPReverses(c) \/ SAPShows(c) \/ SAPRejects(c)
    \/ Commit(c) \/ CommitRefused(c) \/ CommitUnheard(c)
    \/ Answer(c) \/ AnswerUnfounded(c) \/ Refusal(c) \/ AnswerUnreadable(c)
    \/ MockCalled(c) \/ MockTransportError(c)
    \/ RowsRead(c) \/ RowNotFound(c) \/ ReadFails(c)

Spec == Init /\ [][Next]_vars

--------------------------------------------------------------------------------
(* Properties. *)

\* What a DTO said of a document SAP numbered is so: the document is there, of
\* that kind, and closed, completed, approved or confirmed once a DTO says so -
\* although the adapter looks at RETURN only after the commit, and takes the
\* number of a change from its own request (assert_bapi_success).  The DTOs
\* behind a commit that SAP refused are not among these: see AnswerUnfounded.
ToldIsTrue ==
  \A t \in told : t.doc \in Docs =>
    /\ sap[t.doc].family = t.family
    /\ sap[t.doc].status # "absent"
    /\ t.says = "moved" => sap[t.doc].status = "moved"

Simulated == client # "bapi"

\* The ports' promise, for the clients that reach SAP: one effect at most, none
\* behind a refusal, and one behind every DTO of a change unless SAP refused the
\* commit, which the client does not notice: then none.
Promise == INSTANCE SAPCallPromise WITH
  sap <- [d \in Docs |-> sap[d].status],
  effect <- IF Simulated THEN [c \in Callers |-> {}] ELSE effect,
  outcome <- IF Simulated THEN [c \in Callers |-> "none"] ELSE outcome

PromiseKept == Promise!PromiseSpec
================================================================================
