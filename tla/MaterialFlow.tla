------------------------------ MODULE MaterialFlow ------------------------------
(***************************************************************************)
(* Parts for one repair order: the workshop requests them, the transport   *)
(* supervisor decides for every line whether the central warehouse has it  *)
(* or it is bought, a purchase requisition goes to SAP, the order comes    *)
(* back, the parts are issued and received and the repair goes on.         *)
(*                                                                         *)
(* A handler loads an aggregate and checks it (Load...), then saves the    *)
(* whole copy and answers; what it saved stays when it then answers a      *)
(* mapped error.  Celery workers refresh the stock and retry failed writes *)
(* meanwhile.  Of the order's own handlers (MaintenanceWorkflow) those are *)
(* here that save it as they have loaded it, and the cancellation.  A call *)
(* of the SAP gateway is one step: its saves and their overlap are the     *)
(* subject of SAPTransactions, what an answer is worth that of SAPCalls.   *)
(***************************************************************************)
EXTENDS Integers, FiniteSets, FiniteSetsExt

CONSTANTS
  Request,          \* HTTP requests being served at the same time
  Line,             \* the lines of requests and requisitions, see LineType
  ItemLists,        \* bound: the items a request may be made with
  ByHand,           \* bound: the lines users add to a requisition themselves
  Number,           \* material numbers
  EndsWith,         \* <<m, n>>: the stored number n ends with the number m
  Key,              \* idempotency keys a client submits a requisition under
  MaxStock,         \* bound: quantity of one stock row
  MaxRequests,      \* bound: material requests ever made
  MaxRequisitions,  \* bound: purchase requisitions ever made
  MaxIssues,        \* bound: stock issues of one request
  MaxReceipts,      \* bound: purchase orders received for one requisition
  MaxRetries,       \* MAX_RETRY_ATTEMPTS
  MaxOverlaps,      \* bound: how often a step falls into a handler being served
  Scope             \* bound: the optional operations of this instance

MR == 1 .. MaxRequests
PR == 1 .. MaxRequisitions

\* A line names a material, a quantity (the serializer has no minimum) and whether
\* it was picked from the catalogue; free text is a number no stock row has.
LineType == [material : Number, quantity : Int, catalog : BOOLEAN]

ASSUME MaterialAssumption ==
  /\ Line \subseteq LineType
  /\ ItemLists \subseteq (SUBSET Line) \ {{}}
  /\ ByHand \subseteq Line
  /\ EndsWith \subseteq Number \X Number
  /\ MaxStock \in Nat /\ MaxRequests \in Nat /\ MaxRequisitions \in Nat
  /\ MaxIssues \in Nat /\ MaxReceipts \in Nat /\ MaxRetries \in Nat /\ MaxOverlaps \in Nat
  /\ Scope \subseteq {"user", "stock", "cancel", "lines"}

VARIABLES
  order,       \* status of the repair order
  stock,       \* the central_stock row of every number
  mrs,         \* the material_request rows with their items
  issues,      \* how many stock-issue transactions a request has
  prs,         \* the purchase_requisition rows with their lines
  pos,         \* how many purchase orders a requisition has
  tx,          \* the gateway's row of every requisition and key
  sap,         \* the requisitions SAP holds, each the set of its lines
  req,         \* what every HTTP request has loaded
  overlaps     \* history: how often a handler was loaded, or a worker ran, while
               \* another handler was being served

vars == <<order, stock, mrs, issues, prs, pos, tx, sap, req, overlaps>>

\* The order is paused and resumed here, and a stale save may turn it back.
OrderStatus == {"IN_PROGRESS", "WAITING_PARTS", "CANCELLED"}

\* A row is never removed; one that does not exist counts nothing.
StockRow == [exists : BOOLEAN, quantity : 0 .. MaxStock]

\* APPROVED is passed through inside one handler; nothing saves REJECTED or
\* WAITING_STOCK.
MRStatus ==
  {"NONE", "REQUESTED", "STOCK_ISSUED", "PURCHASE_REQUIRED", "PARTIALLY_ISSUED", "RECEIVED"}

\* fromStock: the items decided FROM_STOCK (the others are PURCHASE once the
\* request is decided).  ready: those with item_status READY.  covered: those whose
\* available_quantity_snapshot is at least the quantity.
MRRow ==
  [status : MRStatus, items : SUBSET Line, fromStock : SUBSET Line,
   ready : SUBSET Line, covered : SUBSET Line]

NoMR == [status |-> "NONE", items |-> {}, fromStock |-> {}, ready |-> {}, covered |-> {}]

\* Only DRAFT and SUBMITTED are ever saved.
PRRow ==
  [status : {"NONE", "DRAFT", "SUBMITTED"}, for : MR \cup {0},  \* material_request_id
   lines : SUBSET Line, number : BOOLEAN]                       \* sap_pr_number is set

NoPR == [status |-> "NONE", for |-> 0, lines |-> {}, number |-> FALSE]

\* A sap_transaction row between two calls of the gateway; UNNUMBERED is SUCCESS with
\* an empty document number, and IN_PROGRESS the row a dead worker leaves.
TXStatus == {"NONE", "FAILED", "SUCCESS", "UNNUMBERED", "IN_PROGRESS"}

TXRow ==
  [status : TXStatus, retry : 0 .. MaxRetries, payload : SUBSET Line]

NoTX == [status |-> "NONE", retry |-> 0, payload |-> {}]

MaterialOp == {"create", "decide", "approve", "issue", "receive"}

ProcurementOp == {"createPR", "addLine", "submit", "receivePO"}

Op == {"idle", "saveOrder"} \cup MaterialOp \cup ProcurementOp

\* mr, pr, order: the copy loaded; pick: the line, or the lines inferred to be in stock;
\* key: the idempotency key of a submission.
RequestState ==
  [op : Op, id : Nat, mr : MRRow, pr : PRRow, pick : SUBSET Line, key : Key \cup {"none"},
   order : OrderStatus \cup {"none"}]

Idle ==
  [op |-> "idle", id |-> 0, mr |-> NoMR, pr |-> NoPR, pick |-> {}, key |-> "none",
   order |-> "none"]

TypeOK ==
  /\ order \in OrderStatus
  /\ stock \in [Number -> StockRow]
  /\ mrs \in [MR -> MRRow]
  /\ issues \in [MR -> 0 .. MaxIssues]
  /\ prs \in [PR -> PRRow]
  /\ pos \in [PR -> 0 .. MaxReceipts]
  /\ tx \in [PR \X Key -> TXRow]
  /\ sap \in [PR -> SUBSET SUBSET Line]
  /\ req \in [Request -> RequestState]
  /\ overlaps \in 0 .. MaxOverlaps

Init ==
  /\ order = "IN_PROGRESS"
  /\ stock \in [Number -> StockRow]
  /\ mrs = [m \in MR |-> NoMR]
  /\ issues = [m \in MR |-> 0]
  /\ prs = [p \in PR |-> NoPR]
  /\ pos = [p \in PR |-> 0]
  /\ tx = [k \in PR \X Key |-> NoTX]
  /\ sap = [p \in PR |-> {}]
  /\ req = [r \in Request |-> Idle]
  /\ overlaps = 0

--------------------------------------------------------------------------------
(* The central stock. *)

\* _matching_active_rows: the rows counted for a number are its own and every row
\* whose number ends with it.
Matching(n) == {k \in Number : stock[k].exists /\ (k = n \/ <<n, k>> \in EndsWith)}

GetAvailableQuantity(n) == MapThenSumSet(LAMBDA k : stock[k].quantity, Matching(n))

MaterialExists(n) == Matching(n) # {}

\* is_available of the availability adapter, and the snapshot of a decision.
IsAvailable(l) == GetAvailableQuantity(l.material) >= l.quantity

\* enforce_stock_check of a supervisor's decision.
MayAllocate(l) == MaterialExists(l.material) /\ l.catalog /\ IsAvailable(l)

\* Quantity refuses what is not positive.
ValidLine(l) == l.quantity > 0

--------------------------------------------------------------------------------
(* Requests. *)

Tables == <<order, stock, mrs, issues, prs, pos, tx, sap>>

Busy(r) == req[r].op # "idle"

\* Whether this step falls into another handler, counted up to the bound.
Overlapping ==
  IF \E s \in Request : Busy(s)
    THEN overlaps < MaxOverlaps /\ overlaps' = overlaps + 1
    ELSE UNCHANGED overlaps

Load(r, state) ==
  /\ ~Busy(r)
  /\ req' = [req EXCEPT ![r] = state]
  /\ Overlapping
  /\ UNCHANGED Tables

LoadMR(r, op, m, row) == Load(r, [Idle EXCEPT !.op = op, !.id = m, !.mr = row])

LoadPR(r, op, p, pick, key) ==
  Load(r, [Idle EXCEPT !.op = op, !.id = p, !.pr = prs[p], !.pick = pick, !.key = key])

Serving(r, op) ==
  /\ req[r].op = op
  /\ req' = [req EXCEPT ![r] = Idle]
  /\ UNCHANGED overlaps

\* A worker works beside whatever handlers are being served.
Background ==
  /\ Overlapping
  /\ UNCHANGED req

NextMR(m) == mrs[m].status = "NONE" /\ \A n \in 1 .. m - 1 : mrs[n].status # "NONE"
NextPR(p) == prs[p].status = "NONE" /\ \A q \in 1 .. p - 1 : prs[q].status # "NONE"

\* save() of a request and of a requisition writes every field and replaces the
\* items: the whole copy.
SaveMR(m, row) == mrs' = [mrs EXCEPT ![m] = row]
SavePR(p, row) == prs' = [prs EXCEPT ![p] = row]

\* A placeholder transaction with no quantity.
CreateIssue(m) == issues[m] < MaxIssues /\ issues' = [issues EXCEPT ![m] = @ + 1]

\* SAP makes a requisition of the lines it is sent.
SAPCreates(p, lines) == sap' = [sap EXCEPT ![p] = @ \cup {lines}]

\* A call that ends without a number may have been carried out all the same.
SAPMayCreate(p, lines) == SAPCreates(p, lines) \/ UNCHANGED sap

\* An unmapped error, or the death of the server process, before the commit.
RollBack(r) ==
  /\ Busy(r)
  /\ req' = [req EXCEPT ![r] = Idle]
  /\ UNCHANGED <<Tables, overlaps>>

--------------------------------------------------------------------------------
(* Mutated forms of the actions below. *)

\* The receipt does not resume the order.
ReceiveNoResume(r) ==
  /\ Serving(r, "receive")
  /\ SaveMR(req[r].id, [req[r].mr EXCEPT !.status = "RECEIVED"])
  /\ UNCHANGED <<order, stock, issues, prs, pos, tx, sap>>

\* A purchase order is received without asking for the SAP number.
LoadReceivePOUnnumbered(r, p) ==
  /\ prs[p].status # "NONE"
  /\ pos[p] = 0
  /\ LoadPR(r, "receivePO", p, {}, "none")

\* The new line takes the place of the others.
AddLineReplacing(r) ==
  /\ Serving(r, "addLine")
  /\ SavePR(req[r].id, [req[r].pr EXCEPT !.lines = req[r].pick])
  /\ UNCHANGED <<order, stock, mrs, issues, pos, tx, sap>>

\* The header moves on without the items.
IssueHeaderOnly(r) ==
  /\ Serving(r, "issue")
  /\ SaveMR(req[r].id, [req[r].mr EXCEPT !.status = "STOCK_ISSUED"])
  /\ CreateIssue(req[r].id)
  /\ UNCHANGED <<order, stock, prs, pos, tx, sap>>

\* The loop over the lines may end early without an error.
PurchaseLinesShort(row, lines) ==
  lines \subseteq {l \in row.items \ row.fromStock : ValidLine(l)}

--------------------------------------------------------------------------------
(* Material requests. *)

LoadCreate(r) == order = "IN_PROGRESS" /\ Load(r, [Idle EXCEPT !.op = "create"])

\* The request is saved, then the copy of the order with its new status.
Create(r) ==
  /\ Serving(r, "create")
  /\ \E m \in MR, items \in ItemLists :
       /\ NextMR(m)
       /\ SaveMR(m, [NoMR EXCEPT !.status = "REQUESTED", !.items = items])
  /\ order' = "WAITING_PARTS"
  /\ UNCHANGED <<stock, issues, prs, pos, tx, sap>>

\* _apply_item_decisions: a decision for every item, with the stock read now.
Applied(row, fromStock) ==
  [row EXCEPT !.fromStock = fromStock, !.ready = fromStock,
              !.covered = {l \in row.items : IsAvailable(l)}]

\* The supervisor's own decision, checked against the stock.
LoadDecide(r, m, fromStock) ==
  /\ mrs[m].status = "REQUESTED"
  /\ fromStock \subseteq mrs[m].items
  /\ \A l \in fromStock : MayAllocate(l)
  /\ LoadMR(r, "decide", m, Applied(mrs[m], fromStock))

\* The compatibility endpoint first infers the decisions from the stock ...
LoadApprove(r, m) ==
  /\ mrs[m].status # "NONE"
  /\ Load(r, [Idle EXCEPT !.op = "approve", !.id = m,
                          !.pick = {l \in mrs[m].items : IsAvailable(l)}])

\* ... then lets the decision load the request again, without the stock check.
ApproveDecides(r) ==
  LET m == req[r].id IN
  /\ req[r].op = "approve"
  /\ mrs[m].status = "REQUESTED"
  /\ req' = [req EXCEPT ![r].op = "decide", ![r].mr = Applied(mrs[m], req[r].pick)]
  /\ UNCHANGED <<Tables, overlaps>>

\* _aggregate_header_status.
Header(row) ==
  IF row.fromStock = row.items THEN "STOCK_ISSUED"
  ELSE IF row.fromStock = {} THEN "PURCHASE_REQUIRED" ELSE "PARTIALLY_ISSUED"

Bought(row) == row.items \ row.fromStock

\* _create_purchase_lines: a draft requisition, one line after the other.  The first
\* refused line ends the handler with a mapped error, which keeps what was saved.
PurchaseLines(row, lines) ==
  /\ lines \subseteq {l \in Bought(row) : ValidLine(l)}
  /\ (\A l \in Bought(row) : ValidLine(l)) => lines = Bought(row)

Decide(r) ==
  LET m == req[r].id
      row == req[r].mr
  IN
  /\ Serving(r, "decide")
  /\ SaveMR(m, [row EXCEPT !.status = Header(row)])
  /\ IF row.fromStock = {} THEN UNCHANGED issues ELSE CreateIssue(m)
  /\ IF Bought(row) = {} THEN UNCHANGED prs
     ELSE \E p \in PR, lines \in SUBSET Bought(row) :
            /\ NextPR(p)
            /\ PurchaseLines(row, lines)
            /\ SavePR(p, [NoPR EXCEPT !.status = "DRAFT", !.for = m, !.lines = lines])
  /\ UNCHANGED <<order, stock, pos, tx, sap>>

\* No goods receipt and no purchase order is asked for.
LoadIssue(r, m) ==
  /\ mrs[m].status \in {"PURCHASE_REQUIRED", "PARTIALLY_ISSUED"}
  /\ LoadMR(r, "issue", m, mrs[m])

\* Every item is READY now; the header may leave both statuses for STOCK_ISSUED.
IssuePurchased(r) ==
  /\ Serving(r, "issue")
  /\ SaveMR(req[r].id, [req[r].mr EXCEPT !.status = "STOCK_ISSUED", !.ready = req[r].mr.items])
  /\ CreateIssue(req[r].id)
  /\ UNCHANGED <<order, stock, prs, pos, tx, sap>>

LoadReceive(r, m) ==
  /\ mrs[m].status = "STOCK_ISSUED"
  /\ LoadMR(r, "receive", m, mrs[m])

\* The order is read after the request was saved, so it is not stale.
Receive(r) ==
  /\ Serving(r, "receive")
  /\ SaveMR(req[r].id, [req[r].mr EXCEPT !.status = "RECEIVED"])
  /\ order' = IF order = "WAITING_PARTS" THEN "IN_PROGRESS" ELSE order
  /\ UNCHANGED <<stock, issues, prs, pos, tx, sap>>

--------------------------------------------------------------------------------
(* Purchase requisitions and purchase orders. *)

LoadCreatePR(r) == "user" \in Scope /\ Load(r, [Idle EXCEPT !.op = "createPR"])

CreatePR(r) ==
  /\ Serving(r, "createPR")
  /\ \E p \in PR : NextPR(p) /\ SavePR(p, [NoPR EXCEPT !.status = "DRAFT"])
  /\ UNCHANGED <<order, stock, mrs, issues, pos, tx, sap>>

LoadAddLine(r, p, l) ==
  /\ "user" \in Scope
  /\ prs[p].status = "DRAFT"
  /\ ValidLine(l)
  /\ LoadPR(r, "addLine", p, {l}, "none")

\* save() writes status, number and lines of the copy back.
AddLine(r) ==
  /\ Serving(r, "addLine")
  /\ SavePR(req[r].id, [req[r].pr EXCEPT !.lines = req[r].pr.lines \cup req[r].pick])
  /\ UNCHANGED <<order, stock, mrs, issues, pos, tx, sap>>

\* No status is asked for: a submitted requisition can be submitted again.
LoadSubmit(r, p, key) ==
  /\ prs[p].lines # {}
  /\ LoadPR(r, "submit", p, {}, key)

\* Mutated form: the answer of SAP approves the requisition.
SubmittedApproved(row) == [row EXCEPT !.number = TRUE, !.status = "APPROVED"]

\* link_sap_pr, and submit() when the copy is a draft.
Submitted(row) == [row EXCEPT !.number = TRUE, !.status = "SUBMITTED"]

CanRetry(row) == row.status = "FAILED" /\ row.retry < MaxRetries

CanAttempt(row) == row.status = "NONE" \/ CanRetry(row)

\* The attempt of the gateway's row: a new one, or one more of a failed one.  Either
\* stores the lines of this submission, which are also the ones sent.
Attempt(row, lines, status) ==
  [status |-> status, payload |-> lines,
   retry |-> IF row.status = "NONE" THEN 0 ELSE row.retry + 1]

\* SAP creates the requisition, or an earlier call had, and it is linked.
SubmitAccepted(r) ==
  LET p == req[r].id
      k == <<p, req[r].key>>
      lines == req[r].pr.lines
  IN
  /\ Serving(r, "submit")
  /\ \/ /\ CanAttempt(tx[k])
        /\ tx' = [tx EXCEPT ![k] = Attempt(tx[k], lines, "SUCCESS")]
        /\ SAPCreates(p, lines)
     \/ tx[k].status = "SUCCESS" /\ UNCHANGED <<tx, sap>>
  /\ SavePR(p, Submitted(req[r].pr))
  /\ UNCHANGED <<order, stock, mrs, issues, pos>>

\* The write fails, or is answered without a number: a mapped error, so the gateway's
\* row stays, and a requisition it may have made stays unknown.
SubmitRefused(r) ==
  LET p == req[r].id
      k == <<p, req[r].key>>
      lines == req[r].pr.lines
  IN
  /\ Serving(r, "submit")
  /\ CanAttempt(tx[k])
  /\ \E status \in {"FAILED", "UNNUMBERED"} :
       tx' = [tx EXCEPT ![k] = Attempt(tx[k], lines, status)]
  /\ SAPMayCreate(p, lines)
  /\ UNCHANGED <<order, stock, mrs, issues, prs, pos>>

\* The request is rolled back, with the gateway's row, after SAP has answered.
SubmitLost(r) ==
  /\ Serving(r, "submit")
  /\ CanAttempt(tx[<<req[r].id, req[r].key>>])
  /\ SAPCreates(req[r].id, req[r].pr.lines)
  /\ UNCHANGED <<order, stock, mrs, issues, prs, pos, tx>>

\* The sweep sends the stored payload again; nobody tells the requisition.
RetryPurchaseRequisition(p, key, status) ==
  LET k == <<p, key>> IN
  /\ CanRetry(tx[k])
  /\ Background
  /\ tx' = [tx EXCEPT ![k].status = status, ![k].retry = @ + 1]
  /\ IF status = "SUCCESS" THEN SAPCreates(p, tx[k].payload)
     ELSE SAPMayCreate(p, tx[k].payload)
  /\ UNCHANGED <<order, stock, mrs, issues, prs, pos>>

LoadReceivePO(r, p) ==
  /\ prs[p].number
  /\ pos[p] = 0
  /\ LoadPR(r, "receivePO", p, {}, "none")

ReceivePO(r) ==
  /\ Serving(r, "receivePO")
  /\ pos[req[r].id] < MaxReceipts
  /\ pos' = [pos EXCEPT ![req[r].id] = @ + 1]
  /\ UNCHANGED <<order, stock, mrs, issues, prs, tx, sap>>

--------------------------------------------------------------------------------
(* What happens beside the handlers. *)

\* SyncCentralStock: rows are created or updated one by one, each isolated from the
\* others; a row SAP no longer lists stays as it is.
SyncStockRow(n, quantity) ==
  /\ "stock" \in Scope
  /\ stock[n] # [exists |-> TRUE, quantity |-> quantity]
  /\ Background
  /\ stock' = [stock EXCEPT ![n] = [exists |-> TRUE, quantity |-> quantity]]
  /\ UNCHANGED <<order, mrs, issues, prs, pos, tx, sap>>

\* The handlers of the order's activities and parts, and the SAP sync, load the order
\* in whatever status it is ...
LoadOrder(r) ==
  "lines" \in Scope /\ Load(r, [Idle EXCEPT !.op = "saveOrder", !.order = order])

\* ... and save it whole, with the status it was loaded with.
SaveOrder(r) ==
  /\ Serving(r, "saveOrder")
  /\ order' = req[r].order
  /\ UNCHANGED <<stock, mrs, issues, prs, pos, tx, sap>>

\* The order is cancelled while it is paused (cancel_repair_order).
OrderCancelled ==
  /\ "cancel" \in Scope
  /\ order \in {"IN_PROGRESS", "WAITING_PARTS"}
  /\ Background
  /\ order' = "CANCELLED"
  /\ UNCHANGED <<stock, mrs, issues, prs, pos, tx, sap>>

--------------------------------------------------------------------------------

LoadStep(r) ==
  \/ LoadCreate(r) \/ LoadCreatePR(r) \/ LoadOrder(r)
  \/ \E m \in MR :
       \/ \E fromStock \in SUBSET Line : LoadDecide(r, m, fromStock)
       \/ LoadApprove(r, m) \/ LoadIssue(r, m) \/ LoadReceive(r, m)
  \/ \E p \in PR :
       \/ \E l \in ByHand : LoadAddLine(r, p, l)
       \/ \E key \in Key : LoadSubmit(r, p, key)
       \/ LoadReceivePO(r, p)

HandlerStep(r) ==
  \/ Create(r) \/ ApproveDecides(r) \/ Decide(r) \/ IssuePurchased(r) \/ Receive(r)
  \/ CreatePR(r) \/ AddLine(r) \/ SubmitAccepted(r) \/ SubmitRefused(r) \/ SubmitLost(r)
  \/ ReceivePO(r) \/ SaveOrder(r)

WorkerStep ==
  \/ \E p \in PR, key \in Key, status \in TXStatus \ {"NONE"} :
       RetryPurchaseRequisition(p, key, status)
  \/ \E n \in Number, quantity \in 0 .. MaxStock : SyncStockRow(n, quantity)

Next ==
  \/ \E r \in Request : LoadStep(r) \/ HandlerStep(r) \/ RollBack(r)
  \/ WorkerStep
  \/ OrderCancelled

Spec == Init /\ [][Next]_vars

--------------------------------------------------------------------------------
(* Properties of every execution. *)

\* The order waits for parts, and there is none to come.
Stranded == order = "WAITING_PARTS" /\ \A m \in MR : mrs[m].status \in {"NONE", "RECEIVED"}

\* No receipt leaves the repair waiting for parts that have arrived, whatever two
\* handlers of requests do to each other's copies: only a handler of the order that saves
\* it as it was before the receipt can, and not without an overlap
\* (CreateMaterialRequest, ReceiveMaterialRequest; AddRepairActivity, SyncRepairToSAP).
PausedIsAwaiting ==
  [][~Stranded /\ Stranded' => overlaps > 0 /\ \E r \in Request : SaveOrder(r)]_vars

\* A request that says its parts were issued has a stock issue on record and no item
\* that is not READY, whichever of two decisions is saved last (decide, issue).
IssuedIsOnRecord ==
  \A m \in MR : mrs[m].status \in {"STOCK_ISSUED", "RECEIVED"} =>
    issues[m] > 0 /\ mrs[m].ready = mrs[m].items

\* A purchase order is received only for a requisition that SAP holds, although a
\* stale copy may have taken the number off the requisition again (receive_po).
ReceiptFollowsDocument == \A p \in PR : pos[p] > 0 => sap[p] # {}

(* Properties of executions in which nothing has overlapped. *)

\* What SAP was sent of a requisition is part of what the requisition says, through
\* failed, lost and unnumbered submissions, lines added in between, retries of the payload
\* stored last and resubmissions that adopt the retried document (submit_pr_to_sap, the
\* sweep): no document is made of lines the requisition does not have.
SAPHoldsNoMore == overlaps = 0 => \A p \in PR : \A d \in sap[p] : d \subseteq prs[p].lines

\* Every part to be bought is on exactly one requisition of its request, unless a
\* line was refused on the way, and no requisition is made for parts from stock
\* (decide, _create_purchase_lines).
BoughtIsRequisitioned ==
  overlaps = 0 => \A m \in MR :
    LET own == {p \in PR : prs[p].for = m}
        bought == IF mrs[m].status \in {"NONE", "REQUESTED"} THEN {} ELSE Bought(mrs[m])
    IN
    /\ Cardinality(own) = IF bought = {} THEN 0 ELSE 1
    /\ (\A l \in bought : ValidLine(l)) => \A p \in own : bought \subseteq prs[p].lines

================================================================================
