----------------------------- MODULE RepairRecords -----------------------------
(***************************************************************************)
(* What is written down about one repair order and how the order is        *)
(* settled: its activities and consumed parts, the cost of an internal     *)
(* repair, the review and the invoices of an external one, and the         *)
(* component history of the vehicle that the parts end in.  The order is   *)
(* in the workshop, or back from an external one; how it got there is the  *)
(* subject of MaintenanceWorkflow.  A handler loads the order, edits it in *)
(* memory (Load...) and saves the whole copy with all its lines; the       *)
(* timeline it appends to is left out.                                     *)
(***************************************************************************)
EXTENDS Naturals, FiniteSets

CONSTANTS
  Request,      \* HTTP requests being served at the same time
  RoleOf,       \* the role of the user of each
  Activity,     \* identifiers of activities
  Part,         \* identifiers of part lines
  Material,     \* material numbers and, in a review, names of parts
  Oversized,    \* those longer than a material number may be
  MaxQuantity,  \* bound: pieces on a line
  Invoice,      \* identifiers of external invoices
  MaxEnds,      \* bound: completions, and follow-up orders
  MaxOverlaps   \* bound: handlers that start while another is being served

Role ==
  {"ADMIN", "SUPERVISOR", "DISTRIBUTION", "TRANSPORT", "WAREHOUSE",
   "WORKSHOP_SUPERVISOR", "TECHNICIAN", "DRIVER", "VIEWER"}

ASSUME RecordsAssumption ==
  /\ RoleOf \in [Request -> Role]
  /\ Oversized \subseteq Material
  /\ MaxQuantity \in Nat \ {0} /\ MaxEnds \in Nat \ {0}
  /\ MaxOverlaps \in Nat

VARIABLES
  order,        \* the order's row with its lines
  received,     \* whether a material request of the order was received
  vehicle,      \* the status of the vehicle
  fault,        \* the status of the fault; OPEN stands for all but CLOSED
  handover,     \* the handover to the driver
  followUps,    \* follow-up orders created
  costs,        \* registered cost documents of the order
  invoices,     \* the status of each external invoice
  assignment,   \* the external assignment, its vehicle picked up again
  review,       \* Transportation's review of the external repair
  history,      \* rows of the vehicle's component history
  completions,  \* history: completions that recorded components
  req,          \* what every HTTP request has loaded and edited
  overlaps      \* history: handlers that started while another was being served

external == <<costs, invoices, assignment, review>>
vars == <<order, received, vehicle, fault, handover, followUps, external, history,
          completions, req, overlaps>>

Line == [material : Material, quantity : 1 .. MaxQuantity]

OrderStatus ==
  {"IN_PROGRESS", "WAITING_DRIVER_CONFIRMATION", "REJECTED_BY_DRIVER",
   "WAITING_TRANSPORT_FINAL_APPROVAL", "WAITING_EXTERNAL_ADMIN_REVIEW", "COMPLETED"}

\* type: workshop_type; an order that no workshop was chosen for has none.
OrderRow ==
  [status : OrderStatus, type : {"INTERNAL", "EXTERNAL", "NONE"},
   activities : [Activity -> {"NONE", "FIRST", "EDITED"}],
   parts : SUBSET [id : Part, line : Line]]

\* priced: it has services and a positive cost.
ReviewRow ==
  [status : {"NONE", "DRAFT", "COMPLETED"}, priced : BOOLEAN,
   parts : SUBSET Line]

NoReview == [status |-> "NONE", priced |-> FALSE, parts |-> {}]

\* by: which completion wrote it.
HistoryRow == [part : Part, line : Line, by : 1 .. MaxEnds]

New(status, type) ==
  [status |-> status, type |-> type, activities |-> [a \in Activity |-> "NONE"],
   parts |-> {}]

RequestState ==
  [op : {"idle", "lines", "complete", "accept", "reject", "finalApprove", "finalReject",
         "cost", "upload", "approveInvoice", "review", "close"},
   copy : OrderRow, review : ReviewRow, invoice : SUBSET Invoice]

Idle ==
  [op |-> "idle", copy |-> New("IN_PROGRESS", "NONE"), review |-> NoReview,
   invoice |-> {}]

TypeOK ==
  /\ order \in OrderRow
  /\ received \in BOOLEAN
  /\ vehicle \in {"UNDER_REPAIR", "WAITING_DRIVER_CONFIRMATION", "ACTIVE"}
  /\ fault \in {"OPEN", "CLOSED"}
  /\ handover \in {"NONE", "WAITING", "ACCEPTED", "REJECTED"}
  /\ followUps \in 0 .. MaxEnds
  /\ costs \in Nat
  /\ invoices \in [Invoice -> {"NONE", "UPLOADED", "APPROVED"}]
  /\ assignment \in {"NONE", "ACTIVE", "COMPLETED"}
  /\ review \in ReviewRow
  /\ history \subseteq HistoryRow
  /\ completions \in 0 .. MaxEnds
  /\ req \in [Request -> RequestState]
  /\ overlaps \in 0 .. MaxOverlaps

Init ==
  /\ \/ /\ order \in {New("IN_PROGRESS", "INTERNAL"), New("IN_PROGRESS", "NONE")}
        /\ vehicle = "UNDER_REPAIR" /\ assignment = "NONE"
     \/ /\ order = New("WAITING_EXTERNAL_ADMIN_REVIEW", "EXTERNAL")
        /\ vehicle = "ACTIVE" /\ assignment = "ACTIVE"
  /\ received \in BOOLEAN
  /\ fault = "OPEN"
  /\ handover = "NONE"
  /\ followUps = 0
  /\ costs = 0
  /\ invoices = [i \in Invoice |-> "NONE"]
  /\ review = NoReview
  /\ history = {}
  /\ completions = 0
  /\ req = [r \in Request |-> Idle]
  /\ overlaps = 0

--------------------------------------------------------------------------------
(* Who may call what (core.permissions.role_permissions). *)

IsWorkshopSupervisorOrAbove(r) ==
  RoleOf[r] \in {"ADMIN", "SUPERVISOR", "WORKSHOP_SUPERVISOR"}

IsTechnicianOrAbove(r) == IsWorkshopSupervisorOrAbove(r) \/ RoleOf[r] = "TECHNICIAN"

IsDriverOrTechnicianOrAbove(r) == IsTechnicianOrAbove(r) \/ RoleOf[r] = "DRIVER"

IsTransportSupervisorOrAbove(r) == RoleOf[r] \in {"ADMIN", "SUPERVISOR", "TRANSPORT"}

IsSupervisorOrAbove(r) == RoleOf[r] \notin {"TECHNICIAN", "DRIVER", "VIEWER"}

MayWriteActivities(r) == IsTechnicianOrAbove(r)

MayWriteParts(r) == IsWorkshopSupervisorOrAbove(r)

MayComplete(r) == IsTechnicianOrAbove(r)

MayConfirm(r) == IsDriverOrTechnicianOrAbove(r)

MaySettle(r) == IsTransportSupervisorOrAbove(r)

MayReview(r) == IsTransportSupervisorOrAbove(r)

MayUpload(r) == IsTechnicianOrAbove(r)

MayApproveInvoice(r) == IsSupervisorOrAbove(r)

--------------------------------------------------------------------------------
(* Helpers. *)

\* _assert_mutable.
Mutable(row) == row.status \in {"IN_PROGRESS", "WAITING_EXTERNAL_ADMIN_REVIEW"}

\* Mutated form: a completed order may be completed.
CanFinishAgain(row) ==
  row.status \in {"IN_PROGRESS", "WAITING_TRANSPORT_FINAL_APPROVAL",
                  "WAITING_EXTERNAL_ADMIN_REVIEW", "COMPLETED"}

\* transition_to(COMPLETED).
CanFinish(row) ==
  row.status \in {"IN_PROGRESS", "WAITING_TRANSPORT_FINAL_APPROVAL",
                  "WAITING_EXTERNAL_ADMIN_REVIEW"}

PartIds(row) == {p.id : p \in row.parts}

\* Identifiers are drawn at random.
FreshPart(p) ==
  /\ p \notin PartIds(order) /\ \A h \in history : h.part # p
  /\ \A r \in Request : p \notin PartIds(req[r].copy)

FreshActivity(a) ==
  /\ order.activities[a] = "NONE"
  /\ \A r \in Request : req[r].copy.activities[a] = "NONE"

Busy == {r \in Request : req[r].op # "idle"}

Enter(r, state) ==
  /\ req[r].op = "idle"
  /\ req' = [req EXCEPT ![r] = state]
  /\ Busy # {} => overlaps < MaxOverlaps
  /\ overlaps' = overlaps + IF Busy = {} THEN 0 ELSE 1

Serving(r, op) == req[r].op = op /\ req' = [req EXCEPT ![r] = Idle]

\* The copy is saved with a new status; completed_at is left out.
Saved(r, status) == order' = [req[r].copy EXCEPT !.status = status]

\* Mutated form: equal lines of one order are recorded once.
RecordedByLine(row) ==
  LET Chosen(l) == CHOOSE p \in row.parts : p.line = l IN
  history \cup {[part |-> Chosen(l).id, line |-> l, by |-> completions + 1] :
                  l \in {p.line : p \in row.parts}}

\* The rows there are are looked for by the text of a quantity, which is "2.000" in
\* the table and "2" on a part: none is found, and every part gets a row.
Recorded(row) ==
  history \cup {[part |-> p.id, line |-> p.line, by |-> completions + 1] : p \in row.parts}

\* RecordComponentHistoryFromRepairService.
RecordHistory(row) ==
  /\ completions < MaxEnds
  /\ history' = Recorded(row)
  /\ completions' = completions + 1

\* int() of a decimal with three places raises, and the quantity becomes one.
MergedQuantity(quantity) == 1

\* _merge_review_parts_into_order: parts of materials the order has not, each with an
\* identifier of its own.
MergedParts(row, rv, id) ==
  LET new == {x \in rv.parts : \A p \in row.parts : p.line.material # x.material} IN
  row.parts \cup
    {[id |-> id[x.material],
      line |-> [material |-> x.material, quantity |-> MergedQuantity(x.quantity)]] : x \in new}

\* _assert_review_complete.
ReviewComplete(rv) == rv.status # "NONE" /\ rv.priced

--------------------------------------------------------------------------------
(* Activities and parts. *)

\* The order in memory with a line added, changed or removed.
EditLines(r, edited) ==
  /\ Mutable(order)
  /\ Enter(r, [Idle EXCEPT !.op = "lines", !.copy = edited])
  /\ UNCHANGED <<order, received, vehicle, fault, handover, followUps, external, history,
                 completions>>

LoadAddActivity(r, a) ==
  /\ MayWriteActivities(r) /\ FreshActivity(a)
  /\ EditLines(r, [order EXCEPT !.activities[a] = "FIRST"])

LoadUpdateActivity(r, a) ==
  /\ MayWriteActivities(r) /\ order.activities[a] # "NONE"
  /\ EditLines(r, [order EXCEPT !.activities[a] = "EDITED"])

LoadDeleteActivity(r, a) ==
  /\ MayWriteActivities(r) /\ order.activities[a] # "NONE"
  /\ EditLines(r, [order EXCEPT !.activities[a] = "NONE"])

LoadAddPart(r, p, line) ==
  /\ MayWriteParts(r) /\ FreshPart(p)
  /\ EditLines(r, [order EXCEPT !.parts = @ \cup {[id |-> p, line |-> line]}])

LoadUpdatePart(r, part, line) ==
  /\ MayWriteParts(r) /\ part \in order.parts
  /\ EditLines(r, [order EXCEPT !.parts =
                     (@ \ {part}) \cup {[id |-> part.id, line |-> line]}])

LoadDeletePart(r, part) ==
  /\ MayWriteParts(r) /\ part \in order.parts
  /\ EditLines(r, [order EXCEPT !.parts = @ \ {part}])

\* The repository writes the row and replaces all activities and parts.
SaveLines(r) ==
  /\ Serving(r, "lines")
  /\ order' = req[r].copy
  /\ UNCHANGED <<received, vehicle, fault, handover, followUps, external, history,
                 completions, overlaps>>

--------------------------------------------------------------------------------
(* Technical completion and the handover to the driver. *)

\* Received parts ask for consumed ones, or for the word that there are none.
LoadComplete(r, noPartsConsumed) ==
  /\ MayComplete(r)
  /\ order.status = "IN_PROGRESS"
  /\ received /\ order.parts = {} => noPartsConsumed
  /\ Enter(r, [Idle EXCEPT !.op = "complete", !.copy = order])
  /\ UNCHANGED <<order, received, vehicle, fault, handover, followUps, external, history,
                 completions>>

CompleteRepair(r) ==
  /\ Serving(r, "complete")
  /\ Saved(r, "WAITING_DRIVER_CONFIRMATION")
  /\ vehicle' = "WAITING_DRIVER_CONFIRMATION"
  /\ handover' = IF handover = "NONE" THEN "WAITING" ELSE handover
  /\ UNCHANGED <<received, fault, followUps, external, history, completions, overlaps>>

LoadDecision(r, op) ==
  /\ MayConfirm(r)
  /\ op \in {"accept", "reject"} /\ handover = "WAITING"
  /\ Enter(r, [Idle EXCEPT !.op = op, !.copy = order])
  /\ UNCHANGED <<order, received, vehicle, fault, handover, followUps, external, history,
                 completions>>

\* An internal repair ends with the driver's word.
DriverAcceptsInternal(r) ==
  /\ Serving(r, "accept")
  /\ req[r].copy.status = "WAITING_DRIVER_CONFIRMATION" /\ req[r].copy.type = "INTERNAL"
  /\ handover' = "ACCEPTED"
  /\ Saved(r, "COMPLETED")
  /\ RecordHistory(req[r].copy)
  /\ fault' = "CLOSED"
  /\ vehicle' = "ACTIVE"
  /\ UNCHANGED <<received, followUps, external, overlaps>>

DriverAcceptsOther(r) ==
  /\ Serving(r, "accept")
  /\ req[r].copy.status = "WAITING_DRIVER_CONFIRMATION" /\ req[r].copy.type # "INTERNAL"
  /\ handover' = "ACCEPTED"
  /\ Saved(r, "WAITING_TRANSPORT_FINAL_APPROVAL")
  /\ UNCHANGED <<received, vehicle, fault, followUps, external, history, completions,
                 overlaps>>

\* Mutated form: the same order starts again.
DriverRejectsAgain(r) ==
  /\ Serving(r, "reject")
  /\ req[r].copy.status = "WAITING_DRIVER_CONFIRMATION"
  /\ handover' = "REJECTED"
  /\ Saved(r, "CREATED")
  /\ UNCHANGED <<received, vehicle, fault, followUps, external, history, completions,
                 overlaps>>

\* A follow-up order for the same fault.
DriverRejects(r) ==
  /\ Serving(r, "reject") /\ followUps < MaxEnds
  /\ req[r].copy.status = "WAITING_DRIVER_CONFIRMATION"
  /\ handover' = "REJECTED"
  /\ Saved(r, "REJECTED_BY_DRIVER")
  /\ followUps' = followUps + 1
  /\ UNCHANGED <<received, vehicle, fault, external, history, completions, overlaps>>

\* The handover is saved before the order refuses, and an answered error is no rollback.
DriverDecidesLate(r) ==
  /\ Serving(r, "accept") \/ Serving(r, "reject")
  /\ req[r].copy.status # "WAITING_DRIVER_CONFIRMATION"
  /\ handover' = IF req[r].op = "accept" THEN "ACCEPTED" ELSE "REJECTED"
  /\ UNCHANGED <<order, received, vehicle, fault, followUps, external, history,
                 completions, overlaps>>

--------------------------------------------------------------------------------
(* Transportation settles the order. *)

\* A cost document in DRAFT would stop the approval, but none is ever saved as one.
LoadFinal(r, op) ==
  /\ MaySettle(r)
  /\ op \in {"finalApprove", "finalReject"} /\ CanFinish(order)
  /\ Enter(r, [Idle EXCEPT !.op = op, !.copy = order])
  /\ UNCHANGED <<order, received, vehicle, fault, handover, followUps, external, history,
                 completions>>

FinalApprove(r) ==
  /\ Serving(r, "finalApprove")
  /\ Saved(r, "COMPLETED")
  /\ RecordHistory(req[r].copy)
  /\ fault' = "CLOSED"
  /\ vehicle' = "ACTIVE"
  /\ UNCHANGED <<received, handover, followUps, external, overlaps>>

\* The order is archived as COMPLETED without a component history.
FinalReject(r) ==
  /\ Serving(r, "finalReject") /\ followUps < MaxEnds
  /\ Saved(r, "COMPLETED")
  /\ followUps' = followUps + 1
  /\ vehicle' = "UNDER_REPAIR"
  /\ UNCHANGED <<received, fault, handover, external, history, completions, overlaps>>

\* Whatever the status of the order; a registered document is not registered again.
LoadCost(r) ==
  /\ MaySettle(r)
  /\ order.type = "INTERNAL" /\ costs = 0
  /\ Enter(r, [Idle EXCEPT !.op = "cost"])
  /\ UNCHANGED <<order, received, vehicle, fault, handover, followUps, external, history,
                 completions>>

\* Nothing in the table keeps a second document out.
RegisterCost(r) ==
  /\ Serving(r, "cost")
  /\ costs' = costs + 1
  /\ UNCHANGED <<order, received, vehicle, fault, handover, followUps, invoices,
                 assignment, review, history, completions, overlaps>>

--------------------------------------------------------------------------------
(* Invoices of an external workshop. *)

InvoiceAllowed ==
  /\ order.type = "EXTERNAL"
  /\ order.status \in {"WAITING_TRANSPORT_FINAL_APPROVAL", "WAITING_EXTERNAL_ADMIN_REVIEW"}

LoadUpload(r, i) ==
  /\ MayUpload(r)
  /\ InvoiceAllowed
  /\ invoices[i] = "NONE" /\ \A q \in Request : i \notin req[q].invoice
  /\ Enter(r, [Idle EXCEPT !.op = "upload", !.invoice = {i}])
  /\ UNCHANGED <<order, received, vehicle, fault, handover, followUps, external, history,
                 completions>>

UploadInvoice(r) ==
  /\ Serving(r, "upload")
  /\ invoices' = [i \in Invoice |-> IF i \in req[r].invoice THEN "UPLOADED" ELSE invoices[i]]
  /\ UNCHANGED <<order, received, vehicle, fault, handover, followUps, costs, assignment,
                 review, history, completions, overlaps>>

LoadApproveInvoice(r, i) ==
  /\ MayApproveInvoice(r)
  /\ InvoiceAllowed
  /\ invoices[i] = "UPLOADED"
  /\ Enter(r, [Idle EXCEPT !.op = "approveInvoice", !.copy = order, !.invoice = {i}])
  /\ UNCHANGED <<order, received, vehicle, fault, handover, followUps, external, history,
                 completions>>

\* Ends the order: no review, no assignment and no component history is looked at.
ApproveInvoice(r) ==
  /\ Serving(r, "approveInvoice")
  /\ invoices' = [i \in Invoice |-> IF i \in req[r].invoice THEN "APPROVED" ELSE invoices[i]]
  /\ Saved(r, "COMPLETED")
  /\ fault' = "CLOSED"
  /\ UNCHANGED <<received, vehicle, handover, followUps, costs, assignment, review,
                 history, completions, overlaps>>

--------------------------------------------------------------------------------
(* The review of an external repair. *)

\* Saved as a draft however often; names and quantities are the client's.
LoadReview(r, priced, parts) ==
  /\ MayReview(r)
  /\ assignment = "ACTIVE" /\ order.status = "WAITING_EXTERNAL_ADMIN_REVIEW"
  /\ Enter(r, [Idle EXCEPT !.op = "review",
                           !.review = [status |-> "DRAFT", priced |-> priced, parts |-> parts]])
  /\ UNCHANGED <<order, received, vehicle, fault, handover, followUps, external, history,
                 completions>>

SaveReview(r) ==
  /\ Serving(r, "review")
  /\ review' = req[r].review
  /\ UNCHANGED <<order, received, vehicle, fault, handover, followUps, costs, invoices,
                 assignment, history, completions, overlaps>>

\* Mutated form: the parts of the review stay in the review.
LoadCloseUnmerged(r) ==
  /\ MayReview(r)
  /\ assignment = "ACTIVE" /\ ReviewComplete(review)
  /\ order.status = "WAITING_EXTERNAL_ADMIN_REVIEW"
  /\ Enter(r, [Idle EXCEPT !.op = "close", !.review = review, !.copy = order])
  /\ UNCHANGED <<order, received, vehicle, fault, handover, followUps, external, history,
                 completions>>

\* A part whose name is no material number (PartQuantity) makes the whole close fail.
LoadClose(r) ==
  /\ MayReview(r)
  /\ assignment = "ACTIVE" /\ ReviewComplete(review)
  /\ order.status = "WAITING_EXTERNAL_ADMIN_REVIEW" /\ order.type = "EXTERNAL"
  /\ \E id \in [{x.material : x \in review.parts} -> {p \in Part : FreshPart(p)}] :
       LET merged == MergedParts(order, review, id) IN
       /\ \A x, y \in review.parts : x # y => id[x.material] # id[y.material]
       /\ \A p \in merged : p.line.material \notin Oversized
       /\ Enter(r, [Idle EXCEPT !.op = "close", !.review = review,
                                !.copy = [order EXCEPT !.parts = merged]])
  /\ UNCHANGED <<order, received, vehicle, fault, handover, followUps, external, history,
                 completions>>

CloseExternal(r) ==
  /\ Serving(r, "close")
  /\ Saved(r, "COMPLETED")
  /\ review' = [req[r].review EXCEPT !.status = "COMPLETED"]
  /\ assignment' = "COMPLETED"
  /\ RecordHistory(req[r].copy)
  /\ fault' = "CLOSED"
  /\ UNCHANGED <<received, vehicle, handover, followUps, costs, invoices,
                 overlaps>>

\* Any handler: an error before its first save.
RollBack(r) ==
  /\ req[r].op # "idle" /\ Serving(r, req[r].op)
  /\ UNCHANGED <<order, received, vehicle, fault, handover, followUps, external, history,
                 completions, overlaps>>

--------------------------------------------------------------------------------

\* What clients may put on a line and into a review; a review has at most one part.
ClientLine == {l \in Line : l.material \notin Oversized}

Replaced == {{}} \cup {{x} : x \in Line}

LineStep(r) ==
  \/ \E a \in Activity :
       LoadAddActivity(r, a) \/ LoadUpdateActivity(r, a) \/ LoadDeleteActivity(r, a)
  \/ \E p \in Part, l \in ClientLine : LoadAddPart(r, p, l)
  \/ \E part \in order.parts :
       \/ \E l \in ClientLine : LoadUpdatePart(r, part, l)
       \/ LoadDeletePart(r, part)
  \/ SaveLines(r)

EndStep(r) ==
  \/ \E noParts \in BOOLEAN : LoadComplete(r, noParts)
  \/ CompleteRepair(r)
  \/ \E op \in {"accept", "reject"} : LoadDecision(r, op)
  \/ DriverAcceptsInternal(r) \/ DriverAcceptsOther(r) \/ DriverRejects(r)
  \/ DriverDecidesLate(r)
  \/ \E op \in {"finalApprove", "finalReject"} : LoadFinal(r, op)
  \/ FinalApprove(r) \/ FinalReject(r)

MoneyStep(r) ==
  \/ LoadCost(r) \/ RegisterCost(r)
  \/ \E i \in Invoice : LoadUpload(r, i) \/ LoadApproveInvoice(r, i)
  \/ UploadInvoice(r) \/ ApproveInvoice(r)
  \/ \E priced \in BOOLEAN, parts \in Replaced : LoadReview(r, priced, parts)
  \/ SaveReview(r) \/ LoadClose(r) \/ CloseExternal(r)

Next == \E r \in Request : LineStep(r) \/ EndStep(r) \/ MoneyStep(r) \/ RollBack(r)

Spec == Init /\ [][Next]_vars

--------------------------------------------------------------------------------
(* Properties. *)

\* Copies of an order that are saved over its end bring it back, and it is ended and
\* its components recorded again; but never more often than handlers overlapped:
\* nothing else takes an order out of COMPLETED, and no two ends need only one
\* (transition_to, RecordComponentHistoryFromRepairService).
RecordedAgainByOverlap ==
  /\ completions <= 1 + overlaps
  /\ \A h \in history : h.by <= 1 + overlaps

(* Properties of executions in which nothing overlapped; the copies that handlers
   save over each other break them otherwise. *)

\* A component history, once there, has one row of each part of the order and no
\* others, and the order is complete: equal parts are told apart, and no line is
\* written after the end (add_part, update_part, delete_part, _from_part).
HistoryIsOfTheOrder ==
  overlaps = 0 /\ history # {} =>
    /\ order.status = "COMPLETED"
    /\ {<<h.part, h.line>> : h \in history} = {<<p.id, p.line>> : p \in order.parts}
    /\ \A g, h \in history : g.part = h.part => g = h

\* A closed external assignment leaves nothing behind: its order is complete with
\* every material of the review, the review is final, the fault closed, all of it
\* in the component history (CloseExternalRepairService).
ClosedIsWhole ==
  overlaps = 0 /\ assignment = "COMPLETED" =>
    /\ order.status = "COMPLETED" /\ review.status = "COMPLETED" /\ fault = "CLOSED"
    /\ {x.material : x \in review.parts} \subseteq {p.line.material : p \in order.parts}
    /\ {p.id : p \in order.parts} \subseteq {h.part : h \in history}

================================================================================
