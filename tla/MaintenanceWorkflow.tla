-------------------------- MODULE MaintenanceWorkflow --------------------------
(***************************************************************************)
(* The corrective-maintenance workflow of one vehicle: faults, repair      *)
(* orders, the handover to the driver, the external workshop and the       *)
(* vehicle's own status, with every HTTP handler that changes them.        *)
(*                                                                         *)
(* A handler runs inside one database transaction (ATOMIC_REQUESTS, READ   *)
(* COMMITTED).  It loads the aggregate it was asked for and checks it,     *)
(* then saves: save() writes every field of the copy it loaded, whatever   *)
(* was committed since.  So a request has two steps here: Load, up to its  *)
(* first save (which may lie beyond a slow SAP call), and the rest, which  *)
(* reads what is committed then.  An error the exception handler maps is   *)
(* answered without rollback, so a handler that is not wrapped in          *)
(* transaction.atomic commits what it has saved before the error.          *)
(***************************************************************************)
EXTENDS Naturals

CONSTANTS
  Request,         \* requests being served at the same time
  MaxFaults,       \* bound: faults ever reported for the vehicle
  MaxOrders,       \* bound: repair orders ever created
  MaxAssignments,  \* bound: external-workshop assignments ever made
  MaxMaterials,    \* bound: material requests ever made
  Scope            \* bound: the optional operations of this instance

Fault == 1 .. MaxFaults
Order == 1 .. MaxOrders
Assignment == 1 .. MaxAssignments
Material == 1 .. MaxMaterials

ASSUME WorkflowAssumption ==
  /\ MaxFaults \in Nat /\ MaxOrders \in Nat
  /\ MaxAssignments \in Nat /\ MaxMaterials \in Nat
  /\ Scope \subseteq {"manual", "exit", "decommission", "sync", "close",
                      "internal", "external", "technician", "lines"}

VARIABLES
  vehicle,      \* status of the vehicle
  faults,       \* status of every fault, NONE while it does not exist
  orders,       \* the repair_order rows
  handovers,    \* status of the handover of every order (order_id is unique)
  assignments,  \* the external_workshop_assignment rows with their children
  materials,    \* the material requests of the orders
  req           \* what every request has loaded

vars == <<vehicle, faults, orders, handovers, assignments, materials, req>>

VehicleStatus ==
  {"ACTIVE", "INACTIVE", "UNDER_REPAIR", "UNDER_EXTERNAL_REPAIR", "SUSPENDED",
   "WAITING_DRIVER_CONFIRMATION", "EXITED_CENTER", "OUT_OF_SERVICE", "DECOMMISSIONED"}

FaultStatus == {"NONE", "OPEN", "AWAITING_TRANSPORT", "ASSIGNED", "IN_REPAIR", "CLOSED"}

Terminal ==
  {"COMPLETED", "ACCEPTED_BY_DRIVER", "REJECTED_BY_DRIVER",
   "REJECTED_BY_TRANSPORT", "NO_REPAIR_NEEDED", "CANCELLED"}

OpenOrder ==
  {"CREATED", "APPROVED", "WORKSHOP_ASSIGNED", "ASSIGNED", "IN_PROGRESS", "WAITING_PARTS",
   "WAITING_WORKSHOP_CONFIRMATION", "WAITING_EXTERNAL_REFERRAL_APPROVAL",
   "WAITING_EXTERNAL_DELIVERY", "EXTERNAL_REPAIR_IN_PROGRESS", "WAITING_EXTERNAL_PICKUP",
   "WAITING_EXTERNAL_ADMIN_REVIEW", "WAITING_DRIVER_CONFIRMATION",
   "WAITING_TRANSPORT_FINAL_APPROVAL"}

OrderRow ==
  [status : OpenOrder \cup Terminal \cup {"NONE"},
   type : {"NONE", "INTERNAL", "EXTERNAL"},  \* workshop_type
   fault : Fault \cup {0},
   sap : BOOLEAN]                            \* sap_order_number is set

NoOrder == [status |-> "NONE", type |-> "NONE", fault |-> 0, sap |-> FALSE]

\* An assignment with its delivery, pickup and review, which are never deleted.
AssignmentRow ==
  [order : Order \cup {0},
   status : {"NONE", "ACTIVE", "CANCELLED", "COMPLETED"},
   stage : {"assigned", "delivered", "picked", "reviewed"}]

NoAssignment == [order |-> 0, status |-> "NONE", stage |-> "assigned"]

\* A material request is open until its parts are received.
MaterialRow == [order : Order \cup {0}, open : BOOLEAN]

Op ==
  {"idle", "report", "assignFault", "closeFault", "usable", "unusable", "approve",
   "rejectByTransport", "internal", "referral", "technician", "start", "requestParts",
   "receiveParts", "complete", "cancel", "sync", "repairable", "noRepair",
   "driverAccept", "driverReject", "transportApprove", "transportReject",
   "assignExternal", "deliver", "pickup", "review", "closeExternal", "cancelExternal",
   "invoice", "lines", "manual", "exit"}

\* A request: the operation, the row it was asked for, the order it has loaded
\* and the vehicle status it has loaded (or, for "manual", its target).
RequestState ==
  [op : Op, id : Nat, row : OrderRow, seen : VehicleStatus \cup {"none"},
   to : VehicleStatus \cup {"none"}]

Idle == [op |-> "idle", id |-> 0, row |-> NoOrder, seen |-> "none", to |-> "none"]

TypeOK ==
  /\ vehicle \in VehicleStatus
  /\ faults \in [Fault -> FaultStatus]
  /\ orders \in [Order -> OrderRow]
  /\ handovers \in [Order -> {"NONE", "WAITING", "ACCEPTED", "REJECTED"}]
  /\ assignments \in [Assignment -> AssignmentRow]
  /\ materials \in [Material -> MaterialRow]
  /\ req \in [Request -> RequestState]

Init ==
  /\ vehicle = "ACTIVE"
  /\ faults = [f \in Fault |-> "NONE"]
  /\ orders = [o \in Order |-> NoOrder]
  /\ handovers = [o \in Order |-> "NONE"]
  /\ assignments = [a \in Assignment |-> NoAssignment]
  /\ materials = [m \in Material |-> [order |-> 0, open |-> FALSE]]
  /\ req = [r \in Request |-> Idle]

--------------------------------------------------------------------------------
(* The entities: legal transitions and the guards of their methods. *)

\* Vehicle._ALLOWED_TRANSITIONS.
VehicleMoves(s) ==
  CASE s = "DECOMMISSIONED" -> {}
    [] s = "INACTIVE" -> {"ACTIVE", "UNDER_REPAIR", "UNDER_EXTERNAL_REPAIR", "DECOMMISSIONED"}
    [] s = "ACTIVE" -> VehicleStatus \ {"ACTIVE"}
    [] OTHER -> VehicleStatus \ {s, "EXITED_CENTER"}

\* RepairOrder._ALLOWED_TRANSITIONS, without its entries for terminal statuses
\* and for WAITING_EXTERNAL_PICKUP, which confirm_external_pickup passes through.
OrderMoves ==
  [NONE |-> {},
   CREATED |-> {"APPROVED", "ASSIGNED", "CANCELLED"},
   APPROVED |-> {"WORKSHOP_ASSIGNED", "WAITING_EXTERNAL_REFERRAL_APPROVAL",
                 "WAITING_EXTERNAL_DELIVERY", "CANCELLED"},
   WAITING_EXTERNAL_REFERRAL_APPROVAL |->
     {"WAITING_DRIVER_CONFIRMATION", "WAITING_EXTERNAL_DELIVERY", "CANCELLED"},
   WAITING_EXTERNAL_DELIVERY |->
     {"EXTERNAL_REPAIR_IN_PROGRESS", "WAITING_EXTERNAL_DELIVERY", "CANCELLED"},
   EXTERNAL_REPAIR_IN_PROGRESS |-> {"WAITING_EXTERNAL_PICKUP", "CANCELLED"},
   WAITING_EXTERNAL_PICKUP |-> {"WAITING_EXTERNAL_ADMIN_REVIEW", "CANCELLED"},
   WAITING_EXTERNAL_ADMIN_REVIEW |-> {"COMPLETED", "CANCELLED"},
   WORKSHOP_ASSIGNED |->
     {"ASSIGNED", "WAITING_WORKSHOP_CONFIRMATION", "IN_PROGRESS", "NO_REPAIR_NEEDED",
      "WAITING_DRIVER_CONFIRMATION", "CANCELLED"},
   WAITING_WORKSHOP_CONFIRMATION |-> {"IN_PROGRESS", "NO_REPAIR_NEEDED", "CANCELLED"},
   WAITING_PARTS |-> {"IN_PROGRESS", "CANCELLED"},
   ASSIGNED |-> {"IN_PROGRESS", "CREATED", "CANCELLED"},
   IN_PROGRESS |->
     {"COMPLETED", "WAITING_PARTS", "WAITING_DRIVER_CONFIRMATION", "CANCELLED"},
   WAITING_DRIVER_CONFIRMATION |->
     {"WAITING_TRANSPORT_FINAL_APPROVAL", "ACCEPTED_BY_DRIVER", "REJECTED_BY_DRIVER"},
   WAITING_TRANSPORT_FINAL_APPROVAL |-> {"COMPLETED", "CANCELLED"}]

\* Mutated forms of the guards below.
CanCancelUnguarded(row) == row.status \notin Terminal \cup {"NONE"}
NoOpenFlowFaultOnly == \A f \in Fault : faults[f] \in {"NONE", "CLOSED"}

CanMove(row, status) == row.status \in DOMAIN OrderMoves /\ status \in OrderMoves[row.status]

CanApprove(row) == CanMove(row, "APPROVED")

CanRejectByTransport(row) == row.status = "CREATED"

CanAssignTechnician(row) == CanMove(row, "ASSIGNED")

CanAssignWorkshop(row) == row.status = "APPROVED" /\ row.type = "NONE"

CanAssignExternal(row) == row.status \in {"APPROVED", "WAITING_EXTERNAL_DELIVERY"}

InWorkshopQueue(row) == row.status \in {"WORKSHOP_ASSIGNED", "WAITING_WORKSHOP_CONFIRMATION"}

CanStart(row) == row.type # "EXTERNAL" /\ (InWorkshopQueue(row) \/ row.status = "ASSIGNED")

CanDecide(row) == row.type = "INTERNAL" /\ InWorkshopQueue(row)

CanComplete(row) ==
  /\ CanMove(row, "WAITING_DRIVER_CONFIRMATION")
  /\ row.status = "WORKSHOP_ASSIGNED" => row.type = "EXTERNAL"

CanFinish(row) == CanMove(row, "COMPLETED")

CanCancel(row) == CanMove(row, "CANCELLED")

\* assert_vehicle_has_no_open_flow: two reads, nothing locked.
NoOpenFlow ==
  /\ \A f \in Fault : faults[f] \in {"NONE", "CLOSED"}
  /\ \A o \in Order : orders[o].status \notin OpenOrder

--------------------------------------------------------------------------------
(* Requests. *)

Rows == <<vehicle, faults, orders, handovers, assignments, materials>>

\* The handler loads what it was asked for and its checks pass.
Load(r, op, id, row, seen, to) ==
  /\ req[r] = Idle
  /\ req' = [req EXCEPT ![r] = [op |-> op, id |-> id, row |-> row, seen |-> seen, to |-> to]]
  /\ UNCHANGED Rows

LoadOrder(r, op, o) == Load(r, op, o, orders[o], "none", "none")

LoadRow(r, op, id) == Load(r, op, id, NoOrder, "none", "none")

\* The handler saves and answers.
Serving(r, op) == req[r].op = op /\ req' = [req EXCEPT ![r] = Idle]

\* The order the request works on, saved with a new status.
Saved(r, status) == [orders EXCEPT ![req[r].id] = [req[r].row EXCEPT !.status = status]]

\* o, f, m, a is the next row to be inserted.
NextOrder(o) == orders[o].status = "NONE" /\ \A p \in 1 .. o - 1 : orders[p].status # "NONE"
NextFault(f) == faults[f] = "NONE" /\ \A g \in 1 .. f - 1 : faults[g] # "NONE"
NextMaterial(m) == materials[m].order = 0 /\ \A n \in 1 .. m - 1 : materials[n].order # 0
NextAssignment(a) ==
  assignments[a].order = 0 /\ \A b \in 1 .. a - 1 : assignments[b].order # 0

Created(f) == [NoOrder EXCEPT !.status = "CREATED", !.fault = f]

\* A handler in transaction.atomic rolls back when the vehicle cannot move.
VehicleAllows(s) == vehicle = s \/ s \in VehicleMoves(vehicle)

\* Any other handler keeps what it has saved and leaves the vehicle alone.
VehicleTo(s) == IF s \in VehicleMoves(vehicle) THEN s ELSE vehicle

\* Mutated form: a closed fault is given the status of a finished order.
FaultClosedAsOrder(f) == [faults EXCEPT ![f] = "COMPLETED"]

\* _close_open_fault, which has a way to CLOSED from every open status.
FaultClosed(f) == [faults EXCEPT ![f] = "CLOSED"]

\* An unmapped error, a failed SAP call or the death of the server process
\* before the request has saved anything that stays.
RollBack(r) ==
  /\ req[r].op # "idle"
  /\ req' = [req EXCEPT ![r] = Idle]
  /\ UNCHANGED Rows

--------------------------------------------------------------------------------
(* Mutated forms of the actions below. *)

\* The receipt does not resume the order.
ReceivePartsNoResume(r) ==
  /\ Serving(r, "receiveParts")
  /\ materials' = [materials EXCEPT ![req[r].id].open = FALSE]
  /\ UNCHANGED <<vehicle, faults, orders, handovers, assignments>>

\* The order waits for the driver before a handover is opened.
CompleteWithoutHandover(r) ==
  /\ Serving(r, "complete")
  /\ vehicle = "INACTIVE" \/ VehicleAllows("WAITING_DRIVER_CONFIRMATION")
  /\ orders' = Saved(r, "WAITING_DRIVER_CONFIRMATION")
  /\ vehicle' = "WAITING_DRIVER_CONFIRMATION"
  /\ UNCHANGED <<faults, handovers, assignments, materials>>

\* A new workshop is assigned without cancelling the old assignment.
AssignExternalKeepsOld(r) ==
  LET o == req[r].id IN
  /\ Serving(r, "assignExternal")
  /\ orders' = [orders EXCEPT ![o] = [req[r].row EXCEPT !.type = "EXTERNAL",
                                        !.status = "WAITING_EXTERNAL_DELIVERY"]]
  /\ \E a \in Assignment :
       /\ NextAssignment(a)
       /\ assignments' = [assignments EXCEPT ![a] =
                           [order |-> o, status |-> "ACTIVE", stage |-> "assigned"]]
  /\ UNCHANGED <<vehicle, faults, handovers, materials>>

--------------------------------------------------------------------------------
(* Faults. *)

LoadReport(r) == NoOpenFlow /\ LoadRow(r, "report", 0)

ReportFault(r) ==
  /\ Serving(r, "report")
  /\ \E f \in Fault : NextFault(f) /\ faults' = [faults EXCEPT ![f] = "OPEN"]
  /\ UNCHANGED <<vehicle, orders, handovers, assignments, materials>>

LoadAssignFault(r, f) ==
  /\ "technician" \in Scope
  /\ faults[f] = "AWAITING_TRANSPORT"
  /\ LoadRow(r, "assignFault", f)

AssignFault(r) ==
  /\ Serving(r, "assignFault")
  /\ faults' = [faults EXCEPT ![req[r].id] = "ASSIGNED"]
  /\ UNCHANGED <<vehicle, orders, handovers, assignments, materials>>

Closable == {"OPEN", "AWAITING_TRANSPORT", "IN_REPAIR"}

LoadCloseFault(r, f, op) ==
  /\ "close" \in Scope
  /\ op \in {"closeFault", "usable"}
  /\ faults[f] \in Closable
  /\ LoadRow(r, op, f)

\* What CloseFaultService does to the orders of the fault it closes.
OrdersOfClosed(f, rows) ==
  [o \in Order |->
     IF rows[o].fault # f THEN rows[o]
     ELSE IF rows[o].status = "WAITING_TRANSPORT_FINAL_APPROVAL"
       THEN [rows[o] EXCEPT !.status = "COMPLETED"]
     ELSE IF rows[o].status \in {"CREATED", "APPROVED"}
       THEN [rows[o] EXCEPT !.status = "CANCELLED"]
     ELSE rows[o]]

CloseFault(r) ==
  /\ Serving(r, "closeFault")
  /\ faults' = FaultClosed(req[r].id)
  /\ orders' = OrdersOfClosed(req[r].id, orders)
  /\ UNCHANGED <<vehicle, handovers, assignments, materials>>

\* Distribution: the vehicle is usable; the close is kept even if it cannot move.
MarkUsable(r) ==
  /\ Serving(r, "usable")
  /\ faults' = FaultClosed(req[r].id)
  /\ orders' = OrdersOfClosed(req[r].id, orders)
  /\ vehicle' = VehicleTo("ACTIVE")
  /\ UNCHANGED <<handovers, assignments, materials>>

LoadUnusable(r, f) ==
  /\ faults[f] = "OPEN"
  /\ VehicleAllows("OUT_OF_SERVICE")
  /\ Load(r, "unusable", f, NoOrder, vehicle, "none")

\* NO_REPAIR_NEEDED and ACCEPTED_BY_DRIVER count as an existing order.
HasOrderInQueue(f) ==
  \E o \in Order : orders[o].fault = f /\ orders[o].status \notin
    {"COMPLETED", "CANCELLED", "REJECTED_BY_TRANSPORT", "REJECTED_BY_DRIVER"}

MarkUnusable(r) ==
  LET f == req[r].id IN
  /\ Serving(r, "unusable")
  /\ vehicle' = IF req[r].seen = "OUT_OF_SERVICE" THEN vehicle ELSE "OUT_OF_SERVICE"
  /\ faults' = [faults EXCEPT ![f] = "AWAITING_TRANSPORT"]
  /\ \/ HasOrderInQueue(f) /\ UNCHANGED orders
     \/ /\ ~HasOrderInQueue(f)
        /\ \E o \in Order : NextOrder(o) /\ orders' = [orders EXCEPT ![o] = Created(f)]
  /\ UNCHANGED <<handovers, assignments, materials>>

--------------------------------------------------------------------------------
(* Repair orders: the transport desk and the workshop. *)

LoadApprove(r, o) == CanApprove(orders[o]) /\ LoadOrder(r, "approve", o)

\* A handler that saves the order and nothing else.
OrderOnly(r, op, row) ==
  /\ Serving(r, op)
  /\ orders' = [orders EXCEPT ![req[r].id] = row]
  /\ UNCHANGED <<vehicle, faults, handovers, assignments, materials>>

Approve(r) == OrderOnly(r, "approve", [req[r].row EXCEPT !.status = "APPROVED"])

LoadRejectByTransport(r, o) ==
  CanRejectByTransport(orders[o]) /\ LoadOrder(r, "rejectByTransport", o)

RejectByTransport(r) ==
  /\ Serving(r, "rejectByTransport")
  /\ orders' = Saved(r, "REJECTED_BY_TRANSPORT")
  /\ faults' = [faults EXCEPT ![req[r].row.fault] =
                  IF @ = "AWAITING_TRANSPORT" THEN "OPEN" ELSE @]
  /\ vehicle' = VehicleTo("ACTIVE")
  /\ UNCHANGED <<handovers, assignments, materials>>

LoadAssignWorkshop(r, o, op) ==
  /\ \/ op = "internal" /\ "internal" \in Scope
     \/ op = "referral" /\ "external" \in Scope
  /\ CanAssignWorkshop(orders[o])
  /\ LoadOrder(r, op, o)

AssignInternal(r) ==
  OrderOnly(r, "internal",
            [req[r].row EXCEPT !.status = "WORKSHOP_ASSIGNED", !.type = "INTERNAL"])

\* The order waits for a referral approval no endpoint gives.
AssignReferral(r) ==
  OrderOnly(r, "referral", [req[r].row EXCEPT !.type = "EXTERNAL",
                              !.status = "WAITING_EXTERNAL_REFERRAL_APPROVAL"])

LoadAssignTechnician(r, o) ==
  /\ "technician" \in Scope
  /\ CanAssignTechnician(orders[o])
  /\ LoadOrder(r, "technician", o)

AssignTechnician(r) == OrderOnly(r, "technician", [req[r].row EXCEPT !.status = "ASSIGNED"])

LoadStart(r, o) == CanStart(orders[o]) /\ LoadOrder(r, "start", o)

StartRepair(r) ==
  /\ Serving(r, "start")
  /\ VehicleAllows("UNDER_REPAIR")
  /\ orders' = Saved(r, "IN_PROGRESS")
  /\ vehicle' = "UNDER_REPAIR"
  /\ UNCHANGED <<faults, handovers, assignments, materials>>

LoadCancel(r, o) == CanCancel(orders[o]) /\ LoadOrder(r, "cancel", o)

\* An active external assignment of the order is cancelled with it, delivered or not.
CancelRepairOrder(r) ==
  /\ Serving(r, "cancel")
  /\ orders' = Saved(r, "CANCELLED")
  /\ \/ /\ \E a \in Assignment :
             /\ assignments[a].order = req[r].id
             /\ assignments[a].status = "ACTIVE"
             /\ \A b \in Assignment : assignments[b].order = req[r].id
                                      /\ assignments[b].status = "ACTIVE" => b <= a
             /\ assignments' = [assignments EXCEPT ![a].status = "CANCELLED"]
     \/ /\ \A a \in Assignment :
             assignments[a].order = req[r].id => assignments[a].status # "ACTIVE"
        /\ UNCHANGED assignments
  /\ UNCHANGED <<vehicle, faults, handovers, materials>>

\* sync-sap: the order is loaded, SAP creates the PM order, the copy is saved.
LoadSync(r, o) ==
  /\ "sync" \in Scope
  /\ orders[o].status # "NONE"
  /\ ~orders[o].sap
  /\ LoadOrder(r, "sync", o)

SyncRepairToSAP(r) == OrderOnly(r, "sync", [req[r].row EXCEPT !.sap = TRUE])

Mutable ==
  {"CREATED", "APPROVED", "WORKSHOP_ASSIGNED", "WAITING_EXTERNAL_REFERRAL_APPROVAL",
   "WAITING_EXTERNAL_DELIVERY", "EXTERNAL_REPAIR_IN_PROGRESS", "WAITING_EXTERNAL_PICKUP",
   "WAITING_EXTERNAL_ADMIN_REVIEW", "WAITING_WORKSHOP_CONFIRMATION", "WAITING_PARTS",
   "ASSIGNED", "IN_PROGRESS"}

\* An activity or a part of the order is added, changed or deleted.
LoadLines(r, o) ==
  "lines" \in Scope /\ orders[o].status \in Mutable /\ LoadOrder(r, "lines", o)

\* The order is saved with its lines, and with the status it was loaded with.
EditLines(r) == OrderOnly(r, "lines", req[r].row)

\* technical-decision, repairable: refused when the order is already in SAP.
LoadRepairable(r, o) ==
  CanDecide(orders[o]) /\ ~orders[o].sap /\ LoadOrder(r, "repairable", o)

\* A vehicle that cannot move ends the handler before the fault is touched.
MarkRepairable(r) ==
  LET f == req[r].row.fault IN
  /\ Serving(r, "repairable")
  /\ orders' = [orders EXCEPT ![req[r].id] =
                  [req[r].row EXCEPT !.status = "IN_PROGRESS", !.sap = TRUE]]
  /\ vehicle' = VehicleTo("UNDER_REPAIR")
  /\ faults' = [faults EXCEPT ![f] =
                  IF VehicleAllows("UNDER_REPAIR") /\ @ \in {"AWAITING_TRANSPORT", "ASSIGNED"}
                    THEN "IN_REPAIR" ELSE @]
  /\ UNCHANGED <<handovers, assignments, materials>>

LoadNoRepair(r, o) == CanDecide(orders[o]) /\ LoadOrder(r, "noRepair", o)

\* technical-decision, no repair needed: close the fault, release the vehicle and
\* record an accepted handover, unless the vehicle cannot move.
NoRepairNeeded(r) ==
  LET o == req[r].id  f == req[r].row.fault IN
  /\ Serving(r, "noRepair")
  /\ faults[f] \in Closable
  /\ faults' = FaultClosed(f)
  /\ orders' = OrdersOfClosed(f, Saved(r, "NO_REPAIR_NEEDED"))
  /\ vehicle' = VehicleTo("ACTIVE")
  /\ handovers' = [handovers EXCEPT ![o] =
                     IF VehicleAllows("ACTIVE") /\ @ = "NONE" THEN "ACCEPTED" ELSE @]
  /\ UNCHANGED <<assignments, materials>>

\* CloseFaultService raises after the order was saved: the order stays terminal,
\* the vehicle is not released.
NoRepairUnreleased(r) ==
  /\ OrderOnly(r, "noRepair", [req[r].row EXCEPT !.status = "NO_REPAIR_NEEDED"])
  /\ faults[req[r].row.fault] \notin Closable

--------------------------------------------------------------------------------
(* Parts. *)

LoadRequestParts(r, o) ==
  orders[o].status = "IN_PROGRESS" /\ LoadOrder(r, "requestParts", o)

RequestParts(r) ==
  /\ Serving(r, "requestParts")
  /\ \E m \in Material :
       /\ NextMaterial(m)
       /\ materials' = [materials EXCEPT ![m] = [order |-> req[r].id, open |-> TRUE]]
  /\ orders' = Saved(r, "WAITING_PARTS")
  /\ UNCHANGED <<vehicle, faults, handovers, assignments>>

LoadReceiveParts(r, m) == materials[m].open /\ LoadRow(r, "receiveParts", m)

\* The order is read again after the material request was saved.
ReceiveParts(r) ==
  LET m == req[r].id IN
  /\ Serving(r, "receiveParts")
  /\ materials' = [materials EXCEPT ![m].open = FALSE]
  /\ orders' = [orders EXCEPT ![materials[m].order].status =
                  IF @ = "WAITING_PARTS" THEN "IN_PROGRESS" ELSE @]
  /\ UNCHANGED <<vehicle, faults, handovers, assignments>>

--------------------------------------------------------------------------------
(* Technical completion and handover. *)

LoadComplete(r, o) ==
  /\ CanComplete(orders[o])
  /\ \A m \in Material : materials[m].order = o => ~materials[m].open
  /\ LoadOrder(r, "complete", o)

\* An INACTIVE vehicle is moved to UNDER_REPAIR first.
CompleteRepairOrder(r) ==
  /\ Serving(r, "complete")
  /\ vehicle = "INACTIVE" \/ VehicleAllows("WAITING_DRIVER_CONFIRMATION")
  /\ orders' = Saved(r, "WAITING_DRIVER_CONFIRMATION")
  /\ vehicle' = "WAITING_DRIVER_CONFIRMATION"
  /\ handovers' = [handovers EXCEPT ![req[r].id] = IF @ = "NONE" THEN "WAITING" ELSE @]
  /\ UNCHANGED <<faults, assignments, materials>>

LoadDriverDecision(r, o, op) ==
  /\ op \in {"driverAccept", "driverReject"}
  /\ handovers[o] = "WAITING"
  /\ LoadOrder(r, op, o)

Decided(r) ==
  [handovers EXCEPT ![req[r].id] = IF req[r].op = "driverAccept" THEN "ACCEPTED" ELSE "REJECTED"]

\* An internal repair is complete; its fault is closed and the vehicle released.
DriverAcceptInternal(r) ==
  /\ Serving(r, "driverAccept")
  /\ req[r].row.type = "INTERNAL" /\ req[r].row.status = "WAITING_DRIVER_CONFIRMATION"
  /\ handovers' = Decided(r)
  /\ orders' = Saved(r, "COMPLETED")
  /\ faults' = FaultClosed(req[r].row.fault)
  /\ vehicle' = VehicleTo("ACTIVE")
  /\ UNCHANGED <<assignments, materials>>

DriverAcceptOther(r) ==
  /\ Serving(r, "driverAccept")
  /\ req[r].row.type # "INTERNAL" /\ req[r].row.status = "WAITING_DRIVER_CONFIRMATION"
  /\ handovers' = Decided(r)
  /\ orders' = Saved(r, "WAITING_TRANSPORT_FINAL_APPROVAL")
  /\ UNCHANGED <<vehicle, faults, assignments, materials>>

\* A follow-up order is opened for the same fault, whatever became of the fault.
DriverReject(r) ==
  /\ Serving(r, "driverReject")
  /\ req[r].row.status = "WAITING_DRIVER_CONFIRMATION"
  /\ handovers' = Decided(r)
  /\ \E o \in Order :
       /\ NextOrder(o)
       /\ orders' = [Saved(r, "REJECTED_BY_DRIVER") EXCEPT ![o] = Created(req[r].row.fault)]
  /\ UNCHANGED <<vehicle, faults, assignments, materials>>

\* The handover is saved before the order refuses the decision.
DriverDecisionLate(r) ==
  /\ Serving(r, "driverAccept") \/ Serving(r, "driverReject")
  /\ req[r].row.status # "WAITING_DRIVER_CONFIRMATION"
  /\ handovers' = Decided(r)
  /\ UNCHANGED <<vehicle, faults, orders, assignments, materials>>

LoadTransportDecision(r, o, op) ==
  /\ op \in {"transportApprove", "transportReject"}
  /\ CanFinish(orders[o])
  /\ LoadOrder(r, op, o)

TransportApprove(r) ==
  /\ Serving(r, "transportApprove")
  /\ VehicleAllows("ACTIVE")
  /\ orders' = Saved(r, "COMPLETED")
  /\ faults' = FaultClosed(req[r].row.fault)
  /\ vehicle' = "ACTIVE"
  /\ UNCHANGED <<handovers, assignments, materials>>

TransportReject(r) ==
  /\ Serving(r, "transportReject")
  /\ VehicleAllows("UNDER_REPAIR")
  /\ \E o \in Order :
       /\ NextOrder(o)
       /\ orders' = [Saved(r, "COMPLETED") EXCEPT ![o] = Created(req[r].row.fault)]
  /\ vehicle' = "UNDER_REPAIR"
  /\ UNCHANGED <<faults, handovers, assignments, materials>>

\* The workshop's invoice, which can be uploaded and approved in these statuses only.
LoadInvoice(r, o) ==
  /\ "external" \in Scope
  /\ orders[o].type = "EXTERNAL"
  /\ orders[o].status \in {"WAITING_TRANSPORT_FINAL_APPROVAL", "WAITING_EXTERNAL_ADMIN_REVIEW"}
  /\ LoadOrder(r, "invoice", o)

\* The order ends here too, its assignment and the vehicle as they are.
ApproveExternalInvoice(r) ==
  /\ Serving(r, "invoice")
  /\ orders' = Saved(r, "COMPLETED")
  /\ faults' = FaultClosed(req[r].row.fault)
  /\ UNCHANGED <<vehicle, handovers, assignments, materials>>

--------------------------------------------------------------------------------
(* The external workshop; every handler is in transaction.atomic. *)

ActiveAssignments(o) ==
  {a \in Assignment : assignments[a].order = o /\ assignments[a].status = "ACTIVE"}

\* An undelivered active assignment is replaced, a delivered one is read-only.
LoadAssignExternal(r, o) ==
  /\ "external" \in Scope
  /\ CanAssignExternal(orders[o])
  /\ \A a \in ActiveAssignments(o) : assignments[a].stage = "assigned"
  /\ LoadOrder(r, "assignExternal", o)

AssignExternal(r) ==
  LET o == req[r].id IN
  /\ Serving(r, "assignExternal")
  /\ orders' = [orders EXCEPT ![o] = [req[r].row EXCEPT !.type = "EXTERNAL",
                                        !.status = "WAITING_EXTERNAL_DELIVERY"]]
  /\ \E a \in Assignment :
       /\ NextAssignment(a)
       /\ assignments' =
            [b \in Assignment |->
               IF b = a THEN [order |-> o, status |-> "ACTIVE", stage |-> "assigned"]
               ELSE IF b \in ActiveAssignments(o)
                 THEN [assignments[b] EXCEPT !.status = "CANCELLED"]
               ELSE assignments[b]]
  /\ UNCHANGED <<vehicle, faults, handovers, materials>>

\* A handler is asked for an assignment and loads it with its order.
LoadAssignment(r, op, a, stage, status) ==
  LET o == assignments[a].order IN
  /\ assignments[a].status = "ACTIVE"
  /\ assignments[a].stage = stage
  /\ orders[o].status = status
  /\ Load(r, op, a, orders[o], "none", "none")

\* The child row is inserted; it is unique per assignment.
Staged(r, from, to) ==
  /\ assignments[req[r].id].stage = from
  /\ assignments' = [assignments EXCEPT ![req[r].id].stage = to]

SavedOf(r, status) ==
  [orders EXCEPT ![assignments[req[r].id].order] = [req[r].row EXCEPT !.status = status]]

LoadDelivery(r, a) ==
  LoadAssignment(r, "deliver", a, "assigned", "WAITING_EXTERNAL_DELIVERY")

ConfirmDelivery(r) ==
  /\ Serving(r, "deliver")
  /\ VehicleAllows("UNDER_EXTERNAL_REPAIR")
  /\ Staged(r, "assigned", "delivered")
  /\ orders' = SavedOf(r, "EXTERNAL_REPAIR_IN_PROGRESS")
  /\ vehicle' = "UNDER_EXTERNAL_REPAIR"
  /\ UNCHANGED <<faults, handovers, materials>>

LoadPickup(r, a) ==
  LoadAssignment(r, "pickup", a, "delivered", "EXTERNAL_REPAIR_IN_PROGRESS")

ConfirmPickup(r) ==
  /\ Serving(r, "pickup")
  /\ VehicleAllows("ACTIVE")
  /\ Staged(r, "delivered", "picked")
  /\ orders' = SavedOf(r, "WAITING_EXTERNAL_ADMIN_REVIEW")
  /\ vehicle' = "ACTIVE"
  /\ UNCHANGED <<faults, handovers, materials>>

LoadReview(r, a) ==
  LoadAssignment(r, "review", a, "picked", "WAITING_EXTERNAL_ADMIN_REVIEW")

\* The first complete review; saving it again changes nothing modelled here.
ReviewExternalRepair(r) ==
  /\ Serving(r, "review")
  /\ Staged(r, "picked", "reviewed")
  /\ UNCHANGED <<vehicle, faults, orders, handovers, materials>>

LoadCloseExternal(r, a) ==
  LoadAssignment(r, "closeExternal", a, "reviewed", "WAITING_EXTERNAL_ADMIN_REVIEW")

CloseExternal(r) ==
  /\ Serving(r, "closeExternal")
  /\ orders' = SavedOf(r, "COMPLETED")
  /\ assignments' = [assignments EXCEPT ![req[r].id].status = "COMPLETED"]
  /\ faults' = FaultClosed(req[r].row.fault)
  /\ UNCHANGED <<vehicle, handovers, materials>>

\* The order is read after the assignment was saved; both or neither change.
LoadCancelExternal(r, a) ==
  /\ assignments[a].status = "ACTIVE" /\ assignments[a].stage = "assigned"
  /\ LoadRow(r, "cancelExternal", a)

CancelExternal(r) ==
  LET o == assignments[req[r].id].order IN
  /\ Serving(r, "cancelExternal")
  /\ CanCancel(orders[o])
  /\ orders' = [orders EXCEPT ![o].status = "CANCELLED"]
  /\ assignments' = [assignments EXCEPT ![req[r].id].status = "CANCELLED"]
  /\ UNCHANGED <<vehicle, faults, handovers, materials>>

--------------------------------------------------------------------------------
(* The vehicle's own handlers. *)

ManualTargets == {"ACTIVE", "INACTIVE", "UNDER_REPAIR", "SUSPENDED", "OUT_OF_SERVICE"}

\* ACTIVE is refused while an order is open.
LoadManual(r, to) ==
  /\ "manual" \in Scope
  /\ to \in VehicleMoves(vehicle) \/ (to = "ACTIVE" /\ vehicle = "ACTIVE")
  /\ to = "ACTIVE" => \A o \in Order : orders[o].status \notin OpenOrder
  /\ Load(r, "manual", 0, NoOrder, vehicle, to)

ManualStatus(r) ==
  /\ req[r].to # "ACTIVE"
  /\ Serving(r, "manual")
  /\ vehicle' = req[r].to
  /\ UNCHANGED <<faults, orders, handovers, assignments, materials>>

\* The faults of finished orders are closed; any other open fault refuses it all.
ManualActive(r) ==
  LET repaired == {orders[o].fault : o \in
        {p \in Order : orders[p].status \in {"COMPLETED", "ACCEPTED_BY_DRIVER"}}} IN
  /\ req[r].to = "ACTIVE"
  /\ Serving(r, "manual")
  /\ \A f \in Fault \ repaired : faults[f] \in {"NONE", "CLOSED"}
  /\ faults' = [f \in Fault |-> IF f \in repaired THEN "CLOSED" ELSE faults[f]]
  /\ vehicle' = IF req[r].seen = "ACTIVE" THEN vehicle ELSE "ACTIVE"
  /\ UNCHANGED <<orders, handovers, assignments, materials>>

LoadExit(r) ==
  /\ "exit" \in Scope
  /\ NoOpenFlow
  /\ vehicle = "ACTIVE"
  /\ LoadRow(r, "exit", 0)

ExitCenter(r) ==
  /\ Serving(r, "exit")
  /\ vehicle' = "EXITED_CENTER"
  /\ UNCHANGED <<faults, orders, handovers, assignments, materials>>

\* The SAP fleet sync no longer finds the vehicle.
Decommission ==
  /\ "decommission" \in Scope
  /\ vehicle # "DECOMMISSIONED"
  /\ vehicle' = "DECOMMISSIONED"
  /\ UNCHANGED <<faults, orders, handovers, assignments, materials, req>>

--------------------------------------------------------------------------------

LoadStep(r) ==
  \/ LoadReport(r) \/ LoadExit(r)
  \/ \E f \in Fault :
       \/ LoadAssignFault(r, f) \/ LoadUnusable(r, f)
       \/ \E op \in {"closeFault", "usable"} : LoadCloseFault(r, f, op)
  \/ \E o \in Order :
       \/ LoadApprove(r, o) \/ LoadRejectByTransport(r, o) \/ LoadAssignTechnician(r, o)
       \/ LoadStart(r, o) \/ LoadCancel(r, o) \/ LoadSync(r, o) \/ LoadRepairable(r, o)
       \/ LoadNoRepair(r, o) \/ LoadRequestParts(r, o) \/ LoadComplete(r, o)
       \/ LoadAssignExternal(r, o) \/ LoadLines(r, o) \/ LoadInvoice(r, o)
       \/ \E op \in {"internal", "referral"} : LoadAssignWorkshop(r, o, op)
       \/ \E op \in {"driverAccept", "driverReject"} : LoadDriverDecision(r, o, op)
       \/ \E op \in {"transportApprove", "transportReject"} : LoadTransportDecision(r, o, op)
  \/ \E m \in Material : LoadReceiveParts(r, m)
  \/ \E a \in Assignment :
       \/ LoadDelivery(r, a) \/ LoadPickup(r, a) \/ LoadReview(r, a)
       \/ LoadCloseExternal(r, a) \/ LoadCancelExternal(r, a)
  \/ \E to \in ManualTargets : LoadManual(r, to)

FaultStep(r) ==
  ReportFault(r) \/ AssignFault(r) \/ CloseFault(r) \/ MarkUsable(r) \/ MarkUnusable(r)

OrderStep(r) ==
  \/ Approve(r) \/ RejectByTransport(r) \/ AssignInternal(r) \/ AssignReferral(r)
  \/ AssignTechnician(r) \/ StartRepair(r) \/ CancelRepairOrder(r) \/ SyncRepairToSAP(r)
  \/ MarkRepairable(r) \/ NoRepairNeeded(r) \/ NoRepairUnreleased(r)
  \/ RequestParts(r) \/ ReceiveParts(r) \/ EditLines(r)

HandoverStep(r) ==
  \/ CompleteRepairOrder(r) \/ DriverAcceptInternal(r) \/ DriverAcceptOther(r)
  \/ DriverReject(r) \/ DriverDecisionLate(r) \/ TransportApprove(r) \/ TransportReject(r)
  \/ ApproveExternalInvoice(r)

ExternalStep(r) ==
  \/ AssignExternal(r) \/ ConfirmDelivery(r) \/ ConfirmPickup(r)
  \/ ReviewExternalRepair(r) \/ CloseExternal(r) \/ CancelExternal(r)

VehicleStep(r) == ManualStatus(r) \/ ManualActive(r) \/ ExitCenter(r)

Next ==
  \/ \E r \in Request : LoadStep(r) \/ RollBack(r) \/ FaultStep(r) \/ OrderStep(r)
                        \/ HandoverStep(r) \/ ExternalStep(r) \/ VehicleStep(r)
  \/ Decommission

Spec == Init /\ [][Next]_vars

--------------------------------------------------------------------------------
(* Properties of requests served one at a time (Request has one element). *)

\* The one-open-flow rule of core.workflow.vehicle_open_flow over the whole life
\* of the vehicle, and not only when a fault is reported: at most one fault is
\* open, at most one order is open, and when both are, the order is the fault's,
\* through rejections, follow-up orders and faults closed under a running order.
OneOpenFlow ==
  /\ \A f, g \in Fault : faults[f] \notin {"NONE", "CLOSED"}
                         /\ faults[g] \notin {"NONE", "CLOSED"} => f = g
  /\ \A o, p \in Order : orders[o].status \in OpenOrder
                         /\ orders[p].status \in OpenOrder => o = p
  /\ \A f \in Fault, o \in Order : faults[f] \notin {"NONE", "CLOSED"}
                         /\ orders[o].status \in OpenOrder => orders[o].fault = f

\* The driver is asked for a decision exactly while the order waits for it: no
\* handover can be answered after its order has moved on, and no order waits for a
\* driver who has nothing to answer (handover_service, update_repair_status_service).
HandoverMatchesOrder ==
  \A o \in Order : handovers[o] = "WAITING" <=> orders[o].status = "WAITING_DRIVER_CONFIRMATION"

\* The order status that goes with each stage of an active assignment.
Stages ==
  [assigned |-> "WAITING_EXTERNAL_DELIVERY", delivered |-> "EXTERNAL_REPAIR_IN_PROGRESS",
   picked |-> "WAITING_EXTERNAL_ADMIN_REVIEW", reviewed |-> "WAITING_EXTERNAL_ADMIN_REVIEW"]

\* An order waits for an external workshop exactly as far as its one active
\* assignment has gone, so the next handler is never refused for ever: delivery
\* when not delivered, pickup when delivered, review when picked up
\* (external_workshop_service, transport and repair cancel handlers).
ExternalInStep ==
  \A o \in Order :
    /\ \A a, b \in ActiveAssignments(o) : a = b
    /\ (\E s \in DOMAIN Stages : orders[o].status = Stages[s]) =>
         \E a \in ActiveAssignments(o) : orders[o].status = Stages[assignments[a].stage]

\* An order pauses for parts only while a material request of it is outstanding:
\* a receipt is never lost between the request and the order it resumes.
PartsAreAwaited ==
  \A o \in Order : orders[o].status = "WAITING_PARTS" =>
    \E m \in Material : materials[m].order = o /\ materials[m].open

(* Properties of requests that overlap. *)

\* Whatever two requests of an order do to each other, the driver's word is never
\* dispensed with: an order waits for the driver only after a handover was opened for
\* it, and is with transport, or rejected by the driver, only after the driver has
\* answered (complete, handover_service; both sides of a stale save).  Which answer
\* is not promised: a late decision can still turn the recorded one round.
DriverWasAsked ==
  \A o \in Order :
    /\ orders[o].status = "WAITING_DRIVER_CONFIRMATION" => handovers[o] # "NONE"
    /\ orders[o].status \in {"WAITING_TRANSPORT_FINAL_APPROVAL", "REJECTED_BY_DRIVER"} =>
         handovers[o] \in {"ACCEPTED", "REJECTED"}

================================================================================
