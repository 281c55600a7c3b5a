----------------------- MODULE MaintenanceWorkflowProofs -----------------------
(***************************************************************************)
(* Theorems about MaintenanceWorkflow, for every number of requests served *)
(* at the same time, every bound on rows and every choice of operations.   *)
(* The last four are about requests that do not overlap (OneAtATime): what *)
(* save() writes back is then what the tables say, which two overlapping   *)
(* handlers of one order do not keep.                                      *)
(***************************************************************************)
EXTENDS MaintenanceWorkflow, TLAPS

\* What a request holds on to for a row it will insert or a status it will write.
RequestAsked(r) ==
  /\ req[r].op \in {"requestParts", "assignExternal"} => req[r].id \in Order
  /\ req[r].op = "unusable" => req[r].id \in Fault
  /\ req[r].op = "manual" => req[r].to \in ManualTargets

Asked == \A r \in Request : RequestAsked(r)

\* An active assignment belongs to an order.
ActiveHasOrder ==
  \A a \in Assignment : assignments[a].status = "ACTIVE" => assignments[a].order \in Order

IInv == TypeOK /\ Asked /\ ActiveHasOrder

--------------------------------------------------------------------------------

LEMMA InitIInv == Init => IInv
<1> SUFFICES ASSUME Init PROVE IInv
  OBVIOUS
<1>1. TypeOK
  BY DEF Init, TypeOK, VehicleStatus, FaultStatus, OrderRow, NoOrder, AssignmentRow,
         NoAssignment, MaterialRow, RequestState, Idle, Op
<1>2. Asked
  BY DEF Init, Asked, RequestAsked, Idle
<1>3. ActiveHasOrder
  BY DEF Init, ActiveHasOrder, NoAssignment
<1> QED
  BY <1>1, <1>2, <1>3 DEF IInv

\* The rows are of their types.
RowsOK ==
  /\ vehicle \in VehicleStatus
  /\ faults \in [Fault -> FaultStatus]
  /\ orders \in [Order -> OrderRow]
  /\ handovers \in [Order -> {"NONE", "WAITING", "ACCEPTED", "REJECTED"}]
  /\ assignments \in [Assignment -> AssignmentRow]
  /\ materials \in [Material -> MaterialRow]
  /\ ActiveHasOrder

\* A step that leaves a request with a well-formed copy, and the rows alone.
LEMMA LoadKeeps ==
  ASSUME IInv, NEW r \in Request, NEW op \in Op, NEW id \in Nat, NEW row \in OrderRow,
         NEW seen \in VehicleStatus \cup {"none"}, NEW to \in VehicleStatus \cup {"none"},
         op \in {"requestParts", "assignExternal"} => id \in Order,
         op = "unusable" => id \in Fault,
         op = "manual" => to \in ManualTargets,
         Load(r, op, id, row, seen, to)
  PROVE  IInv'
<1> DEFINE new == [op |-> op, id |-> id, row |-> row, seen |-> seen, to |-> to]
<1>1. new \in RequestState
  BY DEF RequestState
<1>2. req' = [req EXCEPT ![r] = new]
  BY DEF Load
<1>3. UNCHANGED <<vehicle, faults, orders, handovers, assignments, materials>>
  BY DEF Load, Rows
<1>4. TypeOK'
  BY <1>1, <1>2, <1>3 DEF IInv, TypeOK
<1>5. Asked'
  <2> SUFFICES ASSUME NEW q \in Request PROVE RequestAsked(q)'
    BY DEF Asked
  <2>1. CASE q = r
    BY <2>1, <1>2 DEF IInv, TypeOK, RequestAsked
  <2>2. CASE q # r
    BY <2>2, <1>2 DEF IInv, TypeOK, Asked, RequestAsked
  <2> QED
    BY <2>1, <2>2
<1>6. ActiveHasOrder'
  BY <1>3 DEF IInv, ActiveHasOrder
<1> QED
  BY <1>4, <1>5, <1>6 DEF IInv

LEMMA IdleOK == Idle \in RequestState /\ NoOrder \in OrderRow
BY DEF Idle, NoOrder, OrderRow, RequestState, Op

\* A step that answers a request keeps the invariant when it writes proper rows.
LEMMA AnswerKeeps ==
  ASSUME IInv, NEW r \in Request, req' = [req EXCEPT ![r] = Idle], RowsOK'
  PROVE  IInv'
<1>1. TypeOK'
  BY IdleOK DEF IInv, TypeOK, RowsOK
<1>2. Asked'
  <2> SUFFICES ASSUME NEW q \in Request PROVE RequestAsked(q)'
    BY DEF Asked
  <2>1. CASE q = r
    BY <2>1 DEF IInv, TypeOK, RequestAsked, Idle
  <2>2. CASE q # r
    BY <2>2 DEF IInv, TypeOK, Asked, RequestAsked
  <2> QED
    BY <2>1, <2>2
<1> QED
  BY <1>1, <1>2 DEF IInv, RowsOK

LEMMA IInvRows == ASSUME IInv PROVE RowsOK
BY DEF IInv, TypeOK, RowsOK

--------------------------------------------------------------------------------
(* The loads. *)

LEMMA LoadOrderKeeps ==
  ASSUME IInv, NEW r \in Request, NEW op \in Op, NEW o \in Order,
         op \notin {"unusable", "manual"}, LoadOrder(r, op, o)
  PROVE  IInv'
<1>1. orders[o] \in OrderRow /\ o \in Nat
  BY DEF IInv, TypeOK, Order
<1> QED
  BY <1>1, LoadKeeps DEF LoadOrder

LEMMA LoadRowKeeps ==
  ASSUME IInv, NEW r \in Request, NEW op \in Op, NEW id \in Nat,
         op \notin {"unusable", "manual", "requestParts", "assignExternal"},
         LoadRow(r, op, id)
  PROVE  IInv'
BY LoadKeeps, IdleOK DEF LoadRow

LEMMA LoadAssignmentKeeps ==
  ASSUME IInv, NEW r \in Request, NEW a \in Assignment, NEW stage, NEW status,
         NEW op \in {"deliver", "pickup", "review", "closeExternal"},
         LoadAssignment(r, op, a, stage, status)
  PROVE  IInv'
<1>1. assignments[a].order \in Order /\ a \in Nat
  BY DEF LoadAssignment, IInv, ActiveHasOrder, Assignment
<1>2. orders[assignments[a].order] \in OrderRow
  BY <1>1 DEF IInv, TypeOK
<1>3. Load(r, op, a, orders[assignments[a].order], "none", "none")
  BY DEF LoadAssignment
<1>4. op \in Op
  BY DEF Op
<1> QED
  BY <1>1, <1>2, <1>3, <1>4, LoadKeeps

LEMMA LoadStepKeeps ==
  ASSUME IInv, NEW r \in Request, LoadStep(r)
  PROVE  IInv'
<1>1. CASE LoadReport(r) \/ LoadExit(r)
  BY <1>1, LoadRowKeeps DEF LoadReport, LoadExit, Op
<1>2. CASE \E f \in Fault :
             \/ LoadAssignFault(r, f)
             \/ \E op \in {"closeFault", "usable"} : LoadCloseFault(r, f, op)
  BY <1>2, LoadRowKeeps DEF LoadAssignFault, LoadCloseFault, Op, Fault
<1>3. ASSUME NEW f \in Fault, LoadUnusable(r, f) PROVE IInv'
  <2>1. f \in Nat /\ vehicle \in VehicleStatus
    BY DEF Fault, IInv, TypeOK
  <2>2. Load(r, "unusable", f, NoOrder, vehicle, "none")
    BY <1>3 DEF LoadUnusable
  <2> QED
    BY <2>1, <2>2, LoadKeeps, IdleOK DEF Op
<1>4. ASSUME NEW o \in Order,
             \/ LoadApprove(r, o) \/ LoadRejectByTransport(r, o)
             \/ LoadAssignTechnician(r, o) \/ LoadStart(r, o) \/ LoadCancel(r, o)
             \/ LoadSync(r, o) \/ LoadRepairable(r, o) \/ LoadNoRepair(r, o)
             \/ LoadRequestParts(r, o) \/ LoadComplete(r, o) \/ LoadAssignExternal(r, o)
             \/ LoadLines(r, o) \/ LoadInvoice(r, o)
      PROVE  IInv'
  BY <1>4, LoadOrderKeeps
     DEF LoadApprove, LoadRejectByTransport, LoadAssignTechnician, LoadStart, LoadCancel,
         LoadSync, LoadRepairable, LoadNoRepair, LoadRequestParts, LoadComplete,
         LoadAssignExternal, LoadLines, LoadInvoice, Op
<1>5. ASSUME NEW o \in Order,
             \/ \E op \in {"internal", "referral"} : LoadAssignWorkshop(r, o, op)
             \/ \E op \in {"driverAccept", "driverReject"} : LoadDriverDecision(r, o, op)
             \/ \E op \in {"transportApprove", "transportReject"} :
                  LoadTransportDecision(r, o, op)
      PROVE  IInv'
  BY <1>5, LoadOrderKeeps
     DEF LoadAssignWorkshop, LoadDriverDecision, LoadTransportDecision, Op
<1>6. CASE \E m \in Material : LoadReceiveParts(r, m)
  BY <1>6, LoadRowKeeps DEF LoadReceiveParts, Op, Material
<1>7. ASSUME NEW a \in Assignment,
             LoadDelivery(r, a) \/ LoadPickup(r, a) \/ LoadReview(r, a) \/ LoadCloseExternal(r, a)
      PROVE  IInv'
  BY <1>7, LoadAssignmentKeeps DEF LoadDelivery, LoadPickup, LoadReview, LoadCloseExternal
<1>8. CASE \E a \in Assignment : LoadCancelExternal(r, a)
  BY <1>8, LoadRowKeeps DEF LoadCancelExternal, Op, Assignment
<1>9. ASSUME NEW to \in ManualTargets, LoadManual(r, to) PROVE IInv'
  <2>1. vehicle \in VehicleStatus /\ to \in VehicleStatus
    BY DEF ManualTargets, VehicleStatus, IInv, TypeOK
  <2>2. Load(r, "manual", 0, NoOrder, vehicle, to)
    BY <1>9 DEF LoadManual
  <2> QED
    BY <2>1, <2>2, LoadKeeps, IdleOK DEF Op
<1> QED
  BY <1>1, <1>2, <1>3, <1>4, <1>5, <1>6, <1>7, <1>8, <1>9 DEF LoadStep

--------------------------------------------------------------------------------
(* The saves. *)

\* A request's loaded order is a row, and it stays one under a new status.
LEMMA LoadedRow ==
  ASSUME IInv, NEW r \in Request
  PROVE  /\ req[r].row \in OrderRow
         /\ req[r].id \in Nat
         /\ \A s \in OpenOrder \cup Terminal : [req[r].row EXCEPT !.status = s] \in OrderRow
<1>1. req[r] \in RequestState
  BY DEF IInv, TypeOK
<1>2. req[r].row \in OrderRow /\ req[r].id \in Nat
  BY <1>1 DEF RequestState
<1> QED
  BY <1>2 DEF OrderRow

\* Writing a proper row, at whatever index, keeps the orders proper.
LEMMA OrdersWritten ==
  ASSUME orders \in [Order -> OrderRow], NEW i, NEW row \in OrderRow
  PROVE  [orders EXCEPT ![i] = row] \in [Order -> OrderRow]
OBVIOUS

LEMMA SavedOK ==
  ASSUME IInv, NEW r \in Request, NEW s \in OpenOrder \cup Terminal
  PROVE  /\ Saved(r, s) \in [Order -> OrderRow]
         /\ SavedOf(r, s) \in [Order -> OrderRow]
<1>1. [req[r].row EXCEPT !.status = s] \in OrderRow
  BY LoadedRow
<1>2. orders \in [Order -> OrderRow]
  BY DEF IInv, TypeOK
<1> QED
  BY <1>1, <1>2, OrdersWritten DEF Saved, SavedOf

LEMMA CreatedOK ==
  ASSUME NEW f \in Fault \cup {0}
  PROVE  Created(f) \in OrderRow
BY DEF Created, NoOrder, OrderRow, OpenOrder

\* Closing a fault keeps its orders proper.
LEMMA OrdersOfClosedOK ==
  ASSUME NEW rows \in [Order -> OrderRow], NEW f
  PROVE  OrdersOfClosed(f, rows) \in [Order -> OrderRow]
<1>1. ASSUME NEW o \in Order
      PROVE  /\ [rows[o] EXCEPT !.status = "COMPLETED"] \in OrderRow
             /\ [rows[o] EXCEPT !.status = "CANCELLED"] \in OrderRow
  BY DEF OrderRow, Terminal
<1> QED
  BY <1>1 DEF OrdersOfClosed

LEMMA FaultClosedOK ==
  ASSUME IInv, NEW f
  PROVE  FaultClosed(f) \in [Fault -> FaultStatus]
BY DEF IInv, TypeOK, FaultClosed, FaultStatus

LEMMA VehicleToOK ==
  ASSUME IInv, NEW s \in VehicleStatus
  PROVE  VehicleTo(s) \in VehicleStatus
BY DEF IInv, TypeOK, VehicleTo

LEMMA DecidedOK ==
  ASSUME IInv, NEW r \in Request
  PROVE  Decided(r) \in [Order -> {"NONE", "WAITING", "ACCEPTED", "REJECTED"}]
BY DEF IInv, TypeOK, Decided

\* An assignment that ends or moves on stays proper, and belongs to its order.
LEMMA AssignmentWritten ==
  ASSUME IInv, NEW a
  PROVE  /\ \A s \in {"CANCELLED", "COMPLETED"} :
              LET next == [assignments EXCEPT ![a].status = s] IN
              /\ next \in [Assignment -> AssignmentRow]
              /\ \A b \in Assignment : next[b].status = "ACTIVE" => next[b].order \in Order
         /\ \A s \in {"assigned", "delivered", "picked", "reviewed"} :
              LET next == [assignments EXCEPT ![a].stage = s] IN
              /\ next \in [Assignment -> AssignmentRow]
              /\ \A b \in Assignment : next[b].status = "ACTIVE" => next[b].order \in Order
<1>1. assignments \in [Assignment -> AssignmentRow]
  BY DEF IInv, TypeOK
<1>2. ASSUME NEW s \in {"CANCELLED", "COMPLETED"}
      PROVE  LET next == [assignments EXCEPT ![a].status = s] IN
             /\ next \in [Assignment -> AssignmentRow]
             /\ \A b \in Assignment : next[b].status = "ACTIVE" => next[b].order \in Order
  BY <1>1 DEF IInv, ActiveHasOrder, AssignmentRow
<1>3. ASSUME NEW s \in {"assigned", "delivered", "picked", "reviewed"}
      PROVE  LET next == [assignments EXCEPT ![a].stage = s] IN
             /\ next \in [Assignment -> AssignmentRow]
             /\ \A b \in Assignment : next[b].status = "ACTIVE" => next[b].order \in Order
  BY <1>1 DEF IInv, ActiveHasOrder, AssignmentRow
<1> QED
  BY <1>2, <1>3

\* A handler that writes only the order of its request.
LEMMA OrderOnlyKeeps ==
  ASSUME IInv, NEW r \in Request, NEW op, NEW row \in OrderRow, OrderOnly(r, op, row)
  PROVE  IInv'
<1>1. orders' \in [Order -> OrderRow]
  BY OrdersWritten DEF OrderOnly, IInv, TypeOK
<1>2. RowsOK'
  BY <1>1, IInvRows DEF OrderOnly, RowsOK, ActiveHasOrder
<1> QED
  BY <1>2, AnswerKeeps DEF OrderOnly, Serving

LEMMA FaultStepKeeps ==
  ASSUME IInv, NEW r \in Request, FaultStep(r)
  PROVE  IInv'
<1>0. RowsOK
  BY IInvRows
<1>1. CASE ReportFault(r) \/ AssignFault(r)
  <2>1. faults' \in [Fault -> FaultStatus]
    BY <1>0, <1>1 DEF ReportFault, AssignFault, RowsOK, FaultStatus
  <2>2. RowsOK'
    BY <1>0, <1>1, <2>1 DEF ReportFault, AssignFault, RowsOK, ActiveHasOrder
  <2> QED
    BY <1>1, <2>2, AnswerKeeps DEF ReportFault, AssignFault, Serving
<1>2. CASE CloseFault(r) \/ MarkUsable(r)
  <2>1. faults' \in [Fault -> FaultStatus]
    BY <1>2, FaultClosedOK DEF CloseFault, MarkUsable
  <2>2. orders' \in [Order -> OrderRow]
    BY <1>0, <1>2, OrdersOfClosedOK DEF CloseFault, MarkUsable, RowsOK
  <2>3. vehicle' \in VehicleStatus
    BY <1>0, <1>2, VehicleToOK DEF CloseFault, MarkUsable, RowsOK, VehicleStatus
  <2>4. RowsOK'
    BY <1>0, <1>2, <2>1, <2>2, <2>3 DEF CloseFault, MarkUsable, RowsOK, ActiveHasOrder
  <2> QED
    BY <1>2, <2>4, AnswerKeeps DEF CloseFault, MarkUsable, Serving
<1>3. CASE MarkUnusable(r)
  <2>1. req[r].id \in Fault
    BY <1>3 DEF MarkUnusable, Serving, IInv, Asked, RequestAsked
  <2>2. Created(req[r].id) \in OrderRow
    BY <2>1, CreatedOK
  <2>3. orders' \in [Order -> OrderRow]
    BY <1>0, <1>3, <2>2 DEF MarkUnusable, RowsOK
  <2>4. vehicle' \in VehicleStatus /\ faults' \in [Fault -> FaultStatus]
    BY <1>0, <1>3 DEF MarkUnusable, RowsOK, VehicleStatus, FaultStatus
  <2>5. RowsOK'
    BY <1>0, <1>3, <2>3, <2>4 DEF MarkUnusable, RowsOK, ActiveHasOrder
  <2> QED
    BY <1>3, <2>5, AnswerKeeps DEF MarkUnusable, Serving
<1> QED
  BY <1>1, <1>2, <1>3 DEF FaultStep

LEMMA OrderStepKeeps ==
  ASSUME IInv, NEW r \in Request, OrderStep(r)
  PROVE  IInv'
<1>0. RowsOK
  BY IInvRows
<1>1. CASE \/ Approve(r) \/ AssignInternal(r) \/ AssignReferral(r) \/ AssignTechnician(r)
           \/ SyncRepairToSAP(r) \/ NoRepairUnreleased(r) \/ EditLines(r)
  <2>1. PICK row \in OrderRow, op \in Op : OrderOnly(r, op, row)
    <3>1. req[r].row \in OrderRow
      BY LoadedRow
    <3> QED
      BY <1>1, <3>1
         DEF Approve, AssignInternal, AssignReferral, AssignTechnician, SyncRepairToSAP,
             NoRepairUnreleased, EditLines, OrderRow, OpenOrder, Terminal, Op
  <2> QED
    BY <2>1, OrderOnlyKeeps
<1>2. CASE RejectByTransport(r)
  <2>1. orders' \in [Order -> OrderRow]
    BY <1>2, SavedOK DEF RejectByTransport, Terminal
  <2>2. vehicle' \in VehicleStatus
    BY <1>2, VehicleToOK DEF RejectByTransport, VehicleStatus
  <2>3. faults' \in [Fault -> FaultStatus]
    BY <1>0, <1>2 DEF RejectByTransport, RowsOK, FaultStatus
  <2>4. RowsOK'
    BY <1>0, <1>2, <2>1, <2>2, <2>3 DEF RejectByTransport, RowsOK, ActiveHasOrder
  <2> QED
    BY <1>2, <2>4, AnswerKeeps DEF RejectByTransport, Serving
<1>3. CASE StartRepair(r)
  <2>1. orders' \in [Order -> OrderRow]
    BY <1>3, SavedOK DEF StartRepair, OpenOrder
  <2>2. RowsOK'
    BY <1>0, <1>3, <2>1 DEF StartRepair, RowsOK, ActiveHasOrder, VehicleStatus
  <2> QED
    BY <1>3, <2>2, AnswerKeeps DEF StartRepair, Serving
<1>4. CASE CancelRepairOrder(r)
  <2>1. orders' \in [Order -> OrderRow]
    BY <1>4, SavedOK DEF CancelRepairOrder, Terminal
  <2>2. /\ assignments' \in [Assignment -> AssignmentRow]
        /\ ActiveHasOrder'
    <3>1. CASE UNCHANGED assignments
      BY <1>0, <3>1 DEF RowsOK, ActiveHasOrder
    <3>2. CASE \E a \in Assignment :
                 assignments' = [assignments EXCEPT ![a].status = "CANCELLED"]
      <4>1. PICK a \in Assignment :
              assignments' = [assignments EXCEPT ![a].status = "CANCELLED"]
        BY <3>2
      <4> QED
        BY <4>1, AssignmentWritten DEF ActiveHasOrder
    <3> QED
      BY <1>4, <3>1, <3>2 DEF CancelRepairOrder
  <2>3. RowsOK'
    BY <1>0, <1>4, <2>1, <2>2 DEF CancelRepairOrder, RowsOK
  <2> QED
    BY <1>4, <2>3, AnswerKeeps DEF CancelRepairOrder, Serving
<1>5. CASE MarkRepairable(r)
  <2>1. [req[r].row EXCEPT !.status = "IN_PROGRESS", !.sap = TRUE] \in OrderRow
    <3>1. req[r].row \in OrderRow
      BY LoadedRow
    <3> QED
      BY <3>1 DEF OrderRow, OpenOrder, Terminal
  <2>2. orders' \in [Order -> OrderRow]
    BY <1>0, <1>5, <2>1, OrdersWritten DEF MarkRepairable, RowsOK
  <2>3. vehicle' \in VehicleStatus
    BY <1>5, VehicleToOK DEF MarkRepairable, VehicleStatus
  <2>4. faults' \in [Fault -> FaultStatus]
    BY <1>0, <1>5 DEF MarkRepairable, RowsOK, FaultStatus
  <2>5. RowsOK'
    BY <1>0, <1>5, <2>2, <2>3, <2>4 DEF MarkRepairable, RowsOK, ActiveHasOrder
  <2> QED
    BY <1>5, <2>5, AnswerKeeps DEF MarkRepairable, Serving
<1>6. CASE NoRepairNeeded(r)
  <2>1. Saved(r, "NO_REPAIR_NEEDED") \in [Order -> OrderRow]
    BY SavedOK DEF Terminal
  <2>2. orders' \in [Order -> OrderRow]
    BY <1>6, <2>1, OrdersOfClosedOK DEF NoRepairNeeded
  <2>3. faults' \in [Fault -> FaultStatus]
    BY <1>6, FaultClosedOK DEF NoRepairNeeded
  <2>4. vehicle' \in VehicleStatus
    BY <1>6, VehicleToOK DEF NoRepairNeeded, VehicleStatus
  <2>5. handovers' \in [Order -> {"NONE", "WAITING", "ACCEPTED", "REJECTED"}]
    BY <1>0, <1>6 DEF NoRepairNeeded, RowsOK
  <2>6. RowsOK'
    BY <1>0, <1>6, <2>2, <2>3, <2>4, <2>5 DEF NoRepairNeeded, RowsOK, ActiveHasOrder
  <2> QED
    BY <1>6, <2>6, AnswerKeeps DEF NoRepairNeeded, Serving
<1>7. CASE RequestParts(r)
  <2>1. req[r].id \in Order
    BY <1>7 DEF RequestParts, Serving, IInv, Asked, RequestAsked
  <2>2. materials' \in [Material -> MaterialRow]
    BY <1>0, <1>7, <2>1 DEF RequestParts, RowsOK, MaterialRow
  <2>3. orders' \in [Order -> OrderRow]
    BY <1>7, SavedOK DEF RequestParts, OpenOrder
  <2>4. RowsOK'
    BY <1>0, <1>7, <2>2, <2>3 DEF RequestParts, RowsOK, ActiveHasOrder
  <2> QED
    BY <1>7, <2>4, AnswerKeeps DEF RequestParts, Serving
<1>8. CASE ReceiveParts(r)
  <2>1. materials' \in [Material -> MaterialRow]
    BY <1>0, <1>8 DEF ReceiveParts, RowsOK, MaterialRow
  <2>2. orders' \in [Order -> OrderRow]
    <3> DEFINE o == materials[req[r].id].order
               s == IF orders[o].status = "WAITING_PARTS" THEN "IN_PROGRESS"
                    ELSE orders[o].status
    <3>1. orders' = [orders EXCEPT ![o].status = s]
      BY <1>8 DEF ReceiveParts
    <3>2. CASE o \in Order
      <4>1. orders[o] \in OrderRow
        BY <1>0, <3>2 DEF RowsOK
      <4>2. [orders[o] EXCEPT !.status = s] \in OrderRow
        BY <4>1 DEF OrderRow, OpenOrder, Terminal
      <4>3. orders' = [orders EXCEPT ![o] = [orders[o] EXCEPT !.status = s]]
        BY <1>0, <3>1 DEF RowsOK
      <4> QED
        BY <1>0, <4>2, <4>3, OrdersWritten DEF RowsOK
    <3>3. CASE o \notin Order
      BY <1>0, <3>1, <3>3 DEF RowsOK
    <3> QED
      BY <3>2, <3>3
  <2>3. RowsOK'
    BY <1>0, <1>8, <2>1, <2>2 DEF ReceiveParts, RowsOK, ActiveHasOrder
  <2> QED
    BY <1>8, <2>3, AnswerKeeps DEF ReceiveParts, Serving
<1> QED
  BY <1>1, <1>2, <1>3, <1>4, <1>5, <1>6, <1>7, <1>8 DEF OrderStep

LEMMA HandoverStepKeeps ==
  ASSUME IInv, NEW r \in Request, HandoverStep(r)
  PROVE  IInv'
<1>0. RowsOK
  BY IInvRows
<1>a. req[r].row.fault \in Fault \cup {0}
  BY LoadedRow DEF OrderRow
<1>b. Created(req[r].row.fault) \in OrderRow
  BY <1>a, CreatedOK
<1>1. CASE CompleteRepairOrder(r)
  <2>1. orders' \in [Order -> OrderRow]
    BY <1>1, SavedOK DEF CompleteRepairOrder, OpenOrder
  <2>2. handovers' \in [Order -> {"NONE", "WAITING", "ACCEPTED", "REJECTED"}]
    BY <1>0, <1>1 DEF CompleteRepairOrder, RowsOK
  <2>3. RowsOK'
    BY <1>0, <1>1, <2>1, <2>2 DEF CompleteRepairOrder, RowsOK, ActiveHasOrder, VehicleStatus
  <2> QED
    BY <1>1, <2>3, AnswerKeeps DEF CompleteRepairOrder, Serving
<1>2. CASE DriverAcceptInternal(r)
  <2>1. orders' \in [Order -> OrderRow]
    BY <1>2, SavedOK DEF DriverAcceptInternal, Terminal
  <2>2. vehicle' \in VehicleStatus
    BY <1>2, VehicleToOK DEF DriverAcceptInternal, VehicleStatus
  <2>3. faults' \in [Fault -> FaultStatus]
    BY <1>2, FaultClosedOK DEF DriverAcceptInternal
  <2>4. handovers' \in [Order -> {"NONE", "WAITING", "ACCEPTED", "REJECTED"}]
    BY <1>2, DecidedOK DEF DriverAcceptInternal
  <2>5. RowsOK'
    BY <1>0, <1>2, <2>1, <2>2, <2>3, <2>4 DEF DriverAcceptInternal, RowsOK, ActiveHasOrder
  <2> QED
    BY <1>2, <2>5, AnswerKeeps DEF DriverAcceptInternal, Serving
<1>3. CASE DriverAcceptOther(r) \/ DriverDecisionLate(r)
  <2>1. orders' \in [Order -> OrderRow]
    BY <1>0, <1>3, SavedOK DEF DriverAcceptOther, DriverDecisionLate, OpenOrder, RowsOK
  <2>2. handovers' \in [Order -> {"NONE", "WAITING", "ACCEPTED", "REJECTED"}]
    BY <1>3, DecidedOK DEF DriverAcceptOther, DriverDecisionLate
  <2>3. RowsOK'
    BY <1>0, <1>3, <2>1, <2>2
       DEF DriverAcceptOther, DriverDecisionLate, RowsOK, ActiveHasOrder
  <2> QED
    BY <1>3, <2>3, AnswerKeeps DEF DriverAcceptOther, DriverDecisionLate, Serving
<1>4. CASE DriverReject(r)
  <2>1. Saved(r, "REJECTED_BY_DRIVER") \in [Order -> OrderRow]
    BY SavedOK DEF Terminal
  <2>2. orders' \in [Order -> OrderRow]
    BY <1>4, <1>b, <2>1 DEF DriverReject
  <2>3. handovers' \in [Order -> {"NONE", "WAITING", "ACCEPTED", "REJECTED"}]
    BY <1>4, DecidedOK DEF DriverReject
  <2>4. RowsOK'
    BY <1>0, <1>4, <2>2, <2>3 DEF DriverReject, RowsOK, ActiveHasOrder
  <2> QED
    BY <1>4, <2>4, AnswerKeeps DEF DriverReject, Serving
<1>5. CASE TransportApprove(r) \/ ApproveExternalInvoice(r)
  <2>1. orders' \in [Order -> OrderRow]
    BY <1>5, SavedOK DEF TransportApprove, ApproveExternalInvoice, Terminal
  <2>2. faults' \in [Fault -> FaultStatus]
    BY <1>5, FaultClosedOK DEF TransportApprove, ApproveExternalInvoice
  <2>3. RowsOK'
    BY <1>0, <1>5, <2>1, <2>2
       DEF TransportApprove, ApproveExternalInvoice, RowsOK, ActiveHasOrder, VehicleStatus
  <2> QED
    BY <1>5, <2>3, AnswerKeeps DEF TransportApprove, ApproveExternalInvoice, Serving
<1>6. CASE TransportReject(r)
  <2>1. Saved(r, "COMPLETED") \in [Order -> OrderRow]
    BY SavedOK DEF Terminal
  <2>2. orders' \in [Order -> OrderRow]
    BY <1>6, <1>b, <2>1 DEF TransportReject
  <2>3. RowsOK'
    BY <1>0, <1>6, <2>2 DEF TransportReject, RowsOK, ActiveHasOrder, VehicleStatus
  <2> QED
    BY <1>6, <2>3, AnswerKeeps DEF TransportReject, Serving
<1> QED
  BY <1>1, <1>2, <1>3, <1>4, <1>5, <1>6 DEF HandoverStep

LEMMA ExternalStepKeeps ==
  ASSUME IInv, NEW r \in Request, ExternalStep(r)
  PROVE  IInv'
<1>0. RowsOK
  BY IInvRows
<1>1. CASE AssignExternal(r)
  <2>1. req[r].id \in Order
    BY <1>1 DEF AssignExternal, Serving, IInv, Asked, RequestAsked
  <2>2. [req[r].row EXCEPT !.type = "EXTERNAL", !.status = "WAITING_EXTERNAL_DELIVERY"]
          \in OrderRow
    <3>1. req[r].row \in OrderRow
      BY LoadedRow
    <3> QED
      BY <3>1 DEF OrderRow, OpenOrder, Terminal
  <2>3. orders' \in [Order -> OrderRow]
    BY <1>0, <1>1, <2>2, OrdersWritten DEF AssignExternal, RowsOK
  <2>4. assignments' \in [Assignment -> AssignmentRow] /\ ActiveHasOrder'
    <3>1. PICK a \in Assignment :
            assignments' =
              [b \in Assignment |->
                 IF b = a THEN [order |-> req[r].id, status |-> "ACTIVE", stage |-> "assigned"]
                 ELSE IF b \in ActiveAssignments(req[r].id)
                   THEN [assignments[b] EXCEPT !.status = "CANCELLED"]
                 ELSE assignments[b]]
      BY <1>1 DEF AssignExternal
    <3>2. [order |-> req[r].id, status |-> "ACTIVE", stage |-> "assigned"] \in AssignmentRow
      BY <2>1 DEF AssignmentRow
    <3>3. ASSUME NEW b \in Assignment
          PROVE  /\ assignments'[b] \in AssignmentRow
                 /\ assignments'[b].status = "ACTIVE" => assignments'[b].order \in Order
      <4>1. assignments[b] \in AssignmentRow
        BY <1>0 DEF RowsOK
      <4>2. CASE b = a
        BY <2>1, <3>1, <3>2, <4>2
      <4>3. CASE b # a /\ b \in ActiveAssignments(req[r].id)
        BY <3>1, <4>1, <4>3 DEF AssignmentRow
      <4>4. CASE b # a /\ b \notin ActiveAssignments(req[r].id)
        BY <1>0, <3>1, <4>1, <4>4 DEF RowsOK, ActiveHasOrder
      <4> QED
        BY <4>2, <4>3, <4>4
    <3>4. assignments' = [b \in Assignment |-> assignments'[b]]
      BY <3>1
    <3> QED
      BY <3>3, <3>4 DEF ActiveHasOrder
  <2>5. RowsOK'
    BY <1>0, <1>1, <2>3, <2>4 DEF AssignExternal, RowsOK
  <2> QED
    BY <1>1, <2>5, AnswerKeeps DEF AssignExternal, Serving
<1>2. CASE ConfirmDelivery(r) \/ ConfirmPickup(r) \/ ReviewExternalRepair(r)
  <2>1. orders' \in [Order -> OrderRow]
    BY <1>0, <1>2, SavedOK
       DEF ConfirmDelivery, ConfirmPickup, ReviewExternalRepair, OpenOrder, RowsOK
  <2>2. PICK s \in {"delivered", "picked", "reviewed"} :
          assignments' = [assignments EXCEPT ![req[r].id].stage = s]
    BY <1>2 DEF ConfirmDelivery, ConfirmPickup, ReviewExternalRepair, Staged
  <2>3. assignments' \in [Assignment -> AssignmentRow] /\ ActiveHasOrder'
    BY <2>2, AssignmentWritten DEF ActiveHasOrder
  <2>4. RowsOK'
    BY <1>0, <1>2, <2>1, <2>3
       DEF ConfirmDelivery, ConfirmPickup, ReviewExternalRepair, RowsOK, VehicleStatus
  <2> QED
    BY <1>2, <2>4, AnswerKeeps
       DEF ConfirmDelivery, ConfirmPickup, ReviewExternalRepair, Serving
<1>3. CASE CloseExternal(r)
  <2>1. orders' \in [Order -> OrderRow]
    BY <1>3, SavedOK DEF CloseExternal, Terminal
  <2>2. assignments' \in [Assignment -> AssignmentRow] /\ ActiveHasOrder'
    BY <1>3, AssignmentWritten DEF CloseExternal, ActiveHasOrder
  <2>3. faults' \in [Fault -> FaultStatus]
    BY <1>3, FaultClosedOK DEF CloseExternal
  <2>4. RowsOK'
    BY <1>0, <1>3, <2>1, <2>2, <2>3 DEF CloseExternal, RowsOK
  <2> QED
    BY <1>3, <2>4, AnswerKeeps DEF CloseExternal, Serving
<1>4. CASE CancelExternal(r)
  <2>1. orders' \in [Order -> OrderRow]
    <3>1. PICK o : orders' = [orders EXCEPT ![o].status = "CANCELLED"]
      BY <1>4 DEF CancelExternal
    <3>2. orders \in [Order -> OrderRow]
      BY <1>0 DEF RowsOK
    <3>3. \A q \in Order : [orders[q] EXCEPT !.status = "CANCELLED"] \in OrderRow
      BY <3>2 DEF OrderRow, Terminal
    <3> QED
      BY <3>1, <3>2, <3>3
  <2>2. assignments' \in [Assignment -> AssignmentRow] /\ ActiveHasOrder'
    BY <1>4, AssignmentWritten DEF CancelExternal, ActiveHasOrder
  <2>3. RowsOK'
    BY <1>0, <1>4, <2>1, <2>2 DEF CancelExternal, RowsOK
  <2> QED
    BY <1>4, <2>3, AnswerKeeps DEF CancelExternal, Serving
<1> QED
  BY <1>1, <1>2, <1>3, <1>4 DEF ExternalStep

LEMMA VehicleStepKeeps ==
  ASSUME IInv, NEW r \in Request, VehicleStep(r)
  PROVE  IInv'
<1>0. RowsOK
  BY IInvRows
<1>1. CASE ManualStatus(r)
  <2>1. req[r].to \in ManualTargets
    BY <1>1 DEF ManualStatus, Serving, IInv, Asked, RequestAsked
  <2>2. RowsOK'
    BY <1>0, <1>1, <2>1
       DEF ManualStatus, ManualTargets, VehicleStatus, RowsOK, ActiveHasOrder
  <2> QED
    BY <1>1, <2>2, AnswerKeeps DEF ManualStatus, Serving
<1>2. CASE ManualActive(r)
  <2>1. faults' \in [Fault -> FaultStatus]
    BY <1>0, <1>2 DEF ManualActive, RowsOK, FaultStatus
  <2>2. vehicle' \in VehicleStatus
    BY <1>0, <1>2 DEF ManualActive, RowsOK, VehicleStatus
  <2>3. RowsOK'
    BY <1>0, <1>2, <2>1, <2>2 DEF ManualActive, RowsOK, ActiveHasOrder
  <2> QED
    BY <1>2, <2>3, AnswerKeeps DEF ManualActive, Serving
<1>3. CASE ExitCenter(r)
  <2>1. RowsOK'
    BY <1>0, <1>3 DEF ExitCenter, RowsOK, ActiveHasOrder, VehicleStatus
  <2> QED
    BY <1>3, <2>1, AnswerKeeps DEF ExitCenter, Serving
<1> QED
  BY <1>1, <1>2, <1>3 DEF VehicleStep

--------------------------------------------------------------------------------

LEMMA NextIInv == IInv /\ [Next]_vars => IInv'
<1> SUFFICES ASSUME IInv, [Next]_vars PROVE IInv'
  OBVIOUS
<1>1. ASSUME NEW r \in Request, RollBack(r) PROVE IInv'
  <2>1. RowsOK'
    BY <1>1, IInvRows DEF RollBack, Rows, RowsOK, ActiveHasOrder
  <2> QED
    BY <1>1, <2>1, AnswerKeeps DEF RollBack
<1>2. ASSUME NEW r \in Request,
             LoadStep(r) \/ FaultStep(r) \/ OrderStep(r) \/ HandoverStep(r)
             \/ ExternalStep(r) \/ VehicleStep(r)
      PROVE  IInv'
  BY <1>2, LoadStepKeeps, FaultStepKeeps, OrderStepKeeps, HandoverStepKeeps,
     ExternalStepKeeps, VehicleStepKeeps
<1>3. CASE Decommission
  BY <1>3 DEF Decommission, IInv, TypeOK, Asked, RequestAsked, ActiveHasOrder, VehicleStatus
<1>4. CASE UNCHANGED vars
  BY <1>4 DEF vars, IInv, TypeOK, Asked, RequestAsked, ActiveHasOrder
<1> QED
  BY <1>1, <1>2, <1>3, <1>4 DEF Next

\* Every row stays of its type under every handler and every overlap: the status
\* columns hold only statuses of their table, and a material request or an external
\* assignment is only ever inserted for an order.
THEOREM TypeCorrect == Spec => []TypeOK
<1>1. IInv => TypeOK
  BY DEF IInv
<1> QED
  BY InitIInv, NextIInv, <1>1, PTL DEF Spec

--------------------------------------------------------------------------------
(* No order gets past the driver without an answer. *)

\* What DriverWasAsked says of one order row and the handover of its order.
Asks(row, handover) ==
  /\ row.status = "WAITING_DRIVER_CONFIRMATION" => handover # "NONE"
  /\ row.status \in {"WAITING_TRANSPORT_FINAL_APPROVAL", "REJECTED_BY_DRIVER"} =>
       handover \in {"ACCEPTED", "REJECTED"}

\* The SAP sync and the handlers of the order's lines save a status they have read, and
\* not one they have decided on: their copy must be as true as the row.
SyncCopies ==
  \A r \in Request : req[r].op \in {"sync", "lines"} =>
    req[r].id \in Order /\ Asks(req[r].row, handovers[req[r].id])

DInv == IInv /\ DriverWasAsked /\ SyncCopies

\* A handover is never closed again, nor its answer taken back (but it may change).
HandoversGrow ==
  \A o \in Order :
    /\ handovers[o] # "NONE" => handovers'[o] # "NONE"
    /\ handovers[o] \in {"ACCEPTED", "REJECTED"} => handovers'[o] \in {"ACCEPTED", "REJECTED"}

\* The statuses that say something about the driver.
Telling == {"WAITING_DRIVER_CONFIRMATION", "WAITING_TRANSPORT_FINAL_APPROVAL",
            "REJECTED_BY_DRIVER"}

\* A step may give an order a telling status only when the handover bears it out.
OrdersTellTheTruth ==
  \A o \in Order :
    \/ orders'[o].status = orders[o].status
    \/ orders'[o].status \notin Telling
    \/ Asks(orders'[o], handovers'[o])

\* A request is as before, has been answered, or has loaded a row it may write back.
RequestsKeepCopies ==
  \A r \in Request :
    \/ req'[r] = req[r]
    \/ req'[r].op \notin {"sync", "lines"}
    \/ \E o \in Order : req'[r].id = o /\ req'[r].row = orders[o]

LEMMA InitDInv == Init => DInv
BY InitIInv DEF Init, DInv, DriverWasAsked, SyncCopies, Idle, NoOrder

LEMMA TruthKeeps ==
  ASSUME DInv, IInv', HandoversGrow, OrdersTellTheTruth, RequestsKeepCopies
  PROVE  DInv'
<1>1. DriverWasAsked'
  BY DEF DInv, DriverWasAsked, HandoversGrow, OrdersTellTheTruth, Telling, Asks
<1>2. SyncCopies'
  <2> SUFFICES ASSUME NEW r \in Request, req'[r].op \in {"sync", "lines"}
               PROVE  req'[r].id \in Order /\ Asks(req'[r].row, handovers'[req'[r].id])
    BY DEF SyncCopies, Asks
  <2>1. CASE req'[r] = req[r]
    BY <2>1 DEF DInv, SyncCopies, HandoversGrow, Asks
  <2>2. CASE \E o \in Order : req'[r].id = o /\ req'[r].row = orders[o]
    BY <2>2 DEF DInv, DriverWasAsked, HandoversGrow, Asks
  <2> QED
    BY <2>1, <2>2 DEF RequestsKeepCopies
<1> QED
  BY <1>1, <1>2 DEF DInv

\* The orders a handler saves differ from the old ones in the status it decided on.
LEMMA SavedAt ==
  ASSUME IInv, NEW r \in Request, NEW s \in OpenOrder \cup Terminal, NEW o \in Order
  PROVE  /\ Saved(r, s)[o].status = s \/ Saved(r, s)[o] = orders[o]
         /\ SavedOf(r, s)[o].status = s \/ SavedOf(r, s)[o] = orders[o]
<1>1. [req[r].row EXCEPT !.status = s].status = s
  BY LoadedRow DEF OrderRow
<1> QED
  BY <1>1 DEF Saved, SavedOf, IInv, TypeOK

\* Closing a fault only completes and cancels orders.
LEMMA ClosedAt ==
  ASSUME NEW rows \in [Order -> OrderRow], NEW f, NEW o \in Order
  PROVE  \/ OrdersOfClosed(f, rows)[o] = rows[o]
         \/ OrdersOfClosed(f, rows)[o].status \in {"COMPLETED", "CANCELLED"}
<1>1. rows[o] \in OrderRow
  OBVIOUS
<1> QED
  BY <1>1 DEF OrdersOfClosed, OrderRow

LEMMA AnsweredKeepsCopies ==
  ASSUME IInv, NEW r \in Request, req' = [req EXCEPT ![r] = Idle]
  PROVE  RequestsKeepCopies
BY DEF IInv, TypeOK, RequestsKeepCopies, Idle

LEMMA SameHandovers == ASSUME UNCHANGED handovers PROVE HandoversGrow
BY DEF HandoversGrow

\* An answered request keeps DInv when what it wrote is true.
LEMMA AnswerTellsTruth ==
  ASSUME DInv, IInv', NEW r \in Request, req' = [req EXCEPT ![r] = Idle],
         HandoversGrow, OrdersTellTheTruth
  PROVE  DInv'
BY AnsweredKeepsCopies, TruthKeeps DEF DInv

\* Nor can a step that asks no one and answers for no one do harm.
LEMMA QuietKeeps ==
  ASSUME DInv, IInv', NEW r \in Request, req' = [req EXCEPT ![r] = Idle],
         UNCHANGED handovers,
         \A o \in Order : orders'[o].status = orders[o].status \/ orders'[o].status \notin Telling
  PROVE  DInv'
BY SameHandovers, AnswerTellsTruth DEF OrdersTellTheTruth

LEMMA LoadTellsTruth ==
  ASSUME DInv, IInv', NEW r \in Request, LoadStep(r)
  PROVE  DInv'
<1>1. /\ UNCHANGED <<orders, handovers>>
      /\ \A q \in Request \ {r} : req'[q] = req[q]
      /\ \/ req'[r].op \notin {"sync", "lines"}
         \/ \E o \in Order : req'[r].id = o /\ req'[r].row = orders[o]
  <2>0. req \in [Request -> RequestState]
    BY DEF DInv, IInv, TypeOK
  <2>2. CASE LoadReport(r) \/ LoadExit(r)
    BY <2>0, <2>2 DEF LoadReport, LoadExit, LoadRow, Load, Rows
  <2>3. CASE \E f \in Fault :
               \/ LoadAssignFault(r, f) \/ LoadUnusable(r, f)
               \/ \E op \in {"closeFault", "usable"} : LoadCloseFault(r, f, op)
    BY <2>0, <2>3 DEF LoadAssignFault, LoadUnusable, LoadCloseFault, LoadRow, Load, Rows
  <2>4. ASSUME NEW o \in Order,
               \/ LoadApprove(r, o) \/ LoadRejectByTransport(r, o)
               \/ LoadAssignTechnician(r, o) \/ LoadStart(r, o) \/ LoadCancel(r, o)
               \/ LoadSync(r, o) \/ LoadRepairable(r, o) \/ LoadNoRepair(r, o)
               \/ LoadRequestParts(r, o) \/ LoadComplete(r, o) \/ LoadAssignExternal(r, o)
               \/ LoadLines(r, o) \/ LoadInvoice(r, o)
               \/ \E op \in {"internal", "referral"} : LoadAssignWorkshop(r, o, op)
               \/ \E op \in {"driverAccept", "driverReject"} : LoadDriverDecision(r, o, op)
               \/ \E op \in {"transportApprove", "transportReject"} :
                    LoadTransportDecision(r, o, op)
        PROVE  /\ UNCHANGED <<orders, handovers>>
               /\ \A q \in Request \ {r} : req'[q] = req[q]
               /\ req'[r].id = o /\ req'[r].row = orders[o]
    <3>1. PICK op : LoadOrder(r, op, o)
      BY <2>4
         DEF LoadApprove, LoadRejectByTransport, LoadAssignTechnician, LoadStart, LoadCancel,
             LoadSync, LoadRepairable, LoadNoRepair, LoadRequestParts, LoadComplete,
             LoadAssignExternal, LoadLines, LoadInvoice, LoadAssignWorkshop,
             LoadDriverDecision, LoadTransportDecision
    <3> QED
      BY <2>0, <3>1 DEF LoadOrder, Load, Rows
  <2>5. CASE \E m \in Material : LoadReceiveParts(r, m)
    BY <2>0, <2>5 DEF LoadReceiveParts, LoadRow, Load, Rows
  <2>6. CASE \E a \in Assignment :
               \/ LoadDelivery(r, a) \/ LoadPickup(r, a) \/ LoadReview(r, a)
               \/ LoadCloseExternal(r, a) \/ LoadCancelExternal(r, a)
    BY <2>0, <2>6
       DEF LoadDelivery, LoadPickup, LoadReview, LoadCloseExternal, LoadCancelExternal,
           LoadAssignment, LoadRow, Load, Rows
  <2>7. CASE \E to \in ManualTargets : LoadManual(r, to)
    BY <2>0, <2>7 DEF LoadManual, Load, Rows
  <2> QED
    BY <2>2, <2>3, <2>4, <2>5, <2>6, <2>7 DEF LoadStep
<1>2. RequestsKeepCopies
  BY <1>1 DEF RequestsKeepCopies
<1>3. HandoversGrow /\ OrdersTellTheTruth
  BY <1>1 DEF HandoversGrow, OrdersTellTheTruth
<1> QED
  BY <1>2, <1>3, TruthKeeps

LEMMA FaultTellsTruth ==
  ASSUME DInv, IInv', NEW r \in Request, FaultStep(r)
  PROVE  DInv'
<1>0. orders \in [Order -> OrderRow]
  BY DEF DInv, IInv, TypeOK
<1>1. CASE ReportFault(r) \/ AssignFault(r)
  BY <1>1, QuietKeeps DEF ReportFault, AssignFault, Serving
<1>2. CASE CloseFault(r) \/ MarkUsable(r)
  <2>1. \A o \in Order :
          orders'[o].status = orders[o].status \/ orders'[o].status \notin Telling
    BY <1>0, <1>2, ClosedAt DEF CloseFault, MarkUsable, Telling
  <2> QED
    BY <1>2, <2>1, QuietKeeps DEF CloseFault, MarkUsable, Serving
<1>3. CASE MarkUnusable(r)
  <2>1. \A o \in Order :
          orders'[o].status = orders[o].status \/ orders'[o].status \notin Telling
    BY <1>0, <1>3 DEF MarkUnusable, Created, NoOrder, Telling
  <2> QED
    BY <1>3, <2>1, QuietKeeps DEF MarkUnusable, Serving
<1> QED
  BY <1>1, <1>2, <1>3 DEF FaultStep

LEMMA OrderTellsTruth ==
  ASSUME DInv, IInv', NEW r \in Request, OrderStep(r)
  PROVE  DInv'
<1>0. IInv /\ orders \in [Order -> OrderRow] /\ req[r].row \in OrderRow
  BY LoadedRow DEF DInv, IInv, TypeOK
<1>1. CASE \/ Approve(r) \/ AssignInternal(r) \/ AssignReferral(r) \/ AssignTechnician(r)
           \/ NoRepairUnreleased(r)
  <2>1. \A o \in Order :
          orders'[o].status = orders[o].status \/ orders'[o].status \notin Telling
    <3>1. CASE Approve(r)
      BY <1>0, <3>1 DEF Approve, OrderOnly, OrderRow, Telling
    <3>2. CASE AssignInternal(r)
      BY <1>0, <3>2 DEF AssignInternal, OrderOnly, OrderRow, Telling
    <3>3. CASE AssignReferral(r)
      BY <1>0, <3>3 DEF AssignReferral, OrderOnly, OrderRow, Telling
    <3>4. CASE AssignTechnician(r)
      BY <1>0, <3>4 DEF AssignTechnician, OrderOnly, OrderRow, Telling
    <3>5. CASE NoRepairUnreleased(r)
      BY <1>0, <3>5 DEF NoRepairUnreleased, OrderOnly, OrderRow, Telling
    <3> QED
      BY <1>1, <3>1, <3>2, <3>3, <3>4, <3>5
  <2> QED
    BY <1>1, <2>1, QuietKeeps
       DEF Approve, AssignInternal, AssignReferral, AssignTechnician, NoRepairUnreleased,
           OrderOnly, Serving
<1>2. CASE SyncRepairToSAP(r) \/ EditLines(r)
  <2>1. /\ req[r].op \in {"sync", "lines"} /\ req' = [req EXCEPT ![r] = Idle]
        /\ UNCHANGED handovers
    BY <1>2 DEF SyncRepairToSAP, EditLines, OrderOnly, Serving
  <2>2. Asks(req[r].row, handovers[req[r].id])
    BY <2>1 DEF DInv, SyncCopies
  <2>3. [req[r].row EXCEPT !.sap = TRUE].status = req[r].row.status
    BY <1>0 DEF OrderRow
  <2>4. OrdersTellTheTruth
    BY <1>0, <1>2, <2>1, <2>2, <2>3 DEF SyncRepairToSAP, EditLines, OrderOnly, OrdersTellTheTruth, Asks
  <2> QED
    BY <2>1, <2>4, SameHandovers, AnswerTellsTruth
<1>3. CASE RejectByTransport(r) \/ StartRepair(r) \/ CancelRepairOrder(r) \/ RequestParts(r)
  <2>1. PICK s \in (OpenOrder \cup Terminal) \ Telling : orders' = Saved(r, s)
    BY <1>3 DEF RejectByTransport, StartRepair, CancelRepairOrder, RequestParts,
                OpenOrder, Terminal, Telling
  <2>2. \A o \in Order :
          orders'[o].status = orders[o].status \/ orders'[o].status \notin Telling
    BY <1>0, <2>1, SavedAt
  <2> QED
    BY <1>3, <2>2, QuietKeeps
       DEF RejectByTransport, StartRepair, CancelRepairOrder, RequestParts, Serving
<1>4. CASE MarkRepairable(r)
  <2>1. [req[r].row EXCEPT !.status = "IN_PROGRESS", !.sap = TRUE].status = "IN_PROGRESS"
    BY <1>0 DEF OrderRow
  <2>2. \A o \in Order :
          orders'[o].status = orders[o].status \/ orders'[o].status \notin Telling
    BY <1>0, <1>4, <2>1 DEF MarkRepairable, Telling
  <2> QED
    BY <1>4, <2>2, QuietKeeps DEF MarkRepairable, Serving
<1>5. CASE NoRepairNeeded(r)
  <2>1. req' = [req EXCEPT ![r] = Idle]
    BY <1>5 DEF NoRepairNeeded, Serving
  <2>2. Saved(r, "NO_REPAIR_NEEDED") \in [Order -> OrderRow]
    BY <1>0, SavedOK DEF Terminal
  <2>3. ASSUME NEW o \in Order
        PROVE  orders'[o].status = orders[o].status \/ orders'[o].status \notin Telling
    <3>1. \/ Saved(r, "NO_REPAIR_NEEDED")[o].status = "NO_REPAIR_NEEDED"
          \/ Saved(r, "NO_REPAIR_NEEDED")[o] = orders[o]
      BY <1>0, SavedAt DEF Terminal
    <3>2. \/ orders'[o] = Saved(r, "NO_REPAIR_NEEDED")[o]
          \/ orders'[o].status \in {"COMPLETED", "CANCELLED"}
      BY <1>5, <2>2, ClosedAt DEF NoRepairNeeded
    <3> QED
      BY <3>1, <3>2 DEF Telling
  <2>4. OrdersTellTheTruth
    BY <2>3 DEF OrdersTellTheTruth
  <2>5. HandoversGrow
    BY <1>5 DEF NoRepairNeeded, HandoversGrow, DInv, IInv, TypeOK
  <2> QED
    BY <2>1, <2>4, <2>5, AnswerTellsTruth
<1>6. CASE ReceiveParts(r)
  <2>1. \A o \in Order :
          orders'[o].status = orders[o].status \/ orders'[o].status \notin Telling
    BY <1>0, <1>6 DEF ReceiveParts, OrderRow, Telling
  <2> QED
    BY <1>6, <2>1, QuietKeeps DEF ReceiveParts, Serving
<1> QED
  BY <1>1, <1>2, <1>3, <1>4, <1>5, <1>6 DEF OrderStep

\* The steps that ask the driver or speak for the driver write the handover with
\* the order, in one transaction.
LEMMA HandoverTellsTruth ==
  ASSUME DInv, IInv', NEW r \in Request, HandoverStep(r)
  PROVE  DInv'
<1>0. /\ IInv /\ orders \in [Order -> OrderRow] /\ req[r].row \in OrderRow
      /\ handovers \in [Order -> {"NONE", "WAITING", "ACCEPTED", "REJECTED"}]
  BY LoadedRow DEF DInv, IInv, TypeOK
<1>1. CASE CompleteRepairOrder(r)
  <2>1. HandoversGrow
    BY <1>0, <1>1 DEF CompleteRepairOrder, HandoversGrow
  <2>2. ASSUME NEW o \in Order
        PROVE  orders'[o].status = orders[o].status \/ Asks(orders'[o], handovers'[o])
    <3>1. CASE o = req[r].id
      <4>1. orders'[o].status = "WAITING_DRIVER_CONFIRMATION"
        BY <1>0, <1>1, <3>1 DEF CompleteRepairOrder, Saved, OrderRow
      <4>2. handovers'[o] # "NONE"
        BY <1>0, <1>1, <3>1 DEF CompleteRepairOrder
      <4> QED
        BY <4>1, <4>2 DEF Asks
    <3>2. CASE o # req[r].id
      BY <1>0, <1>1, <3>2 DEF CompleteRepairOrder, Saved
    <3> QED
      BY <3>1, <3>2
  <2>3. OrdersTellTheTruth
    BY <2>2 DEF OrdersTellTheTruth
  <2> QED
    BY <1>1, <2>1, <2>3, AnswerTellsTruth DEF CompleteRepairOrder, Serving
<1>2. CASE \/ DriverAcceptInternal(r) \/ DriverAcceptOther(r) \/ DriverReject(r)
           \/ DriverDecisionLate(r)
  <2>1. handovers' = Decided(r) /\ req' = [req EXCEPT ![r] = Idle]
    BY <1>2 DEF DriverAcceptInternal, DriverAcceptOther, DriverReject, DriverDecisionLate,
                Serving
  <2>2. HandoversGrow
    BY <1>0, <2>1 DEF Decided, HandoversGrow
  <2>3. ASSUME NEW o \in Order
        PROVE  \/ orders'[o].status = orders[o].status
               \/ orders'[o].status \notin Telling
               \/ Asks(orders'[o], handovers'[o])
    <3>1. CASE DriverDecisionLate(r)
      BY <3>1 DEF DriverDecisionLate
    <3>2. CASE DriverAcceptInternal(r)
      BY <1>0, <3>2, SavedAt DEF DriverAcceptInternal, Terminal, Telling
    <3>3. CASE DriverAcceptOther(r)
      <4>1. CASE o = req[r].id
        <5>1. orders'[o].status = "WAITING_TRANSPORT_FINAL_APPROVAL"
          BY <1>0, <3>3, <4>1 DEF DriverAcceptOther, Saved, OrderRow
        <5>2. handovers'[o] \in {"ACCEPTED", "REJECTED"}
          BY <1>0, <2>1, <4>1 DEF Decided
        <5> QED
          BY <5>1, <5>2 DEF Asks
      <4>2. CASE o # req[r].id
        BY <1>0, <3>3, <4>2 DEF DriverAcceptOther, Saved
      <4> QED
        BY <4>1, <4>2
    <3>4. CASE DriverReject(r)
      <4>1. PICK p \in Order :
              orders' = [Saved(r, "REJECTED_BY_DRIVER") EXCEPT ![p] = Created(req[r].row.fault)]
        BY <3>4 DEF DriverReject
      <4>2. Saved(r, "REJECTED_BY_DRIVER") \in [Order -> OrderRow]
        BY <1>0, SavedOK DEF Terminal
      <4>3. CASE o = p
        BY <4>1, <4>2, <4>3 DEF Created, NoOrder, Telling
      <4>4. CASE o # p /\ o = req[r].id
        <5>1. orders'[o].status = "REJECTED_BY_DRIVER"
          BY <1>0, <4>1, <4>4 DEF Saved, OrderRow
        <5>2. handovers'[o] \in {"ACCEPTED", "REJECTED"}
          BY <1>0, <2>1, <4>4 DEF Decided
        <5> QED
          BY <5>1, <5>2 DEF Asks
      <4>5. CASE o # p /\ o # req[r].id
        BY <1>0, <4>1, <4>2, <4>5 DEF Saved
      <4> QED
        BY <4>3, <4>4, <4>5
    <3> QED
      BY <1>2, <3>1, <3>2, <3>3, <3>4
  <2>4. OrdersTellTheTruth
    BY <2>3 DEF OrdersTellTheTruth
  <2> QED
    BY <2>1, <2>2, <2>4, AnswerTellsTruth
<1>3. CASE TransportApprove(r) \/ ApproveExternalInvoice(r)
  <2>1. \A o \in Order :
          orders'[o].status = orders[o].status \/ orders'[o].status \notin Telling
    BY <1>0, <1>3, SavedAt DEF TransportApprove, ApproveExternalInvoice, Terminal, Telling
  <2> QED
    BY <1>3, <2>1, QuietKeeps DEF TransportApprove, ApproveExternalInvoice, Serving
<1>4. CASE TransportReject(r)
  <2>1. Saved(r, "COMPLETED") \in [Order -> OrderRow]
    BY <1>0, SavedOK DEF Terminal
  <2>2. \A o \in Order :
          Saved(r, "COMPLETED")[o].status = "COMPLETED" \/ Saved(r, "COMPLETED")[o] = orders[o]
    BY <1>0, SavedAt DEF Terminal
  <2>3. \A o \in Order :
          orders'[o].status = orders[o].status \/ orders'[o].status \notin Telling
    BY <1>4, <2>1, <2>2 DEF TransportReject, Created, NoOrder, Telling
  <2> QED
    BY <1>4, <2>3, QuietKeeps DEF TransportReject, Serving
<1> QED
  BY <1>1, <1>2, <1>3, <1>4 DEF HandoverStep

LEMMA ExternalTellsTruth ==
  ASSUME DInv, IInv', NEW r \in Request, ExternalStep(r)
  PROVE  DInv'
<1>0. IInv /\ orders \in [Order -> OrderRow] /\ req[r].row \in OrderRow
  BY LoadedRow DEF DInv, IInv, TypeOK
<1>1. \A o \in Order :
        orders'[o].status = orders[o].status \/ orders'[o].status \notin Telling
  <2>1. CASE AssignExternal(r)
    BY <1>0, <2>1 DEF AssignExternal, OrderRow, Telling
  <2>2. CASE ConfirmDelivery(r) \/ ConfirmPickup(r)
    BY <1>0, <2>2, SavedAt DEF ConfirmDelivery, ConfirmPickup, OpenOrder, Telling
  <2>3. CASE ReviewExternalRepair(r)
    BY <2>3 DEF ReviewExternalRepair
  <2>4. CASE CloseExternal(r)
    BY <1>0, <2>4, SavedAt DEF CloseExternal, Terminal, Telling
  <2>5. CASE CancelExternal(r)
    BY <1>0, <2>5 DEF CancelExternal, OrderRow, Telling
  <2> QED
    BY <2>1, <2>2, <2>3, <2>4, <2>5 DEF ExternalStep
<1> QED
  BY <1>1, QuietKeeps
     DEF ExternalStep, AssignExternal, ConfirmDelivery, ConfirmPickup, ReviewExternalRepair,
         CloseExternal, CancelExternal, Serving

LEMMA NextDInv == DInv /\ [Next]_vars => DInv'
<1> SUFFICES ASSUME DInv, [Next]_vars PROVE DInv'
  OBVIOUS
<1>0. IInv'
  BY NextIInv DEF DInv
<1>1. ASSUME NEW r \in Request, RollBack(r) PROVE DInv'
  BY <1>0, <1>1, QuietKeeps DEF RollBack, Rows
<1>2. ASSUME NEW r \in Request, VehicleStep(r) PROVE DInv'
  BY <1>0, <1>2, QuietKeeps DEF VehicleStep, ManualStatus, ManualActive, ExitCenter, Serving
<1>3. ASSUME NEW r \in Request,
             LoadStep(r) \/ FaultStep(r) \/ OrderStep(r) \/ HandoverStep(r) \/ ExternalStep(r)
      PROVE  DInv'
  BY <1>0, <1>3, LoadTellsTruth, FaultTellsTruth, OrderTellsTruth, HandoverTellsTruth,
     ExternalTellsTruth
<1>4. CASE Decommission \/ UNCHANGED vars
  <2>1. UNCHANGED <<orders, handovers, req>>
    BY <1>4 DEF Decommission, vars
  <2>2. HandoversGrow /\ OrdersTellTheTruth /\ RequestsKeepCopies
    BY <2>1 DEF HandoversGrow, OrdersTellTheTruth, RequestsKeepCopies
  <2> QED
    BY <1>0, <2>2, TruthKeeps
<1> QED
  BY <1>1, <1>2, <1>3, <1>4 DEF Next

\* However many requests overlap on however many orders, with every operation
\* included, no order waits for a driver who was not asked, and none is with
\* transport or counted as rejected before the driver has answered.
THEOREM NoneWithoutDriver == Spec => []DriverWasAsked
<1>1. DInv => DriverWasAsked
  BY DEF DInv
<1> QED
  BY InitDInv, NextDInv, <1>1, PTL DEF Spec

--------------------------------------------------------------------------------
(* Requests served one at a time: the inductive invariant. *)

OneAtATime == \A q, r \in Request : q = r

\* The statuses an order may have when a handler that was asked for it goes on.
From ==
  [approve |-> {"CREATED"}, rejectByTransport |-> {"CREATED"},
   internal |-> {"APPROVED"}, referral |-> {"APPROVED"},
   technician |-> {"CREATED", "WORKSHOP_ASSIGNED"},
   start |-> {"WORKSHOP_ASSIGNED", "WAITING_WORKSHOP_CONFIRMATION", "ASSIGNED"},
   repairable |-> {"WORKSHOP_ASSIGNED", "WAITING_WORKSHOP_CONFIRMATION"},
   noRepair |-> {"WORKSHOP_ASSIGNED", "WAITING_WORKSHOP_CONFIRMATION"},
   requestParts |-> {"IN_PROGRESS"},
   complete |-> {"WAITING_EXTERNAL_REFERRAL_APPROVAL", "WORKSHOP_ASSIGNED", "IN_PROGRESS"},
   cancel |-> OpenOrder \ {"WAITING_DRIVER_CONFIRMATION"},
   sync |-> OpenOrder \cup Terminal, lines |-> Mutable,
   invoice |-> {"WAITING_EXTERNAL_ADMIN_REVIEW", "WAITING_TRANSPORT_FINAL_APPROVAL"},
   transportApprove |->
     {"IN_PROGRESS", "WAITING_EXTERNAL_ADMIN_REVIEW", "WAITING_TRANSPORT_FINAL_APPROVAL"},
   transportReject |->
     {"IN_PROGRESS", "WAITING_EXTERNAL_ADMIN_REVIEW", "WAITING_TRANSPORT_FINAL_APPROVAL"},
   assignExternal |-> {"APPROVED", "WAITING_EXTERNAL_DELIVERY"}]

\* The stage an assignment has when a handler that was asked for it goes on.
StageOf ==
  [deliver |-> "assigned", pickup |-> "delivered", review |-> "picked",
   closeExternal |-> "reviewed"]

\* What the one handler loaded is what the tables still say, and what it checked
\* still holds.
OrderCopyOK(s) ==
  /\ s.op \in DOMAIN From \cup {"driverAccept", "driverReject"} =>
       s.id \in Order /\ s.row = orders[s.id]
  /\ s.op \in DOMAIN From => s.row.status \in From[s.op]
  /\ s.op \in {"driverAccept", "driverReject"} => handovers[s.id] = "WAITING"

AssignmentCopyOK(s) ==
  /\ s.op \in DOMAIN StageOf \cup {"cancelExternal"} =>
       s.id \in Assignment /\ assignments[s.id].status = "ACTIVE"
  /\ s.op \in DOMAIN StageOf =>
       /\ s.row = orders[assignments[s.id].order]
       /\ assignments[s.id].stage = StageOf[s.op]
       /\ s.row.status = Stages[StageOf[s.op]]

OtherCopyOK(s) ==
  /\ s.op = "report" => NoOpenFlow
  /\ s.op = "unusable" => s.id \in Fault /\ faults[s.id] = "OPEN"
  /\ s.op = "assignFault" => s.id \in Fault /\ faults[s.id] = "AWAITING_TRANSPORT"

CopyOK(s) == OrderCopyOK(s) /\ AssignmentCopyOK(s) /\ OtherCopyOK(s)

CopiesOK == \A r \in Request : CopyOK(req[r])

\* Where an order is once the driver has answered, or was not needed.
Answered ==
  {"WAITING_TRANSPORT_FINAL_APPROVAL", "COMPLETED", "REJECTED_BY_DRIVER",
   "NO_REPAIR_NEEDED", "CANCELLED"}

\* HandoverMatchesOrder, PartsAreAwaited and ExternalInStep of one order; an order
\* that was answered does not come back to ask again.
HandoverOK(o) ==
  /\ handovers[o] = "WAITING" <=> orders[o].status = "WAITING_DRIVER_CONFIRMATION"
  /\ handovers[o] \in {"ACCEPTED", "REJECTED"} => orders[o].status \in Answered

PartsOK(o) ==
  orders[o].status = "WAITING_PARTS" =>
    \E m \in Material : materials[m].order = o /\ materials[m].open

\* The statuses that go with a stage of the external workshop.
Staging ==
  {"WAITING_EXTERNAL_DELIVERY", "EXTERNAL_REPAIR_IN_PROGRESS", "WAITING_EXTERNAL_ADMIN_REVIEW"}

ExternalOK(o) ==
  /\ \A a, b \in ActiveAssignments(o) : a = b
  /\ orders[o].status \in Staging =>
       \E a \in ActiveAssignments(o) : orders[o].status = Stages[assignments[a].stage]

OrderOK(o) == HandoverOK(o) /\ PartsOK(o) /\ ExternalOK(o)

OrdersOK == \A o \in Order : OrderOK(o)

LoneInv == IInv /\ CopiesOK /\ OneOpenFlow /\ OrdersOK

--------------------------------------------------------------------------------
(* The checks of the loads. *)

LEMMA Guards ==
  ASSUME NEW row \in OrderRow
  PROVE  /\ CanApprove(row) \/ CanRejectByTransport(row) => row.status = "CREATED"
         /\ CanAssignWorkshop(row) => row.status = "APPROVED"
         /\ CanAssignTechnician(row) => row.status \in From.technician
         /\ CanStart(row) => row.status \in From.start
         /\ CanDecide(row) => row.status \in From.repairable
         /\ CanComplete(row) => row.status \in From.complete
         /\ CanCancel(row) => row.status \in From.cancel
         /\ CanFinish(row) => row.status \in From.transportApprove
         /\ CanAssignExternal(row) => row.status \in From.assignExternal
         /\ row.status # "NONE" => row.status \in From.sync
<1>0. row.status \in OpenOrder \cup Terminal \cup {"NONE"}
  BY DEF OrderRow
<1>1. CanApprove(row) \/ CanRejectByTransport(row) => row.status = "CREATED"
  BY DEF CanApprove, CanRejectByTransport, CanMove, OrderMoves
<1>2. CanAssignWorkshop(row) => row.status = "APPROVED"
  BY DEF CanAssignWorkshop
<1>3. CanAssignTechnician(row) => row.status \in From.technician
  BY DEF CanAssignTechnician, CanMove, OrderMoves, From
<1>4. CanStart(row) => row.status \in From.start
  BY DEF CanStart, InWorkshopQueue, From
<1>5. CanDecide(row) => row.status \in From.repairable
  BY DEF CanDecide, InWorkshopQueue, From
<1>6. CanComplete(row) => row.status \in From.complete
  BY DEF CanComplete, CanMove, OrderMoves, From
<1>7. CanCancel(row) => row.status \in From.cancel
  <2>1. ASSUME CanCancel(row) PROVE row.status \in OpenOrder \ {"WAITING_DRIVER_CONFIRMATION"}
    BY <2>1 DEF CanCancel, CanMove, OrderMoves, OpenOrder
  <2> QED
    BY <2>1 DEF From
<1>8. CanFinish(row) => row.status \in From.transportApprove
  BY DEF CanFinish, CanMove, OrderMoves, From
<1>9. CanAssignExternal(row) => row.status \in From.assignExternal
  BY DEF CanAssignExternal, From
<1>10. row.status # "NONE" => row.status \in From.sync
  BY <1>0 DEF From
<1> QED
  BY <1>1, <1>2, <1>3, <1>4, <1>5, <1>6, <1>7, <1>8, <1>9, <1>10

--------------------------------------------------------------------------------
(* What a step may do to one order, and to the faults and orders that are open. *)

\* A status the handover, the parts and the external workshop have no part in.
Settles(s, t) ==
  /\ s \in (OpenOrder \cup {"NONE"}) \ {"WAITING_DRIVER_CONFIRMATION"}
  /\ t \notin Staging \cup {"WAITING_DRIVER_CONFIRMATION", "WAITING_PARTS"}
  /\ s = "WAITING_TRANSPORT_FINAL_APPROVAL" => t \in Answered

SameAssignments(o) == \A a \in ActiveAssignments(o) : assignments'[a] = assignments[a]

PlainOrder(o) ==
  \/ orders'[o].status = orders[o].status /\ SameAssignments(o)
  \/ Settles(orders[o].status, orders'[o].status)

\* No assignment is made or moved on.
NoneActivated ==
  \A a \in Assignment : assignments'[a].status = "ACTIVE" => assignments'[a] = assignments[a]

FaultsKept ==
  \A f \in Fault : faults'[f] \notin {"NONE", "CLOSED"} => faults[f] \notin {"NONE", "CLOSED"}

OrdersKept ==
  \A o \in Order : orders'[o].status \in OpenOrder =>
    orders[o].status \in OpenOrder /\ orders'[o].fault = orders[o].fault

LEMMA HandoverStays ==
  ASSUME NEW o \in Order, HandoverOK(o), handovers'[o] = handovers[o],
         \/ orders'[o].status = orders[o].status
         \/ /\ orders[o].status # "WAITING_DRIVER_CONFIRMATION"
            /\ orders'[o].status # "WAITING_DRIVER_CONFIRMATION"
            /\ orders[o].status \in Answered => orders'[o].status \in Answered
  PROVE  HandoverOK(o)'
BY DEF HandoverOK

LEMMA PartsStay ==
  ASSUME NEW o \in Order, PartsOK(o),
         \A m \in Material : materials[m].order = o => materials'[m] = materials[m],
         \/ orders'[o].status = orders[o].status
         \/ orders'[o].status # "WAITING_PARTS"
  PROVE  PartsOK(o)'
BY DEF PartsOK

LEMMA ExternalStays ==
  ASSUME NEW o \in Order, ExternalOK(o),
         \A a \in Assignment : assignments'[a].order = o /\ assignments'[a].status = "ACTIVE" =>
           a \in ActiveAssignments(o),
         \/ orders'[o].status = orders[o].status /\ SameAssignments(o)
         \/ orders'[o].status \notin Staging
  PROVE  ExternalOK(o)'
<1>1. \A a \in ActiveAssignments(o)' : a \in ActiveAssignments(o)
  BY DEF ActiveAssignments
<1>2. \A a, b \in ActiveAssignments(o)' : a = b
  BY <1>1 DEF ExternalOK
<1>3. ASSUME orders'[o].status \in Staging
      PROVE  \E a \in ActiveAssignments(o)' : orders'[o].status = Stages[assignments'[a].stage]
  <2>1. orders'[o].status = orders[o].status /\ SameAssignments(o)
    BY <1>3
  <2>2. PICK a \in ActiveAssignments(o) : orders[o].status = Stages[assignments[a].stage]
    BY <1>3, <2>1 DEF ExternalOK
  <2>3. assignments'[a] = assignments[a] /\ a \in Assignment
    BY <2>1 DEF SameAssignments, ActiveAssignments
  <2>4. a \in ActiveAssignments(o)'
    BY <2>3 DEF ActiveAssignments
  <2> QED
    BY <2>1, <2>2, <2>3, <2>4
<1> QED
  BY <1>2, <1>3 DEF ExternalOK

LEMMA PlainKeeps ==
  ASSUME NEW o \in Order, OrderOK(o), handovers'[o] = handovers[o],
         \A m \in Material : materials[m].order = o => materials'[m] = materials[m],
         NoneActivated, PlainOrder(o)
  PROVE  OrderOK(o)'
<1>1. HandoverOK(o)'
  BY HandoverStays DEF OrderOK, PlainOrder, Settles, Answered, OpenOrder
<1>2. PartsOK(o)'
  BY PartsStay DEF OrderOK, PlainOrder, Settles
<1>3. ExternalOK(o)'
  BY ExternalStays DEF OrderOK, PlainOrder, Settles, NoneActivated, ActiveAssignments
<1> QED
  BY <1>1, <1>2, <1>3 DEF OrderOK

\* Nothing is opened.
LEMMA FlowKeeps ==
  ASSUME OneOpenFlow, FaultsKept, OrdersKept
  PROVE  OneOpenFlow'
<1>1. \A f, g \in Fault : faults'[f] \notin {"NONE", "CLOSED"}
                          /\ faults'[g] \notin {"NONE", "CLOSED"} => f = g
  BY DEF OneOpenFlow, FaultsKept
<1>2. \A o, p \in Order : orders'[o].status \in OpenOrder
                          /\ orders'[p].status \in OpenOrder => o = p
  BY DEF OneOpenFlow, OrdersKept
<1>3. \A f \in Fault, o \in Order : faults'[f] \notin {"NONE", "CLOSED"}
                          /\ orders'[o].status \in OpenOrder => orders'[o].fault = f
  BY DEF OneOpenFlow, FaultsKept, OrdersKept
<1> QED
  BY <1>1, <1>2, <1>3 DEF OneOpenFlow

\* One order is opened, for the one fault that may be open, and no other is.
LEMMA FlowOpens ==
  ASSUME OneOpenFlow, FaultsKept, NEW new \in Order,
         \A o \in Order \ {new} : orders'[o].status \notin OpenOrder,
         \A f \in Fault : faults'[f] \notin {"NONE", "CLOSED"} => orders'[new].fault = f
  PROVE  OneOpenFlow'
<1>1. \A f, g \in Fault : faults'[f] \notin {"NONE", "CLOSED"}
                          /\ faults'[g] \notin {"NONE", "CLOSED"} => f = g
  BY DEF OneOpenFlow, FaultsKept
<1>2. \A o \in Order : orders'[o].status \in OpenOrder => o = new
  OBVIOUS
<1> QED
  BY <1>1, <1>2 DEF OneOpenFlow

\* The copies of a lone request.
LEMMA NoCopyLeft ==
  ASSUME OneAtATime, IInv, NEW r \in Request, req' = [req EXCEPT ![r] = Idle]
  PROVE  CopiesOK'
<1> SUFFICES ASSUME NEW q \in Request PROVE CopyOK(req[q])'
  BY DEF CopiesOK
<1>1. req'[q] = Idle
  BY DEF OneAtATime, IInv, TypeOK
<1>2. /\ Idle.op \notin DOMAIN From \cup DOMAIN StageOf
      /\ Idle.op \notin {"driverAccept", "driverReject", "cancelExternal", "report",
                        "unusable", "assignFault"}
  BY DEF Idle, From, StageOf
<1> QED
  BY <1>1, <1>2 DEF CopyOK, OrderCopyOK, AssignmentCopyOK, OtherCopyOK

LEMMA RowsStay ==
  ASSUME UNCHANGED <<faults, orders, handovers, assignments, materials>>
  PROVE  /\ OneOpenFlow => OneOpenFlow'
         /\ OrdersOK => OrdersOK'
         /\ \A s : CopyOK(s) => CopyOK(s)'
<1>1. OneOpenFlow => OneOpenFlow'
  BY DEF OneOpenFlow
<1>2. OrdersOK => OrdersOK'
  BY DEF OrdersOK, OrderOK, HandoverOK, PartsOK, ExternalOK, ActiveAssignments
<1>3. ASSUME NEW s, CopyOK(s) PROVE CopyOK(s)'
  BY <1>3 DEF CopyOK, OrderCopyOK, AssignmentCopyOK, OtherCopyOK, NoOpenFlow
<1> QED
  BY <1>1, <1>2, <1>3

\* A handler that leaves handovers and parts alone and touches orders plainly.
LEMMA PlainStep ==
  ASSUME OneAtATime, LoneInv, IInv', NEW r \in Request, req' = [req EXCEPT ![r] = Idle],
         UNCHANGED <<handovers, materials>>, FaultsKept, OrdersKept, NoneActivated,
         \A o \in Order : PlainOrder(o)
  PROVE  LoneInv'
<1>1. CopiesOK'
  BY NoCopyLeft DEF LoneInv
<1>2. OneOpenFlow'
  BY FlowKeeps DEF LoneInv
<1>3. OrdersOK'
  <2> SUFFICES ASSUME NEW o \in Order PROVE OrderOK(o)'
    BY DEF OrdersOK
  <2>1. OrderOK(o) /\ handovers'[o] = handovers[o]
        /\ (\A m \in Material : materials[m].order = o => materials'[m] = materials[m])
    BY DEF LoneInv, OrdersOK
  <2> QED
    BY <2>1, PlainKeeps
<1> QED
  BY <1>1, <1>2, <1>3 DEF LoneInv

\* The order a handler was asked for is the one in the table.
LEMMA Target ==
  ASSUME LoneInv, NEW r \in Request,
         req[r].op \in DOMAIN From \cup {"driverAccept", "driverReject"}
  PROVE  \E o \in Order :
           /\ req[r].id = o /\ req[r].row = orders[o] /\ orders[o] \in OrderRow /\ OrderOK(o)
           /\ req[r].op \in DOMAIN From => orders[o].status \in From[req[r].op]
           /\ req[r].op \in {"driverAccept", "driverReject"} => handovers[o] = "WAITING"
<1>1. OrderCopyOK(req[r])
  BY DEF LoneInv, CopiesOK, CopyOK
<1>2. req[r].id \in Order /\ req[r].row = orders[req[r].id]
  BY <1>1 DEF OrderCopyOK
<1>3. orders[req[r].id] \in OrderRow /\ OrderOK(req[r].id)
  BY <1>2 DEF LoneInv, IInv, TypeOK, OrdersOK
<1> QED
  BY <1>1, <1>2, <1>3 DEF OrderCopyOK

\* What a handler saves to it.
LEMMA TargetSaved ==
  ASSUME IInv, NEW r \in Request, NEW o \in Order, req[r].id = o, req[r].row = orders[o], NEW s
  PROVE  /\ Saved(r, s)[o].status = s /\ Saved(r, s)[o].fault = orders[o].fault
         /\ \A p \in Order \ {o} : Saved(r, s)[p] = orders[p]
<1>1. orders \in [Order -> OrderRow] /\ orders[o] \in OrderRow
  BY DEF IInv, TypeOK
<1> QED
  BY <1>1 DEF Saved, OrderRow

\* A handler that gives its order a plain status.
LEMMA SettledStep ==
  ASSUME OneAtATime, LoneInv, IInv', NEW r \in Request, req' = [req EXCEPT ![r] = Idle],
         req[r].op \in DOMAIN From, UNCHANGED <<handovers, materials, assignments>>, FaultsKept,
         NEW new, orders' = [orders EXCEPT ![req[r].id] = new], new.fault = req[r].row.fault,
         Settles(req[r].row.status, new.status), req[r].row.status # "NONE"
  PROVE  LoneInv'
<1>1. PICK o \in Order : req[r].id = o /\ req[r].row = orders[o]
  BY Target
<1>2. orders'[o] = new /\ \A p \in Order \ {o} : orders'[p] = orders[p]
  BY <1>1 DEF LoneInv, IInv, TypeOK
<1>3. OrdersKept
  BY <1>1, <1>2 DEF OrdersKept, Settles
<1>4. NoneActivated
  BY DEF NoneActivated
<1>5. \A p \in Order : PlainOrder(p)
  BY <1>1, <1>2 DEF PlainOrder, SameAssignments
<1> QED
  BY <1>3, <1>4, <1>5, PlainStep

--------------------------------------------------------------------------------
(* The lone request loads. *)

LEMMA LoneLoad ==
  ASSUME OneAtATime, LoneInv, IInv', NEW r \in Request, LoadStep(r)
  PROVE  LoneInv'
<1>1. ASSUME NEW op, NEW id, NEW row, NEW seen, NEW to, Load(r, op, id, row, seen, to),
             CopyOK([op |-> op, id |-> id, row |-> row, seen |-> seen, to |-> to])
      PROVE  LoneInv'
  <2> DEFINE s == [op |-> op, id |-> id, row |-> row, seen |-> seen, to |-> to]
  <2>1. UNCHANGED <<faults, orders, handovers, assignments, materials>>
    BY <1>1 DEF Load, Rows
  <2>2. \A q \in Request : req'[q] = s
    BY <1>1 DEF Load, OneAtATime, LoneInv, IInv, TypeOK
  <2> HIDE DEF s
  <2>3. CopyOK(s)'
    BY <1>1, <2>1, RowsStay DEF s
  <2>4. CopiesOK'
    BY <2>2, <2>3 DEF CopiesOK, CopyOK, OrderCopyOK, AssignmentCopyOK, OtherCopyOK
  <2> QED
    BY <2>1, <2>4, RowsStay DEF LoneInv
<1>2. ASSUME NEW op, NEW o \in Order, LoadOrder(r, op, o),
             \/ op \in DOMAIN From /\ orders[o].status \in From[op]
             \/ op \in {"driverAccept", "driverReject"} /\ handovers[o] = "WAITING"
      PROVE  LoneInv'
  <2> DEFINE s == [op |-> op, id |-> o, row |-> orders[o], seen |-> "none", to |-> "none"]
  <2>1. s.op = op /\ s.id = o /\ s.row = orders[o]
    OBVIOUS
  <2>2. Load(r, op, o, orders[o], "none", "none")
    BY <1>2 DEF LoadOrder
  <2>3. /\ op \notin DOMAIN StageOf
        /\ op \notin {"cancelExternal", "report", "unusable", "assignFault"}
        /\ op \in {"driverAccept", "driverReject"} => op \notin DOMAIN From
    BY <1>2 DEF From, StageOf
  <2> HIDE DEF s
  <2>4. CopyOK(s)
    BY <1>2, <2>1, <2>3 DEF CopyOK, OrderCopyOK, AssignmentCopyOK, OtherCopyOK
  <2> QED
    BY <1>1, <2>2, <2>4 DEF s
<1>3. ASSUME NEW op, NEW a \in Assignment, op \in DOMAIN StageOf,
             LoadAssignment(r, op, a, StageOf[op], Stages[StageOf[op]])
      PROVE  LoneInv'
  <2> DEFINE row == orders[assignments[a].order]
             s == [op |-> op, id |-> a, row |-> row, seen |-> "none", to |-> "none"]
  <2>1. s.op = op /\ s.id = a /\ s.row = row
    OBVIOUS
  <2>2. /\ Load(r, op, a, row, "none", "none") /\ row.status = Stages[StageOf[op]]
        /\ assignments[a].status = "ACTIVE" /\ assignments[a].stage = StageOf[op]
    BY <1>3 DEF LoadAssignment
  <2>3. /\ op \notin DOMAIN From
        /\ op \notin {"driverAccept", "driverReject", "report", "unusable", "assignFault"}
    BY <1>3 DEF From, StageOf
  <2> HIDE DEF s
  <2>4. CopyOK(s)
    BY <1>3, <2>1, <2>2, <2>3 DEF CopyOK, OrderCopyOK, AssignmentCopyOK, OtherCopyOK
  <2> QED
    BY <1>1, <2>2, <2>4 DEF s
<1>4. ASSUME NEW op, NEW id, NEW seen, NEW to, Load(r, op, id, NoOrder, seen, to),
             op \notin DOMAIN From \cup DOMAIN StageOf \cup {"driverAccept", "driverReject"},
             op = "cancelExternal" => id \in Assignment /\ assignments[id].status = "ACTIVE",
             op = "report" => NoOpenFlow,
             op = "unusable" => id \in Fault /\ faults[id] = "OPEN",
             op = "assignFault" => id \in Fault /\ faults[id] = "AWAITING_TRANSPORT"
      PROVE  LoneInv'
  <2> DEFINE s == [op |-> op, id |-> id, row |-> NoOrder, seen |-> seen, to |-> to]
  <2>1. s.op = op /\ s.id = id
    OBVIOUS
  <2> HIDE DEF s
  <2>2. CopyOK(s)
    BY <1>4, <2>1 DEF CopyOK, OrderCopyOK, AssignmentCopyOK, OtherCopyOK
  <2> QED
    BY <1>1, <1>4, <2>2 DEF s
<1>5. ASSUME LoadReport(r) \/ LoadExit(r) PROVE LoneInv'
  <2>1. PICK op \in {"report", "exit"} : NoOpenFlow /\ Load(r, op, 0, NoOrder, "none", "none")
    BY <1>5 DEF LoadReport, LoadExit, LoadRow
  <2>2. op \notin DOMAIN From \cup DOMAIN StageOf \cup {"driverAccept", "driverReject"}
    BY DEF From, StageOf
  <2> QED
    BY <1>4, <2>1, <2>2
<1>6. ASSUME NEW f \in Fault,
             \/ LoadAssignFault(r, f) \/ LoadUnusable(r, f)
             \/ \E op \in {"closeFault", "usable"} : LoadCloseFault(r, f, op)
      PROVE  LoneInv'
  <2>1. PICK op \in {"assignFault", "unusable", "closeFault", "usable"},
             seen \in {"none", vehicle} :
          /\ Load(r, op, f, NoOrder, seen, "none")
          /\ op = "unusable" => faults[f] = "OPEN"
          /\ op = "assignFault" => faults[f] = "AWAITING_TRANSPORT"
    BY <1>6 DEF LoadAssignFault, LoadUnusable, LoadCloseFault, LoadRow
  <2>2. op \notin DOMAIN From \cup DOMAIN StageOf \cup {"driverAccept", "driverReject"}
    BY DEF From, StageOf
  <2> QED
    BY <1>4, <2>1, <2>2
<1>7. ASSUME NEW o \in Order,
             \/ LoadApprove(r, o) \/ LoadRejectByTransport(r, o) \/ LoadAssignTechnician(r, o)
             \/ LoadStart(r, o) \/ LoadCancel(r, o) \/ LoadSync(r, o) \/ LoadRepairable(r, o)
             \/ LoadNoRepair(r, o) \/ LoadRequestParts(r, o) \/ LoadComplete(r, o)
             \/ LoadAssignExternal(r, o) \/ LoadLines(r, o) \/ LoadInvoice(r, o)
             \/ \E op \in {"internal", "referral"} : LoadAssignWorkshop(r, o, op)
             \/ \E op \in {"driverAccept", "driverReject"} : LoadDriverDecision(r, o, op)
             \/ \E op \in {"transportApprove", "transportReject"} :
                  LoadTransportDecision(r, o, op)
      PROVE  LoneInv'
  <2>0. orders[o] \in OrderRow
    BY DEF LoneInv, IInv, TypeOK
  <2>1. CASE LoadApprove(r, o)
    BY <1>2, <2>0, <2>1, Guards DEF LoadApprove, From
  <2>2. CASE LoadRejectByTransport(r, o)
    BY <1>2, <2>0, <2>2, Guards DEF LoadRejectByTransport, From
  <2>3. CASE LoadAssignTechnician(r, o)
    BY <1>2, <2>0, <2>3, Guards DEF LoadAssignTechnician, From
  <2>4. CASE LoadStart(r, o)
    BY <1>2, <2>0, <2>4, Guards DEF LoadStart, From
  <2>5. CASE LoadCancel(r, o)
    BY <1>2, <2>0, <2>5, Guards DEF LoadCancel, From
  <2>6. CASE LoadSync(r, o)
    BY <1>2, <2>0, <2>6, Guards DEF LoadSync, From
  <2>7. CASE LoadRepairable(r, o)
    BY <1>2, <2>0, <2>7, Guards DEF LoadRepairable, From
  <2>8. CASE LoadNoRepair(r, o)
    BY <1>2, <2>0, <2>8, Guards DEF LoadNoRepair, From
  <2>9. CASE LoadRequestParts(r, o)
    BY <1>2, <2>9 DEF LoadRequestParts, From
  <2>10. CASE LoadComplete(r, o)
    BY <1>2, <2>0, <2>10, Guards DEF LoadComplete, From
  <2>11. CASE LoadAssignExternal(r, o)
    BY <1>2, <2>0, <2>11, Guards DEF LoadAssignExternal, From
  <2>12. ASSUME NEW op \in {"internal", "referral"}, LoadAssignWorkshop(r, o, op)
         PROVE  LoneInv'
    BY <1>2, <2>0, <2>12, Guards DEF LoadAssignWorkshop, From
  <2>13. ASSUME NEW op \in {"driverAccept", "driverReject"}, LoadDriverDecision(r, o, op)
         PROVE  LoneInv'
    BY <1>2, <2>13 DEF LoadDriverDecision
  <2>14. ASSUME NEW op \in {"transportApprove", "transportReject"},
                LoadTransportDecision(r, o, op)
         PROVE  LoneInv'
    BY <1>2, <2>0, <2>14, Guards DEF LoadTransportDecision, From
  <2>15. CASE LoadLines(r, o)
    BY <1>2, <2>15 DEF LoadLines, From
  <2>16. CASE LoadInvoice(r, o)
    BY <1>2, <2>16 DEF LoadInvoice, From
  <2> QED
    BY <1>7, <2>1, <2>2, <2>3, <2>4, <2>5, <2>6, <2>7, <2>8, <2>9, <2>10, <2>11, <2>12, <2>13,
       <2>14, <2>15, <2>16
<1>8. ASSUME NEW m \in Material, LoadReceiveParts(r, m) PROVE LoneInv'
  <2>1. Load(r, "receiveParts", m, NoOrder, "none", "none")
    BY <1>8 DEF LoadReceiveParts, LoadRow
  <2>2. "receiveParts" \notin DOMAIN From \cup DOMAIN StageOf \cup {"driverAccept", "driverReject"}
    BY DEF From, StageOf
  <2> QED
    BY <1>4, <2>1, <2>2
<1>9. ASSUME NEW a \in Assignment,
             LoadDelivery(r, a) \/ LoadPickup(r, a) \/ LoadReview(r, a) \/ LoadCloseExternal(r, a)
      PROVE  LoneInv'
  <2>1. PICK op \in {"deliver", "pickup", "review", "closeExternal"} :
          op \in DOMAIN StageOf /\ LoadAssignment(r, op, a, StageOf[op], Stages[StageOf[op]])
    BY <1>9 DEF LoadDelivery, LoadPickup, LoadReview, LoadCloseExternal, StageOf, Stages
  <2> QED
    BY <1>3, <2>1
<1>10. ASSUME NEW a \in Assignment, LoadCancelExternal(r, a) PROVE LoneInv'
  <2>1. assignments[a].status = "ACTIVE" /\ Load(r, "cancelExternal", a, NoOrder, "none", "none")
    BY <1>10 DEF LoadCancelExternal, LoadRow
  <2>2. "cancelExternal" \notin
          DOMAIN From \cup DOMAIN StageOf \cup {"driverAccept", "driverReject"}
    BY DEF From, StageOf
  <2> QED
    BY <1>4, <2>1, <2>2
<1>11. ASSUME NEW to \in ManualTargets, LoadManual(r, to) PROVE LoneInv'
  <2>1. Load(r, "manual", 0, NoOrder, vehicle, to)
    BY <1>11 DEF LoadManual
  <2>2. "manual" \notin DOMAIN From \cup DOMAIN StageOf \cup {"driverAccept", "driverReject"}
    BY DEF From, StageOf
  <2> QED
    BY <1>4, <2>1, <2>2
<1> QED
  BY <1>5, <1>6, <1>7, <1>8, <1>9, <1>10, <1>11, Zenon DEF LoadStep

--------------------------------------------------------------------------------
(* The lone request saves: faults. *)

\* A fault is closed, or passes from one open status to another.
LEMMA FaultsOnlyClosed ==
  ASSUME IInv, NEW f,
         \/ faults' = FaultClosed(f)
         \/ \E new : faults' = [faults EXCEPT ![f] = new]
                     /\ (f \in Fault /\ new \notin {"NONE", "CLOSED"} =>
                           faults[f] \notin {"NONE", "CLOSED"})
         \/ UNCHANGED faults
  PROVE  FaultsKept
BY DEF FaultsKept, FaultClosed, IInv, TypeOK

\* Closing a fault completes and cancels orders of it, none of them with the driver,
\* in the workshop or outside.
LEMMA ClosedSettles ==
  ASSUME NEW rows \in [Order -> OrderRow], NEW f, NEW o \in Order
  PROVE  LET new == OrdersOfClosed(f, rows)[o] IN
         /\ new.fault = rows[o].fault
         /\ \/ new = rows[o]
            \/ /\ rows[o].status \in {"WAITING_TRANSPORT_FINAL_APPROVAL", "CREATED", "APPROVED"}
               /\ new.status \in {"COMPLETED", "CANCELLED"}
<1>1. rows[o] \in OrderRow
  OBVIOUS
<1> QED
  BY <1>1 DEF OrdersOfClosed, OrderRow

LEMMA LoneFault ==
  ASSUME OneAtATime, LoneInv, IInv', NEW r \in Request, FaultStep(r)
  PROVE  LoneInv'
<1>0. /\ IInv /\ orders \in [Order -> OrderRow] /\ CopyOK(req[r])
      /\ faults \in [Fault -> FaultStatus]
  BY DEF LoneInv, IInv, TypeOK, CopiesOK
<1>1. CASE ReportFault(r)
  <2>1. req[r].op = "report" /\ req' = [req EXCEPT ![r] = Idle]
        /\ UNCHANGED <<orders, handovers, assignments, materials>>
    BY <1>1 DEF ReportFault, Serving
  <2>2. NoOpenFlow
    BY <1>0, <2>1 DEF CopyOK, OtherCopyOK
  <2>3. PICK f \in Fault : faults' = [faults EXCEPT ![f] = "OPEN"]
    BY <1>1 DEF ReportFault
  <2>4. \A g \in Fault : faults'[g] \notin {"NONE", "CLOSED"} => g = f
    BY <1>0, <2>2, <2>3 DEF NoOpenFlow
  <2>5. \A o \in Order : orders'[o].status \notin OpenOrder
    BY <2>1, <2>2 DEF NoOpenFlow
  <2>6. OneOpenFlow'
    BY <2>4, <2>5 DEF OneOpenFlow
  <2>7. OrdersOK'
    BY <2>1 DEF LoneInv, OrdersOK, OrderOK, HandoverOK, PartsOK, ExternalOK, ActiveAssignments
  <2>8. CopiesOK'
    BY <1>0, <2>1, NoCopyLeft
  <2> QED
    BY <2>6, <2>7, <2>8 DEF LoneInv
<1>2. CASE AssignFault(r)
  <2>1. req[r].op = "assignFault" /\ req' = [req EXCEPT ![r] = Idle]
        /\ UNCHANGED <<orders, handovers, assignments, materials>>
    BY <1>2 DEF AssignFault, Serving
  <2>2. faults[req[r].id] = "AWAITING_TRANSPORT"
    BY <1>0, <2>1 DEF CopyOK, OtherCopyOK
  <2>3. FaultsKept
    BY <1>0, <1>2, <2>2 DEF AssignFault, FaultsKept
  <2>4. OrdersKept /\ NoneActivated /\ \A o \in Order : PlainOrder(o)
    BY <2>1 DEF OrdersKept, NoneActivated, PlainOrder, SameAssignments
  <2> QED
    BY <2>1, <2>3, <2>4, PlainStep
<1>3. CASE CloseFault(r) \/ MarkUsable(r)
  <2>1. /\ req' = [req EXCEPT ![r] = Idle] /\ faults' = FaultClosed(req[r].id)
        /\ orders' = OrdersOfClosed(req[r].id, orders)
        /\ UNCHANGED <<handovers, assignments, materials>>
    BY <1>3 DEF CloseFault, MarkUsable, Serving
  <2>2. FaultsKept
    BY <1>0, <2>1, FaultsOnlyClosed
  <2>3. \A o \in Order :
          /\ orders'[o].fault = orders[o].fault
          /\ \/ orders'[o] = orders[o]
             \/ /\ orders[o].status \in
                     {"WAITING_TRANSPORT_FINAL_APPROVAL", "CREATED", "APPROVED"}
                /\ orders'[o].status \in {"COMPLETED", "CANCELLED"}
    BY <1>0, <2>1, ClosedSettles
  <2>4. \A o \in Order : PlainOrder(o)
    BY <2>1, <2>3 DEF PlainOrder, SameAssignments, Settles, Staging, Answered, OpenOrder
  <2>5. OrdersKept /\ NoneActivated
    BY <2>1, <2>3 DEF OrdersKept, NoneActivated, OpenOrder
  <2> QED
    BY <2>1, <2>2, <2>4, <2>5, PlainStep
<1>4. CASE MarkUnusable(r)
  <2>1. /\ req[r].op = "unusable" /\ req' = [req EXCEPT ![r] = Idle]
        /\ UNCHANGED <<handovers, assignments, materials>>
    BY <1>4 DEF MarkUnusable, Serving
  <2>2. PICK f \in Fault : f = req[r].id /\ faults[f] = "OPEN"
    BY <1>0, <2>1 DEF CopyOK, OtherCopyOK
  <2>3. faults' = [faults EXCEPT ![f] = "AWAITING_TRANSPORT"]
    BY <1>4, <2>2 DEF MarkUnusable
  <2>4. FaultsKept
    BY <1>0, <2>2, <2>3 DEF FaultsKept
  <2>5. NoneActivated
    BY <2>1 DEF NoneActivated
  <2>6. CASE UNCHANGED orders
    <3>1. OrdersKept /\ \A o \in Order : PlainOrder(o)
      BY <2>1, <2>6 DEF OrdersKept, PlainOrder, SameAssignments
    <3> QED
      BY <2>1, <2>4, <2>5, <3>1, PlainStep
  <2>7. ASSUME ~HasOrderInQueue(f), NEW new \in Order, NextOrder(new),
               orders' = [orders EXCEPT ![new] = Created(f)]
        PROVE  LoneInv'
    <3>1. /\ orders'[new].status = "CREATED" /\ orders'[new].fault = f
          /\ orders[new].status = "NONE" /\ \A o \in Order \ {new} : orders'[o] = orders[o]
      BY <1>0, <2>7 DEF Created, NoOrder, NextOrder
    <3>2. ASSUME NEW o \in Order PROVE orders[o].status \notin OpenOrder
      <4>1. orders[o].status \in OpenOrder => orders[o].fault = f
        BY <2>2 DEF LoneInv, OneOpenFlow
      <4> QED
        BY <2>7, <4>1 DEF HasOrderInQueue, OpenOrder
    <3>3. \A g \in Fault : faults'[g] \notin {"NONE", "CLOSED"} => f = g
      BY <2>2, <2>4 DEF FaultsKept, LoneInv, OneOpenFlow
    <3>4. OneOpenFlow'
      BY <2>4, <3>1, <3>2, <3>3, FlowOpens DEF LoneInv
    <3>5. \A o \in Order : PlainOrder(o)
      BY <2>1, <3>1
      DEF PlainOrder, SameAssignments, Settles, Staging, Answered, OpenOrder
    <3>6. OrdersOK'
      <4> SUFFICES ASSUME NEW o \in Order PROVE OrderOK(o)'
        BY DEF OrdersOK
      <4>1. OrderOK(o) /\ handovers'[o] = handovers[o]
            /\ (\A m \in Material : materials[m].order = o => materials'[m] = materials[m])
        BY <2>1 DEF LoneInv, OrdersOK
      <4> QED
        BY <2>5, <3>5, <4>1, PlainKeeps
    <3>7. CopiesOK'
      BY <1>0, <2>1, NoCopyLeft
    <3> QED
      BY <3>4, <3>6, <3>7 DEF LoneInv
  <2> QED
    BY <1>4, <2>2, <2>6, <2>7 DEF MarkUnusable
<1> QED
  BY <1>1, <1>2, <1>3, <1>4 DEF FaultStep

--------------------------------------------------------------------------------
(* The lone request saves: the transport desk and the workshop. *)

\* Handlers that save a plain status and leave the other tables of the order alone.
LEMMA LoneSettled ==
  ASSUME OneAtATime, LoneInv, IInv', NEW r \in Request,
         \/ Approve(r) \/ RejectByTransport(r) \/ AssignInternal(r) \/ AssignReferral(r)
         \/ AssignTechnician(r) \/ StartRepair(r) \/ MarkRepairable(r)
         \/ NoRepairUnreleased(r) \/ TransportApprove(r) \/ ApproveExternalInvoice(r)
  PROVE  LoneInv'
<1>0. IInv /\ req[r].row \in OrderRow /\ faults \in [Fault -> FaultStatus]
  BY LoadedRow DEF LoneInv, IInv, TypeOK
<1> DEFINE row == req[r].row
<1>1. ASSUME req[r].op \in DOMAIN From PROVE row.status \in From[req[r].op]
  BY <1>1, Target
<1>2. CASE \/ Approve(r) \/ AssignInternal(r) \/ AssignReferral(r) \/ AssignTechnician(r)
           \/ NoRepairUnreleased(r)
  <2> DEFINE new ==
        IF Approve(r) THEN [row EXCEPT !.status = "APPROVED"]
        ELSE IF AssignInternal(r)
          THEN [row EXCEPT !.status = "WORKSHOP_ASSIGNED", !.type = "INTERNAL"]
        ELSE IF AssignReferral(r)
          THEN [row EXCEPT !.type = "EXTERNAL", !.status = "WAITING_EXTERNAL_REFERRAL_APPROVAL"]
        ELSE IF AssignTechnician(r) THEN [row EXCEPT !.status = "ASSIGNED"]
        ELSE [row EXCEPT !.status = "NO_REPAIR_NEEDED"]
  <2>1. /\ req' = [req EXCEPT ![r] = Idle]
        /\ UNCHANGED <<handovers, materials, assignments, faults>>
        /\ orders' = [orders EXCEPT ![req[r].id] = new]
        /\ req[r].op \in {"approve", "internal", "referral", "technician", "noRepair"}
    BY <1>2 DEF Approve, AssignInternal, AssignReferral, AssignTechnician, NoRepairUnreleased,
                OrderOnly, Serving
  <2>2. /\ new.fault = row.fault
        /\ new.status \in {"APPROVED", "WORKSHOP_ASSIGNED", "WAITING_EXTERNAL_REFERRAL_APPROVAL",
                          "ASSIGNED", "NO_REPAIR_NEEDED"}
    BY <1>0 DEF OrderRow
  <2>3. /\ req[r].op \in DOMAIN From
        /\ row.status \in {"CREATED", "APPROVED", "WORKSHOP_ASSIGNED",
                          "WAITING_WORKSHOP_CONFIRMATION"}
    BY <1>1, <2>1 DEF From
  <2>4. Settles(row.status, new.status)
    BY <2>2, <2>3 DEF Settles, OpenOrder, Staging
  <2>5. FaultsKept
    BY <2>1 DEF FaultsKept
  <2> HIDE DEF new
  <2> QED
    BY <2>1, <2>2, <2>3, <2>4, <2>5, SettledStep
<1>3. CASE RejectByTransport(r)
  <2> DEFINE new == [row EXCEPT !.status = "REJECTED_BY_TRANSPORT"]
  <2>1. /\ req' = [req EXCEPT ![r] = Idle] /\ req[r].op = "rejectByTransport"
        /\ UNCHANGED <<handovers, materials, assignments>>
        /\ orders' = [orders EXCEPT ![req[r].id] = new]
    BY <1>3 DEF RejectByTransport, Serving, Saved
  <2>2. FaultsKept
    BY <1>0, <1>3 DEF RejectByTransport, FaultsKept
  <2>3. new.fault = row.fault /\ new.status = "REJECTED_BY_TRANSPORT"
    BY <1>0 DEF OrderRow
  <2>4. req[r].op \in DOMAIN From /\ row.status = "CREATED"
    BY <1>1, <2>1 DEF From
  <2>5. Settles(row.status, new.status)
    BY <2>3, <2>4 DEF Settles, OpenOrder, Staging
  <2> HIDE DEF new
  <2> QED
    BY <2>1, <2>2, <2>3, <2>4, <2>5, SettledStep
<1>4. CASE StartRepair(r)
  <2> DEFINE new == [row EXCEPT !.status = "IN_PROGRESS"]
  <2>1. /\ req' = [req EXCEPT ![r] = Idle] /\ req[r].op = "start"
        /\ UNCHANGED <<handovers, materials, assignments, faults>>
        /\ orders' = [orders EXCEPT ![req[r].id] = new]
    BY <1>4 DEF StartRepair, Serving, Saved
  <2>2. FaultsKept
    BY <2>1 DEF FaultsKept
  <2>3. new.fault = row.fault /\ new.status = "IN_PROGRESS"
    BY <1>0 DEF OrderRow
  <2>4. /\ req[r].op \in DOMAIN From
        /\ row.status \in {"WORKSHOP_ASSIGNED", "WAITING_WORKSHOP_CONFIRMATION", "ASSIGNED"}
    BY <1>1, <2>1 DEF From
  <2>5. Settles(row.status, new.status)
    BY <2>3, <2>4 DEF Settles, OpenOrder, Staging
  <2> HIDE DEF new
  <2> QED
    BY <2>1, <2>2, <2>3, <2>4, <2>5, SettledStep
<1>5. CASE MarkRepairable(r)
  <2> DEFINE new == [row EXCEPT !.status = "IN_PROGRESS", !.sap = TRUE]
  <2>1. /\ req' = [req EXCEPT ![r] = Idle] /\ req[r].op = "repairable"
        /\ UNCHANGED <<handovers, materials, assignments>>
        /\ orders' = [orders EXCEPT ![req[r].id] = new]
    BY <1>5 DEF MarkRepairable, Serving
  <2>2. FaultsKept
    BY <1>0, <1>5 DEF MarkRepairable, FaultsKept
  <2>3. new.fault = row.fault /\ new.status = "IN_PROGRESS"
    BY <1>0 DEF OrderRow
  <2>4. /\ req[r].op \in DOMAIN From
        /\ row.status \in {"WORKSHOP_ASSIGNED", "WAITING_WORKSHOP_CONFIRMATION"}
    BY <1>1, <2>1 DEF From
  <2>5. Settles(row.status, new.status)
    BY <2>3, <2>4 DEF Settles, OpenOrder, Staging
  <2> HIDE DEF new
  <2> QED
    BY <2>1, <2>2, <2>3, <2>4, <2>5, SettledStep
<1>6. CASE TransportApprove(r) \/ ApproveExternalInvoice(r)
  <2> DEFINE new == [row EXCEPT !.status = "COMPLETED"]
  <2>1. /\ req' = [req EXCEPT ![r] = Idle] /\ req[r].op \in {"transportApprove", "invoice"}
        /\ UNCHANGED <<handovers, materials, assignments>>
        /\ orders' = [orders EXCEPT ![req[r].id] = new] /\ faults' = FaultClosed(row.fault)
    BY <1>6 DEF TransportApprove, ApproveExternalInvoice, Serving, Saved
  <2>2. FaultsKept
    BY <1>0, <2>1, FaultsOnlyClosed
  <2>3. new.fault = row.fault /\ new.status = "COMPLETED"
    BY <1>0 DEF OrderRow
  <2>4. /\ req[r].op \in DOMAIN From
        /\ row.status \in {"IN_PROGRESS", "WAITING_EXTERNAL_ADMIN_REVIEW",
                          "WAITING_TRANSPORT_FINAL_APPROVAL"}
    BY <1>1, <2>1 DEF From
  <2>5. Settles(row.status, new.status)
    BY <2>3, <2>4 DEF Settles, OpenOrder, Staging, Answered
  <2> HIDE DEF new
  <2> QED
    BY <2>1, <2>2, <2>3, <2>4, <2>5, SettledStep
<1> QED
  BY <1>2, <1>3, <1>4, <1>5, <1>6
\* The order keeps its status, or loses its one assignment with it.
LEMMA LoneSync ==
  ASSUME OneAtATime, LoneInv, IInv', NEW r \in Request, SyncRepairToSAP(r) \/ EditLines(r)
  PROVE  LoneInv'
<1>1. /\ req' = [req EXCEPT ![r] = Idle] /\ req[r].op \in {"sync", "lines"}
      /\ UNCHANGED <<handovers, materials, assignments, faults>>
      /\ \/ orders' = [orders EXCEPT ![req[r].id] = [req[r].row EXCEPT !.sap = TRUE]]
         \/ orders' = [orders EXCEPT ![req[r].id] = req[r].row]
  BY DEF SyncRepairToSAP, EditLines, OrderOnly, Serving
<1>2. PICK o \in Order : req[r].id = o /\ req[r].row = orders[o] /\ orders[o] \in OrderRow
  BY <1>1, Target DEF From
<1>3. /\ orders'[o].status = orders[o].status /\ orders'[o].fault = orders[o].fault
      /\ \A p \in Order \ {o} : orders'[p] = orders[p]
  BY <1>1, <1>2 DEF LoneInv, IInv, TypeOK, OrderRow
<1>4. FaultsKept /\ OrdersKept /\ NoneActivated /\ \A p \in Order : PlainOrder(p)
  BY <1>1, <1>3 DEF FaultsKept, OrdersKept, NoneActivated, PlainOrder, SameAssignments
<1> QED
  BY <1>1, <1>4, PlainStep

LEMMA LoneCancel ==
  ASSUME OneAtATime, LoneInv, IInv', NEW r \in Request, CancelRepairOrder(r)
  PROVE  LoneInv'
<1>0. IInv /\ assignments \in [Assignment -> AssignmentRow]
  BY DEF LoneInv, IInv, TypeOK
<1>1. /\ req' = [req EXCEPT ![r] = Idle] /\ req[r].op = "cancel"
      /\ UNCHANGED <<handovers, materials, faults>> /\ orders' = Saved(r, "CANCELLED")
  BY DEF CancelRepairOrder, Serving
<1>2. PICK o \in Order :
        /\ req[r].id = o /\ req[r].row = orders[o]
        /\ orders[o].status \in OpenOrder \ {"WAITING_DRIVER_CONFIRMATION"}
  BY <1>1, Target DEF From
<1>3. /\ orders'[o].status = "CANCELLED" /\ orders'[o].fault = orders[o].fault
      /\ \A p \in Order \ {o} : orders'[p] = orders[p]
  BY <1>0, <1>1, <1>2, TargetSaved
<1>4. \A a \in Assignment :
        \/ assignments'[a] = assignments[a]
        \/ assignments[a].order = o /\ assignments'[a].status = "CANCELLED"
  BY <1>0, <1>2 DEF CancelRepairOrder, AssignmentRow
<1>5. NoneActivated
  BY <1>4 DEF NoneActivated
<1>6. ASSUME NEW p \in Order PROVE PlainOrder(p)
  <2>1. CASE p = o
    BY <1>2, <1>3, <2>1 DEF PlainOrder, Settles, Staging, Answered
  <2>2. CASE p # o
    BY <1>3, <1>4, <2>2 DEF PlainOrder, SameAssignments, ActiveAssignments
  <2> QED
    BY <2>1, <2>2
<1>7. FaultsKept /\ OrdersKept
  BY <1>1, <1>2, <1>3 DEF FaultsKept, OrdersKept
<1> QED
  BY <1>1, <1>5, <1>6, <1>7, PlainStep

\* An answered handover is recorded for an order that had none to answer.
LEMMA LoneNoRepair ==
  ASSUME OneAtATime, LoneInv, IInv', NEW r \in Request, NoRepairNeeded(r)
  PROVE  LoneInv'
<1>0. IInv /\ handovers \in [Order -> {"NONE", "WAITING", "ACCEPTED", "REJECTED"}]
  BY DEF LoneInv, IInv, TypeOK
<1> DEFINE rows == Saved(r, "NO_REPAIR_NEEDED")
<1>1. /\ req' = [req EXCEPT ![r] = Idle] /\ req[r].op = "noRepair"
      /\ UNCHANGED <<assignments, materials>> /\ faults' = FaultClosed(req[r].row.fault)
      /\ orders' = OrdersOfClosed(req[r].row.fault, rows)
  BY DEF NoRepairNeeded, Serving
<1>2. PICK o \in Order :
        /\ req[r].id = o /\ req[r].row = orders[o] /\ OrderOK(o)
        /\ orders[o].status \in {"WORKSHOP_ASSIGNED", "WAITING_WORKSHOP_CONFIRMATION"}
  BY <1>1, Target DEF From
<1>3. /\ rows[o].status = "NO_REPAIR_NEEDED" /\ rows[o].fault = orders[o].fault
      /\ \A p \in Order \ {o} : rows[p] = orders[p]
  BY <1>0, <1>2, TargetSaved
<1>4. rows \in [Order -> OrderRow]
  BY <1>0, SavedOK DEF Terminal
<1> HIDE DEF rows
<1>5. \A p \in Order :
        /\ orders'[p].fault = rows[p].fault
        /\ \/ orders'[p] = rows[p]
           \/ /\ rows[p].status \in {"WAITING_TRANSPORT_FINAL_APPROVAL", "CREATED", "APPROVED"}
              /\ orders'[p].status \in {"COMPLETED", "CANCELLED"}
  BY <1>1, <1>4, ClosedSettles
<1>6. orders'[o].status = "NO_REPAIR_NEEDED"
  BY <1>3, <1>5
<1>7. \A p \in Order : handovers'[p] = handovers[p] \/ (p = o /\ handovers'[p] = "ACCEPTED")
  BY <1>0, <1>2 DEF NoRepairNeeded
<1>8. FaultsKept
  BY <1>0, <1>1, FaultsOnlyClosed
<1>9. OrdersKept
  <2> SUFFICES ASSUME NEW p \in Order, orders'[p].status \in OpenOrder
               PROVE  orders[p].status \in OpenOrder /\ orders'[p].fault = orders[p].fault
    BY DEF OrdersKept
  <2>1. p # o
    BY <1>6 DEF OpenOrder
  <2> QED
    BY <1>3, <1>5, <2>1 DEF OpenOrder
<1>10. NoneActivated /\ \A p \in Order : SameAssignments(p)
  BY <1>1 DEF NoneActivated, SameAssignments
<1>11. \A p \in Order : PlainOrder(p)
  BY <1>2, <1>3, <1>5, <1>6, <1>10 DEF PlainOrder, Settles, Staging, Answered, OpenOrder
<1>12. OrdersOK'
  <2> SUFFICES ASSUME NEW p \in Order PROVE OrderOK(p)'
    BY DEF OrdersOK
  <2>1. OrderOK(p) /\ \A m \in Material : materials[m].order = p => materials'[m] = materials[m]
    BY <1>1 DEF LoneInv, OrdersOK
  <2>2. CASE handovers'[p] = handovers[p]
    BY <1>10, <1>11, <2>1, <2>2, PlainKeeps
  <2>3. CASE p = o /\ handovers'[p] = "ACCEPTED"
    <3>1. HandoverOK(p)'
      BY <1>6, <2>3 DEF HandoverOK, Answered
    <3>2. PartsOK(p)'
      BY <1>6, <2>3 DEF PartsOK
    <3>3. ExternalOK(p)'
      BY <1>6, <1>10, <2>1, <2>3, ExternalStays
      DEF OrderOK, NoneActivated, ActiveAssignments, Staging
    <3> QED
      BY <3>1, <3>2, <3>3 DEF OrderOK
  <2> QED
    BY <1>7, <2>2, <2>3
<1>13. CopiesOK' /\ OneOpenFlow'
  BY <1>0, <1>1, <1>8, <1>9, NoCopyLeft, FlowKeeps DEF LoneInv
<1> QED
  BY <1>12, <1>13 DEF LoneInv

\* A handler that changes one order in a way of its own.
LEMMA OneOrderStep ==
  ASSUME OneAtATime, LoneInv, IInv', NEW r \in Request, req' = [req EXCEPT ![r] = Idle],
         FaultsKept, OrdersKept, NEW o \in Order, OrderOK(o)',
         \A p \in Order \ {o} :
           /\ orders'[p].status = orders[p].status /\ handovers'[p] = handovers[p]
           /\ \A m \in Material : materials[m].order = p => materials'[m] = materials[m]
           /\ SameAssignments(p)
           /\ \A a \in Assignment :
                assignments'[a].order = p /\ assignments'[a].status = "ACTIVE" =>
                  a \in ActiveAssignments(p)
  PROVE  LoneInv'
<1>1. CopiesOK' /\ OneOpenFlow'
  BY NoCopyLeft, FlowKeeps DEF LoneInv
<1>2. OrdersOK'
  <2> SUFFICES ASSUME NEW p \in Order \ {o} PROVE OrderOK(p)'
    BY DEF OrdersOK
  <2>1. HandoverOK(p) /\ PartsOK(p) /\ ExternalOK(p)
    BY DEF LoneInv, OrdersOK, OrderOK
  <2>2. HandoverOK(p)'
    BY <2>1, HandoverStays
  <2>3. PartsOK(p)'
    BY <2>1, PartsStay
  <2>4. ExternalOK(p)'
    BY <2>1, ExternalStays
  <2> QED
    BY <2>2, <2>3, <2>4 DEF OrderOK
<1> QED
  BY <1>1, <1>2 DEF LoneInv

LEMMA LoneRequestParts ==
  ASSUME OneAtATime, LoneInv, IInv', NEW r \in Request, RequestParts(r)
  PROVE  LoneInv'
<1>0. IInv /\ materials \in [Material -> MaterialRow]
  BY DEF LoneInv, IInv, TypeOK
<1>1. /\ req' = [req EXCEPT ![r] = Idle] /\ req[r].op = "requestParts"
      /\ UNCHANGED <<faults, handovers, assignments>> /\ orders' = Saved(r, "WAITING_PARTS")
  BY DEF RequestParts, Serving
<1>2. PICK o \in Order :
        /\ req[r].id = o /\ req[r].row = orders[o] /\ OrderOK(o)
        /\ orders[o].status = "IN_PROGRESS"
  BY <1>1, Target DEF From
<1>3. /\ orders'[o].status = "WAITING_PARTS" /\ orders'[o].fault = orders[o].fault
      /\ \A p \in Order \ {o} : orders'[p] = orders[p]
  BY <1>0, <1>1, <1>2, TargetSaved
<1>4. PICK m \in Material :
        materials[m].order = 0 /\ materials' = [materials EXCEPT ![m] = [order |-> o, open |-> TRUE]]
  BY <1>2 DEF RequestParts, NextMaterial
<1>5. /\ materials'[m].order = o /\ materials'[m].open
      /\ \A n \in Material \ {m} : materials'[n] = materials[n]
  BY <1>0, <1>4
<1>6. \A p \in Order : p # 0
  BY DEF Order
<1>7. HandoverOK(o)'
  BY <1>1, <1>2, <1>3, HandoverStays DEF OrderOK, Answered
<1>8. PartsOK(o)'
  BY <1>5 DEF PartsOK
<1>9. ExternalOK(o)'
  BY <1>1, <1>2, <1>3, ExternalStays DEF OrderOK, ActiveAssignments, Staging
<1>10. OrderOK(o)'
  BY <1>7, <1>8, <1>9 DEF OrderOK
<1>11. FaultsKept /\ OrdersKept
  BY <1>1, <1>2, <1>3 DEF FaultsKept, OrdersKept, OpenOrder
<1>12. \A p \in Order \ {o} :
         /\ orders'[p].status = orders[p].status /\ handovers'[p] = handovers[p]
         /\ \A n \in Material : materials[n].order = p => materials'[n] = materials[n]
         /\ SameAssignments(p)
         /\ \A a \in Assignment :
              assignments'[a].order = p /\ assignments'[a].status = "ACTIVE" =>
                a \in ActiveAssignments(p)
  BY <1>1, <1>3, <1>4, <1>5, <1>6 DEF SameAssignments, ActiveAssignments
<1> QED
  BY <1>1, <1>10, <1>11, <1>12, OneOrderStep

\* The receipt leaves the order it resumes no reason to wait, and no other order less.
LEMMA LoneReceiveParts ==
  ASSUME OneAtATime, LoneInv, IInv', NEW r \in Request, ReceiveParts(r)
  PROVE  LoneInv'
<1>0. /\ IInv /\ materials \in [Material -> MaterialRow] /\ orders \in [Order -> OrderRow]
  BY DEF LoneInv, IInv, TypeOK
<1>1. PICK m, k :
        /\ m = req[r].id /\ k = materials[m].order
        /\ materials' = [materials EXCEPT ![m].open = FALSE]
        /\ orders' = [orders EXCEPT ![k].status =
                        IF @ = "WAITING_PARTS" THEN "IN_PROGRESS" ELSE @]
  BY DEF ReceiveParts
<1>2. req' = [req EXCEPT ![r] = Idle] /\ UNCHANGED <<faults, handovers, assignments>>
  BY DEF ReceiveParts, Serving
<1>3. \A o \in Order :
        /\ orders'[o].fault = orders[o].fault
        /\ \/ orders'[o].status = orders[o].status /\ (orders[o].status = "WAITING_PARTS" => o # k)
           \/ orders[o].status = "WAITING_PARTS" /\ orders'[o].status = "IN_PROGRESS"
  BY <1>0, <1>1 DEF OrderRow
<1>4. \A n \in Material \ {m} : materials'[n] = materials[n]
  BY <1>0, <1>1
<1>5. ASSUME NEW o \in Order PROVE OrderOK(o)'
  <2>1. HandoverOK(o) /\ PartsOK(o) /\ ExternalOK(o)
    BY DEF LoneInv, OrdersOK, OrderOK
  <2>2. HandoverOK(o)'
    BY <1>2, <1>3, <2>1, HandoverStays DEF Answered
  <2>3. PartsOK(o)'
    <3> SUFFICES ASSUME orders'[o].status = "WAITING_PARTS"
                 PROVE  \E n \in Material : materials'[n].order = o /\ materials'[n].open
      BY DEF PartsOK
    <3>1. orders[o].status = "WAITING_PARTS" /\ o # k
      BY <1>3
    <3>2. PICK n \in Material : materials[n].order = o /\ materials[n].open
      BY <2>1, <3>1 DEF PartsOK
    <3>3. n # m
      BY <1>1, <3>1, <3>2
    <3> QED
      BY <1>4, <3>2, <3>3
  <2>4. ExternalOK(o)'
    BY <1>2, <1>3, <2>1, ExternalStays DEF ActiveAssignments, SameAssignments, Staging
  <2> QED
    BY <2>2, <2>3, <2>4 DEF OrderOK
<1>6. FaultsKept /\ OrdersKept
  BY <1>2, <1>3 DEF FaultsKept, OrdersKept, OpenOrder
<1>7. CopiesOK' /\ OneOpenFlow'
  BY <1>0, <1>2, <1>6, NoCopyLeft, FlowKeeps DEF LoneInv
<1> QED
  BY <1>5, <1>7 DEF LoneInv, OrdersOK

LEMMA LoneOrder ==
  ASSUME OneAtATime, LoneInv, IInv', NEW r \in Request, OrderStep(r)
  PROVE  LoneInv'
BY LoneSettled, LoneSync, LoneCancel, LoneNoRepair, LoneRequestParts, LoneReceiveParts
DEF OrderStep

--------------------------------------------------------------------------------
(* The lone request saves: completion and handover. *)

\* An order that can be completed has no handover yet.
LEMMA LoneComplete ==
  ASSUME OneAtATime, LoneInv, IInv', NEW r \in Request, CompleteRepairOrder(r)
  PROVE  LoneInv'
<1>0. IInv /\ handovers \in [Order -> {"NONE", "WAITING", "ACCEPTED", "REJECTED"}]
  BY DEF LoneInv, IInv, TypeOK
<1>1. /\ req' = [req EXCEPT ![r] = Idle] /\ req[r].op = "complete"
      /\ UNCHANGED <<faults, assignments, materials>>
      /\ orders' = Saved(r, "WAITING_DRIVER_CONFIRMATION")
  BY DEF CompleteRepairOrder, Serving
<1>2. PICK o \in Order :
        /\ req[r].id = o /\ req[r].row = orders[o] /\ OrderOK(o)
        /\ orders[o].status \in
             {"WAITING_EXTERNAL_REFERRAL_APPROVAL", "WORKSHOP_ASSIGNED", "IN_PROGRESS"}
  BY <1>1, Target DEF From
<1>3. /\ orders'[o].status = "WAITING_DRIVER_CONFIRMATION" /\ orders'[o].fault = orders[o].fault
      /\ \A p \in Order \ {o} : orders'[p] = orders[p]
  BY <1>0, <1>1, <1>2, TargetSaved
<1>4. handovers[o] = "NONE"
  BY <1>0, <1>2 DEF OrderOK, HandoverOK, Answered
<1>5. handovers'[o] = "WAITING" /\ \A p \in Order \ {o} : handovers'[p] = handovers[p]
  BY <1>0, <1>2, <1>4 DEF CompleteRepairOrder
<1>6. OrderOK(o)'
  <2>1. HandoverOK(o)'
    BY <1>3, <1>5 DEF HandoverOK
  <2>2. PartsOK(o)'
    BY <1>3 DEF PartsOK
  <2>3. ExternalOK(o)'
    BY <1>1, <1>2, <1>3, ExternalStays DEF OrderOK, ActiveAssignments, Staging
  <2> QED
    BY <2>1, <2>2, <2>3 DEF OrderOK
<1>7. FaultsKept /\ OrdersKept
  BY <1>1, <1>2, <1>3 DEF FaultsKept, OrdersKept, OpenOrder
<1>8. \A p \in Order \ {o} :
        /\ SameAssignments(p)
        /\ \A a \in Assignment :
             assignments'[a].order = p /\ assignments'[a].status = "ACTIVE" =>
               a \in ActiveAssignments(p)
  BY <1>1 DEF SameAssignments, ActiveAssignments
<1> QED
  BY <1>1, <1>3, <1>5, <1>6, <1>7, <1>8, OneOrderStep

\* What every decision of the driver has in common.
LEMMA Deciding ==
  ASSUME LoneInv, NEW r \in Request, NEW op \in {"driverAccept", "driverReject"}, Serving(r, op)
  PROVE  /\ req' = [req EXCEPT ![r] = Idle]
         /\ \E o \in Order :
              /\ req[r].id = o /\ req[r].row = orders[o] /\ OrderOK(o)
              /\ orders[o].status = "WAITING_DRIVER_CONFIRMATION"
              /\ Decided(r)[o] \in {"ACCEPTED", "REJECTED"}
              /\ \A p \in Order \ {o} : Decided(r)[p] = handovers[p]
<1>1. req[r].op = op /\ req' = [req EXCEPT ![r] = Idle]
  BY DEF Serving
<1>2. PICK o \in Order :
        req[r].id = o /\ req[r].row = orders[o] /\ OrderOK(o) /\ handovers[o] = "WAITING"
  BY <1>1, Target
<1>3. orders[o].status = "WAITING_DRIVER_CONFIRMATION"
  BY <1>2 DEF OrderOK, HandoverOK
<1>4. /\ Decided(r)[o] \in {"ACCEPTED", "REJECTED"}
      /\ \A p \in Order \ {o} : Decided(r)[p] = handovers[p]
  BY <1>2 DEF Decided, LoneInv, IInv, TypeOK
<1> QED
  BY <1>1, <1>2, <1>3, <1>4

LEMMA LoneDriverAccept ==
  ASSUME OneAtATime, LoneInv, IInv', NEW r \in Request,
         DriverAcceptInternal(r) \/ DriverAcceptOther(r)
  PROVE  LoneInv'
<1>0. IInv
  BY DEF LoneInv
<1>1. PICK s \in {"COMPLETED", "WAITING_TRANSPORT_FINAL_APPROVAL"} :
        /\ Serving(r, "driverAccept") /\ handovers' = Decided(r) /\ orders' = Saved(r, s)
        /\ faults' = FaultClosed(req[r].row.fault) \/ UNCHANGED faults
        /\ UNCHANGED <<assignments, materials>>
  BY DEF DriverAcceptInternal, DriverAcceptOther
<1>2. req' = [req EXCEPT ![r] = Idle]
  BY <1>1, Deciding
<1>3. PICK o \in Order :
        /\ req[r].id = o /\ req[r].row = orders[o] /\ OrderOK(o)
        /\ orders[o].status = "WAITING_DRIVER_CONFIRMATION"
        /\ handovers'[o] \in {"ACCEPTED", "REJECTED"}
        /\ \A p \in Order \ {o} : handovers'[p] = handovers[p]
  BY <1>1, Deciding
<1>4. /\ orders'[o].status = s /\ orders'[o].fault = orders[o].fault
      /\ \A p \in Order \ {o} : orders'[p] = orders[p]
  BY <1>0, <1>1, <1>3, TargetSaved
<1>5. OrderOK(o)'
  <2>1. HandoverOK(o)'
    BY <1>3, <1>4 DEF HandoverOK, Answered
  <2>2. PartsOK(o)'
    BY <1>4 DEF PartsOK
  <2>3. ExternalOK(o)'
    BY <1>1, <1>3, <1>4, ExternalStays DEF OrderOK, ActiveAssignments, Staging
  <2> QED
    BY <2>1, <2>2, <2>3 DEF OrderOK
<1>6. FaultsKept
  BY <1>0, <1>1, FaultsOnlyClosed
<1>7. OrdersKept
  BY <1>3, <1>4 DEF OrdersKept, OpenOrder
<1>8. \A p \in Order \ {o} :
        /\ SameAssignments(p)
        /\ \A a \in Assignment :
             assignments'[a].order = p /\ assignments'[a].status = "ACTIVE" =>
               a \in ActiveAssignments(p)
  BY <1>1 DEF SameAssignments, ActiveAssignments
<1> QED
  BY <1>1, <1>2, <1>3, <1>4, <1>5, <1>6, <1>7, <1>8, OneOrderStep

\* The order ends and a follow-up order of its fault is opened.
LEMMA FollowUp ==
  ASSUME OneAtATime, LoneInv, IInv', NEW r \in Request, req' = [req EXCEPT ![r] = Idle],
         UNCHANGED <<faults, assignments, materials>>,
         NEW o \in Order, NEW new \in Order, NEW s \in {"COMPLETED", "REJECTED_BY_DRIVER"},
         req[r].id = o, req[r].row = orders[o], orders[o].status \in OpenOrder,
         orders[new].status = "NONE",
         orders' = [Saved(r, s) EXCEPT ![new] = Created(req[r].row.fault)],
         HandoverOK(o)', \A p \in Order \ {o} : handovers'[p] = handovers[p]
  PROVE  LoneInv'
<1>0. IInv /\ o # new
  BY DEF LoneInv, OpenOrder
<1>1. /\ Saved(r, s)[o].status = s /\ \A p \in Order \ {o} : Saved(r, s)[p] = orders[p]
      /\ Saved(r, s) \in [Order -> OrderRow]
  BY <1>0, TargetSaved, SavedOK DEF Terminal
<1>2. /\ orders'[o].status = s
      /\ orders'[new].status = "CREATED" /\ orders'[new].fault = orders[o].fault
      /\ \A p \in Order \ {o, new} : orders'[p] = orders[p]
  BY <1>0, <1>1 DEF Created, NoOrder
<1>3. \A p \in Order \ {o} : orders[p].status \notin OpenOrder
  BY DEF LoneInv, OneOpenFlow
<1>4. \A p \in Order \ {new} : orders'[p].status \notin OpenOrder
  BY <1>2, <1>3 DEF OpenOrder
<1>5. FaultsKept /\ NoneActivated /\ \A p \in Order : SameAssignments(p)
  BY DEF FaultsKept, NoneActivated, SameAssignments
<1>6. \A f \in Fault : faults'[f] \notin {"NONE", "CLOSED"} => orders'[new].fault = f
  BY <1>2 DEF LoneInv, OneOpenFlow
<1>7. OneOpenFlow'
  BY <1>4, <1>5, <1>6, FlowOpens DEF LoneInv
<1>8. CopiesOK'
  BY <1>0, NoCopyLeft
<1>9. ASSUME NEW p \in Order PROVE OrderOK(p)'
  <2>1. OrderOK(p) /\ \A m \in Material : materials[m].order = p => materials'[m] = materials[m]
    BY DEF LoneInv, OrdersOK
  <2>2. CASE p # o
    <3>1. PlainOrder(p)
      BY <1>2, <1>5, <2>2 DEF PlainOrder, Settles, Staging, Answered
    <3> QED
      BY <1>5, <2>1, <2>2, <3>1, PlainKeeps
  <2>3. CASE p = o
    <3>1. PartsOK(p)'
      BY <1>2, <2>3 DEF PartsOK
    <3>2. ExternalOK(p)'
      BY <1>2, <2>1, <2>3, ExternalStays DEF OrderOK, ActiveAssignments, Staging
    <3> QED
      BY <2>3, <3>1, <3>2 DEF OrderOK
  <2> QED
    BY <2>2, <2>3
<1> QED
  BY <1>7, <1>8, <1>9 DEF LoneInv, OrdersOK

LEMMA LoneDriverReject ==
  ASSUME OneAtATime, LoneInv, IInv', NEW r \in Request, DriverReject(r)
  PROVE  LoneInv'
<1>0. IInv
  BY DEF LoneInv
<1>1. /\ Serving(r, "driverReject") /\ handovers' = Decided(r)
      /\ UNCHANGED <<faults, assignments, materials>>
  BY DEF DriverReject
<1>2. PICK new \in Order :
        /\ orders[new].status = "NONE"
        /\ orders' = [Saved(r, "REJECTED_BY_DRIVER") EXCEPT ![new] = Created(req[r].row.fault)]
  BY DEF DriverReject, NextOrder
<1>3. PICK o \in Order :
        /\ req[r].id = o /\ req[r].row = orders[o] /\ OrderOK(o)
        /\ orders[o].status = "WAITING_DRIVER_CONFIRMATION"
        /\ handovers'[o] \in {"ACCEPTED", "REJECTED"}
        /\ \A p \in Order \ {o} : handovers'[p] = handovers[p]
  BY <1>1, Deciding
<1>4. req' = [req EXCEPT ![r] = Idle]
  BY <1>1, Deciding
<1>5. orders'[o].status = "REJECTED_BY_DRIVER"
  <2>1. Saved(r, "REJECTED_BY_DRIVER")[o].status = "REJECTED_BY_DRIVER"
    BY <1>0, <1>3, TargetSaved
  <2>2. Saved(r, "REJECTED_BY_DRIVER") \in [Order -> OrderRow]
    BY <1>0, SavedOK DEF Terminal
  <2>3. o # new
    BY <1>2, <1>3
  <2> QED
    BY <1>2, <2>1, <2>2, <2>3
<1>6. HandoverOK(o)'
  BY <1>3, <1>5 DEF HandoverOK, Answered
<1>7. orders[o].status \in OpenOrder
  BY <1>3 DEF OpenOrder
<1> QED
  BY <1>1, <1>2, <1>3, <1>4, <1>6, <1>7, FollowUp

LEMMA LoneTransportReject ==
  ASSUME OneAtATime, LoneInv, IInv', NEW r \in Request, TransportReject(r)
  PROVE  LoneInv'
<1>0. IInv
  BY DEF LoneInv
<1>1. /\ req[r].op = "transportReject" /\ req' = [req EXCEPT ![r] = Idle]
      /\ UNCHANGED <<faults, handovers, assignments, materials>>
  BY DEF TransportReject, Serving
<1>2. PICK new \in Order :
        /\ orders[new].status = "NONE"
        /\ orders' = [Saved(r, "COMPLETED") EXCEPT ![new] = Created(req[r].row.fault)]
  BY DEF TransportReject, NextOrder
<1>3. PICK o \in Order :
        /\ req[r].id = o /\ req[r].row = orders[o] /\ OrderOK(o)
        /\ orders[o].status \in {"IN_PROGRESS", "WAITING_EXTERNAL_ADMIN_REVIEW",
                                 "WAITING_TRANSPORT_FINAL_APPROVAL"}
  BY <1>1, Target DEF From
<1>4. orders'[o].status = "COMPLETED"
  <2>1. Saved(r, "COMPLETED")[o].status = "COMPLETED"
    BY <1>0, <1>3, TargetSaved
  <2>2. Saved(r, "COMPLETED") \in [Order -> OrderRow]
    BY <1>0, SavedOK DEF Terminal
  <2>3. o # new
    BY <1>2, <1>3
  <2> QED
    BY <1>2, <2>1, <2>2, <2>3
<1>5. HandoverOK(o)'
  BY <1>1, <1>3, <1>4, HandoverStays DEF OrderOK, Answered
<1>6. orders[o].status \in OpenOrder
  BY <1>3 DEF OpenOrder
<1>7. \A p \in Order \ {o} : handovers'[p] = handovers[p]
  BY <1>1
<1> QED
  BY <1>1, <1>2, <1>3, <1>5, <1>6, <1>7, FollowUp

\* A lone decision is never late.
LEMMA LoneHandover ==
  ASSUME OneAtATime, LoneInv, IInv', NEW r \in Request, HandoverStep(r)
  PROVE  LoneInv'
<1>1. ~DriverDecisionLate(r)
  <2> SUFFICES ASSUME DriverDecisionLate(r) PROVE FALSE
    OBVIOUS
  <2>1. PICK op \in {"driverAccept", "driverReject"} : Serving(r, op)
    BY DEF DriverDecisionLate
  <2>2. req[r].row.status = "WAITING_DRIVER_CONFIRMATION"
    BY <2>1, Deciding
  <2> QED
    BY <2>2 DEF DriverDecisionLate
<1> QED
  BY <1>1, LoneComplete, LoneDriverAccept, LoneDriverReject, LoneTransportReject, LoneSettled
  DEF HandoverStep

--------------------------------------------------------------------------------
(* The lone request saves: the external workshop. *)

\* The new assignment is the only active one.
LEMMA LoneAssignExternal ==
  ASSUME OneAtATime, LoneInv, IInv', NEW r \in Request, AssignExternal(r)
  PROVE  LoneInv'
<1>0. /\ IInv /\ orders \in [Order -> OrderRow] /\ assignments \in [Assignment -> AssignmentRow]
      /\ ActiveHasOrder /\ \A p \in Order : p # 0
  BY DEF LoneInv, IInv, TypeOK, Order
<1>1. /\ req[r].op = "assignExternal" /\ req' = [req EXCEPT ![r] = Idle]
      /\ UNCHANGED <<faults, handovers, materials>>
  BY DEF AssignExternal, Serving
<1>2. PICK o \in Order :
        /\ req[r].id = o /\ req[r].row = orders[o] /\ orders[o] \in OrderRow /\ OrderOK(o)
        /\ orders[o].status \in {"APPROVED", "WAITING_EXTERNAL_DELIVERY"}
  BY <1>1, Target DEF From
<1>3. /\ orders'[o].status = "WAITING_EXTERNAL_DELIVERY" /\ orders'[o].fault = orders[o].fault
      /\ \A p \in Order \ {o} : orders'[p] = orders[p]
  BY <1>0, <1>2 DEF AssignExternal, OrderRow
<1>4. PICK a \in Assignment :
        /\ assignments[a].order = 0
        /\ assignments' =
             [b \in Assignment |->
                IF b = a THEN [order |-> o, status |-> "ACTIVE", stage |-> "assigned"]
                ELSE IF b \in ActiveAssignments(o)
                  THEN [assignments[b] EXCEPT !.status = "CANCELLED"]
                ELSE assignments[b]]
  BY <1>2 DEF AssignExternal, NextAssignment
<1>5. /\ assignments'[a] = [order |-> o, status |-> "ACTIVE", stage |-> "assigned"]
      /\ \A b \in ActiveAssignments(o) \ {a} : assignments'[b].status = "CANCELLED"
      /\ \A b \in Assignment \ (ActiveAssignments(o) \cup {a}) : assignments'[b] = assignments[b]
  BY <1>0, <1>4 DEF ActiveAssignments, AssignmentRow
<1>6. ExternalOK(o)'
  <2>1. a \in ActiveAssignments(o)'
    BY <1>5 DEF ActiveAssignments
  <2>2. \A b \in ActiveAssignments(o)' : b = a
    BY <1>5 DEF ActiveAssignments
  <2>3. orders'[o].status = Stages[assignments'[a].stage]
    BY <1>3, <1>5 DEF Stages
  <2> QED
    BY <2>1, <2>2, <2>3 DEF ExternalOK
<1>7. HandoverOK(o)'
  BY <1>1, <1>2, <1>3, HandoverStays DEF OrderOK, Answered
<1>8. PartsOK(o)'
  BY <1>3 DEF PartsOK
<1>9. OrderOK(o)'
  BY <1>6, <1>7, <1>8 DEF OrderOK
<1>10. FaultsKept /\ OrdersKept
  BY <1>1, <1>2, <1>3 DEF FaultsKept, OrdersKept, OpenOrder
<1>11. ASSUME NEW p \in Order \ {o}
       PROVE  /\ SameAssignments(p)
              /\ \A b \in Assignment :
                   assignments'[b].order = p /\ assignments'[b].status = "ACTIVE" =>
                     b \in ActiveAssignments(p)
  BY <1>0, <1>4, <1>5 DEF SameAssignments, ActiveAssignments
<1> QED
  BY <1>1, <1>3, <1>9, <1>10, <1>11, OneOrderStep

\* The assignment a handler was asked for is the one in the table, with its order.
LEMMA Assigned ==
  ASSUME LoneInv, NEW r \in Request, req[r].op \in DOMAIN StageOf \cup {"cancelExternal"}
  PROVE  \E a \in Assignment, o \in Order :
           /\ req[r].id = a /\ assignments[a].order = o /\ a \in ActiveAssignments(o)
           /\ OrderOK(o) /\ orders[o] \in OrderRow
           /\ req[r].op \in DOMAIN StageOf =>
                /\ req[r].row = orders[o] /\ assignments[a].stage = StageOf[req[r].op]
                /\ orders[o].status = Stages[StageOf[req[r].op]]
<1>1. AssignmentCopyOK(req[r])
  BY DEF LoneInv, CopiesOK, CopyOK
<1>2. PICK a \in Assignment : req[r].id = a /\ assignments[a].status = "ACTIVE"
  BY <1>1 DEF AssignmentCopyOK
<1>3. PICK o \in Order : assignments[a].order = o
  BY <1>2 DEF LoneInv, IInv, ActiveHasOrder
<1>4. a \in ActiveAssignments(o) /\ OrderOK(o) /\ orders[o] \in OrderRow
  BY <1>2, <1>3 DEF ActiveAssignments, LoneInv, OrdersOK, IInv, TypeOK
<1> QED
  BY <1>1, <1>2, <1>3, <1>4 DEF AssignmentCopyOK

\* An order moves on with its one active assignment.
LEMMA StageStep ==
  ASSUME OneAtATime, LoneInv, IInv', NEW r \in Request, req' = [req EXCEPT ![r] = Idle],
         UNCHANGED <<faults, handovers, materials>>,
         NEW o \in Order, NEW a \in ActiveAssignments(o), NEW to \in DOMAIN Stages,
         orders[o].status \in Staging, orders'[o].status = Stages[to],
         orders'[o].fault = orders[o].fault, \A p \in Order \ {o} : orders'[p] = orders[p],
         assignments' = [assignments EXCEPT ![a].stage = to]
  PROVE  LoneInv'
<1>0. assignments \in [Assignment -> AssignmentRow] /\ a \in Assignment /\ OrderOK(o)
  BY DEF LoneInv, IInv, TypeOK, ActiveAssignments, OrdersOK
<1>1. /\ assignments'[a].stage = to
      /\ \A b \in Assignment : assignments'[b].order = assignments[b].order
                               /\ assignments'[b].status = assignments[b].status
      /\ \A b \in Assignment \ {a} : assignments'[b] = assignments[b]
  BY <1>0 DEF AssignmentRow
<1>2. orders'[o].status \in Staging
  BY DEF Stages, Staging
<1>3. ExternalOK(o)'
  BY <1>0, <1>1 DEF OrderOK, ExternalOK, ActiveAssignments
<1>4. HandoverOK(o)'
  BY <1>0, <1>2, HandoverStays DEF OrderOK, Answered, Staging
<1>5. PartsOK(o)'
  BY <1>2 DEF PartsOK, Staging
<1>6. OrderOK(o)'
  BY <1>3, <1>4, <1>5 DEF OrderOK
<1>7. FaultsKept /\ OrdersKept
  BY DEF FaultsKept, OrdersKept, OpenOrder, Staging
<1>8. ASSUME NEW p \in Order \ {o}
      PROVE  /\ SameAssignments(p)
             /\ \A b \in Assignment :
                  assignments'[b].order = p /\ assignments'[b].status = "ACTIVE" =>
                    b \in ActiveAssignments(p)
  BY <1>1 DEF SameAssignments, ActiveAssignments
<1> QED
  BY <1>6, <1>7, <1>8, OneOrderStep

\* An order ends with its one active assignment.
LEMMA EndStep ==
  ASSUME OneAtATime, LoneInv, IInv', NEW r \in Request, req' = [req EXCEPT ![r] = Idle],
         UNCHANGED <<handovers, materials>>, FaultsKept,
         NEW o \in Order, NEW a \in ActiveAssignments(o), NEW s \in {"CANCELLED", "COMPLETED"},
         orders[o].status \in OpenOrder \ {"WAITING_DRIVER_CONFIRMATION"},
         orders' = [orders EXCEPT ![o] = [orders[o] EXCEPT !.status = s]],
         assignments' = [assignments EXCEPT ![a].status = s]
  PROVE  LoneInv'
<1>0. /\ orders \in [Order -> OrderRow] /\ assignments \in [Assignment -> AssignmentRow]
      /\ a \in Assignment /\ assignments[a].order = o
  BY DEF LoneInv, IInv, TypeOK, ActiveAssignments
<1>1. orders'[o].status = s /\ \A p \in Order \ {o} : orders'[p] = orders[p]
  BY <1>0 DEF OrderRow
<1>2. /\ assignments'[a].status = s
      /\ \A b \in Assignment \ {a} : assignments'[b] = assignments[b]
  BY <1>0 DEF AssignmentRow
<1>3. NoneActivated
  BY <1>2 DEF NoneActivated
<1>4. OrdersKept
  BY <1>1 DEF OrdersKept, OpenOrder
<1>5. ASSUME NEW p \in Order PROVE PlainOrder(p)
  <2>1. CASE p = o
    BY <1>1, <2>1 DEF PlainOrder, Settles, Staging, Answered
  <2>2. CASE p # o
    BY <1>0, <1>1, <1>2, <2>2 DEF PlainOrder, SameAssignments, ActiveAssignments
  <2> QED
    BY <2>1, <2>2
<1> QED
  BY <1>3, <1>4, <1>5, PlainStep

LEMMA LoneExternal ==
  ASSUME OneAtATime, LoneInv, IInv', NEW r \in Request, ExternalStep(r)
  PROVE  LoneInv'
<1>0. IInv /\ orders \in [Order -> OrderRow] /\ assignments \in [Assignment -> AssignmentRow]
  BY DEF LoneInv, IInv, TypeOK
<1>1. CASE ConfirmDelivery(r) \/ ConfirmPickup(r) \/ ReviewExternalRepair(r)
  <2>1. PICK op \in {"deliver", "pickup", "review"} :
          /\ req[r].op = op /\ req' = [req EXCEPT ![r] = Idle]
          /\ UNCHANGED <<faults, handovers, materials>>
          /\ \/ op = "deliver" /\ ConfirmDelivery(r)
             \/ op = "pickup" /\ ConfirmPickup(r)
             \/ op = "review" /\ ReviewExternalRepair(r)
    BY <1>1 DEF ConfirmDelivery, ConfirmPickup, ReviewExternalRepair, Serving
  <2>2. op \in DOMAIN StageOf
    BY DEF StageOf
  <2>3. PICK a \in Assignment, o \in Order :
          /\ req[r].id = a /\ assignments[a].order = o /\ a \in ActiveAssignments(o)
          /\ orders[o] \in OrderRow /\ req[r].row = orders[o]
          /\ orders[o].status = Stages[StageOf[op]]
    BY <2>1, <2>2, Assigned
  <2>4. orders[o].status \in Staging
    BY <2>3 DEF Stages, StageOf, Staging
  <2>5. PICK to \in {"delivered", "picked", "reviewed"} :
          /\ op = "deliver" => to = "delivered"
          /\ op = "pickup" => to = "picked"
          /\ op = "review" => to = "reviewed"
    OBVIOUS
  <2>6. assignments' = [assignments EXCEPT ![a].stage = to]
    BY <2>1, <2>3, <2>5 DEF ConfirmDelivery, ConfirmPickup, ReviewExternalRepair, Staged
  <2>7. /\ orders'[o].status = Stages[to] /\ orders'[o].fault = orders[o].fault
        /\ \A p \in Order \ {o} : orders'[p] = orders[p]
    <3>1. CASE op = "review"
      BY <2>1, <2>3, <2>5, <3>1 DEF ReviewExternalRepair, Stages, StageOf
    <3>2. CASE op # "review"
      <4>1. orders' = [orders EXCEPT ![o] = [orders[o] EXCEPT !.status = Stages[to]]]
        BY <2>1, <2>3, <2>5, <3>2 DEF ConfirmDelivery, ConfirmPickup, SavedOf, Stages
      <4> QED
        BY <1>0, <2>3, <4>1 DEF OrderRow
    <3> QED
      BY <3>1, <3>2
  <2>8. to \in DOMAIN Stages
    BY DEF Stages
  <2> QED
    BY <2>1, <2>3, <2>4, <2>6, <2>7, <2>8, StageStep
<1>2. CASE CloseExternal(r)
  <2>1. /\ req[r].op = "closeExternal" /\ req' = [req EXCEPT ![r] = Idle]
        /\ UNCHANGED <<handovers, materials>> /\ faults' = FaultClosed(req[r].row.fault)
    BY <1>2 DEF CloseExternal, Serving
  <2>2. "closeExternal" \in DOMAIN StageOf
    BY DEF StageOf
  <2>3. PICK a \in Assignment, o \in Order :
          /\ req[r].id = a /\ assignments[a].order = o /\ a \in ActiveAssignments(o)
          /\ req[r].row = orders[o] /\ orders[o].status = Stages[StageOf["closeExternal"]]
    BY <2>1, <2>2, Assigned
  <2>4. orders[o].status \in OpenOrder \ {"WAITING_DRIVER_CONFIRMATION"}
    BY <2>3 DEF Stages, StageOf, OpenOrder
  <2>5. /\ orders' = [orders EXCEPT ![o] = [orders[o] EXCEPT !.status = "COMPLETED"]]
        /\ assignments' = [assignments EXCEPT ![a].status = "COMPLETED"]
    BY <1>2, <2>3 DEF CloseExternal, SavedOf
  <2>6. FaultsKept
    BY <1>0, <2>1, FaultsOnlyClosed
  <2> QED
    BY <2>1, <2>3, <2>4, <2>5, <2>6, EndStep
<1>3. CASE CancelExternal(r)
  <2>1. /\ req[r].op = "cancelExternal" /\ req' = [req EXCEPT ![r] = Idle]
        /\ UNCHANGED <<faults, handovers, materials>>
    BY <1>3 DEF CancelExternal, Serving
  <2>2. PICK a \in Assignment, o \in Order :
          /\ req[r].id = a /\ assignments[a].order = o /\ a \in ActiveAssignments(o)
          /\ orders[o] \in OrderRow
    BY <2>1, Assigned
  <2>3. orders[o].status \in OpenOrder \ {"WAITING_DRIVER_CONFIRMATION"}
    BY <1>3, <2>2, Guards DEF CancelExternal, From
  <2>4. /\ orders' = [orders EXCEPT ![o] = [orders[o] EXCEPT !.status = "CANCELLED"]]
        /\ assignments' = [assignments EXCEPT ![a].status = "CANCELLED"]
    BY <1>3, <2>2 DEF CancelExternal
  <2>5. FaultsKept
    BY <2>1 DEF FaultsKept
  <2> QED
    BY <2>1, <2>2, <2>3, <2>4, <2>5, EndStep
<1> QED
  BY <1>1, <1>2, <1>3, LoneAssignExternal DEF ExternalStep

--------------------------------------------------------------------------------
(* Requests served one at a time: the theorems. *)

\* The vehicle's own handlers and a roll-back leave the orders alone.
LEMMA LoneVehicle ==
  ASSUME OneAtATime, LoneInv, IInv', NEW r \in Request, VehicleStep(r) \/ RollBack(r)
  PROVE  LoneInv'
<1>1. /\ req' = [req EXCEPT ![r] = Idle]
      /\ UNCHANGED <<orders, handovers, assignments, materials>>
  BY DEF VehicleStep, ManualStatus, ManualActive, ExitCenter, RollBack, Rows, Serving
<1>2. FaultsKept
  BY DEF VehicleStep, ManualStatus, ManualActive, ExitCenter, RollBack, Rows, FaultsKept
<1>3. OrdersKept /\ NoneActivated /\ \A o \in Order : PlainOrder(o)
  BY <1>1 DEF OrdersKept, NoneActivated, PlainOrder, SameAssignments
<1> QED
  BY <1>1, <1>2, <1>3, PlainStep

LEMMA InitLone == Init => LoneInv
<1> SUFFICES ASSUME Init PROVE LoneInv
  OBVIOUS
<1>1. CopiesOK
  <2>1. /\ Idle.op \notin DOMAIN From \cup DOMAIN StageOf
        /\ Idle.op \notin {"driverAccept", "driverReject", "cancelExternal", "report",
                          "unusable", "assignFault"}
    BY DEF Idle, From, StageOf
  <2> QED
    BY <2>1 DEF Init, CopiesOK, CopyOK, OrderCopyOK, AssignmentCopyOK, OtherCopyOK
<1>2. OneOpenFlow
  BY DEF Init, OneOpenFlow, NoOrder, OpenOrder
<1>3. OrdersOK
  BY DEF Init, OrdersOK, OrderOK, HandoverOK, PartsOK, ExternalOK, ActiveAssignments,
         NoOrder, NoAssignment, Staging
<1> QED
  BY <1>1, <1>2, <1>3, InitIInv DEF LoneInv

LEMMA NextLone ==
  ASSUME OneAtATime
  PROVE  LoneInv /\ [Next]_vars => LoneInv'
<1> SUFFICES ASSUME LoneInv, [Next]_vars PROVE LoneInv'
  OBVIOUS
<1>0. IInv'
  BY NextIInv DEF LoneInv
<1>1. ASSUME NEW r \in Request,
             \/ LoadStep(r) \/ RollBack(r) \/ FaultStep(r) \/ OrderStep(r)
             \/ HandoverStep(r) \/ ExternalStep(r) \/ VehicleStep(r)
      PROVE  LoneInv'
  BY <1>0, <1>1, LoneLoad, LoneFault, LoneOrder, LoneHandover, LoneExternal, LoneVehicle
<1>2. CASE Decommission \/ UNCHANGED vars
  <2>1. UNCHANGED <<faults, orders, handovers, assignments, materials, req>>
    BY <1>2 DEF Decommission, vars
  <2>2. CopiesOK'
    BY <2>1, RowsStay
    DEF LoneInv, CopiesOK, CopyOK, OrderCopyOK, AssignmentCopyOK, OtherCopyOK, NoOpenFlow
  <2> QED
    BY <1>0, <2>1, <2>2, RowsStay DEF LoneInv
<1> QED
  BY <1>1, <1>2 DEF Next

\* What the invariant says of every order.
LEMMA LoneOrders ==
  ASSUME LoneInv
  PROVE  OneOpenFlow /\ HandoverMatchesOrder /\ PartsAreAwaited /\ ExternalInStep
<1>1. \A o \in Order, s \in DOMAIN Stages : orders[o].status = Stages[s] =>
        orders[o].status \in Staging
  BY DEF Stages, Staging
<1> QED
  BY <1>1 DEF LoneInv, OrdersOK, OrderOK, HandoverOK, PartsOK, ExternalOK,
              HandoverMatchesOrder, PartsAreAwaited, ExternalInStep

\* While requests do not overlap the one-open-flow rule holds for the life of the
\* vehicle: at most one fault and one order are open, and the order is the fault's,
\* through rejections, follow-up orders and faults closed under a running order,
\* whatever handlers fail or roll back and however many rows were ever made.
THEOREM OneFlowHolds ==
  ASSUME OneAtATime
  PROVE  Spec => []OneOpenFlow
<1>1. LoneInv => OneOpenFlow
  BY LoneOrders
<1>2. LoneInv /\ [Next]_vars => LoneInv'
  BY NextLone
<1> QED
  BY InitLone, <1>1, <1>2, PTL DEF Spec

\* While requests do not overlap a handover waits for the driver exactly while its
\* order does: completing the order opens it, and the decision answers both.
THEOREM HandoverMatchesHolds ==
  ASSUME OneAtATime
  PROVE  Spec => []HandoverMatchesOrder
<1>1. LoneInv => HandoverMatchesOrder
  BY LoneOrders
<1>2. LoneInv /\ [Next]_vars => LoneInv'
  BY NextLone
<1> QED
  BY InitLone, <1>1, <1>2, PTL DEF Spec

\* While requests do not overlap an order pauses for parts only as long as a material
\* request of it is outstanding, so the receipt that would resume it is still to come.
THEOREM PartsAwaitedHolds ==
  ASSUME OneAtATime
  PROVE  Spec => []PartsAreAwaited
<1>1. LoneInv => PartsAreAwaited
  BY LoneOrders
<1>2. LoneInv /\ [Next]_vars => LoneInv'
  BY NextLone
<1> QED
  BY InitLone, <1>1, <1>2, PTL DEF Spec

\* While requests do not overlap an order at an external workshop has one active
\* assignment, as far along as the order's status says, through re-assignments and
\* the cancellations of the order and of the assignment.
THEOREM ExternalInStepHolds ==
  ASSUME OneAtATime
  PROVE  Spec => []ExternalInStep
<1>1. LoneInv => ExternalInStep
  BY LoneOrders
<1>2. LoneInv /\ [Next]_vars => LoneInv'
  BY NextLone
<1> QED
  BY InitLone, <1>1, <1>2, PTL DEF Spec

================================================================================
