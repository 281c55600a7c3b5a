------------------------------- MODULE Checklist -------------------------------
(***************************************************************************)
(* Checklists of vehicles: drivers fill and submit them, report what       *)
(* failed as a fault, and leave the center with a vehicle on the strength  *)
(* of one.  A handler loads an aggregate and checks it (Load...), then     *)
(* saves the whole copy; the vehicle, its open faults and its drivers move *)
(* in between.  What becomes of a fault is the subject of                  *)
(* MaintenanceWorkflow, where drivers come from that of FleetSync.  A      *)
(* fault may also be reported by hand, with whatever checklist the client  *)
(* names.                                                                  *)
(***************************************************************************)
EXTENDS Naturals, FiniteSets

CONSTANTS
  Vehicle,     \* vehicles
  Driver,      \* drivers
  Inspection,  \* identifiers of checklists
  Item,        \* checklist items a client may send
  Failing,     \* those with the result FAIL
  Day,         \* days
  Request,     \* HTTP requests being served at the same time
  NoChecklist, \* a fault that names no checklist
  MaxFaults,   \* bound: faults
  MaxOverlaps, \* bound: times that something happens while a handler is at work
  MaxEvents    \* bound: what happens to the vehicles elsewhere

ASSUME ChecklistAssumption ==
  /\ Vehicle # {} /\ Inspection # {} /\ Failing \subseteq Item
  /\ NoChecklist \notin Inspection /\ IsFiniteSet(Request)
  /\ Day \subseteq Nat /\ 1 \in Day
  /\ MaxFaults \in Nat /\ MaxOverlaps \in Nat /\ MaxEvents \in Nat

FaultId == 1 .. MaxFaults

VARIABLES
  vehicles,     \* the vehicle rows
  inspections,  \* the inspection rows with their items
  faults,       \* the fault rows, in the order they were saved
  today,        \* the day it is
  req,          \* what every HTTP request has loaded
  overlaps,     \* history: how often something happened while a handler was at work
  events        \* counter for the bound

vars == <<vehicles, inspections, faults, today, req, overlaps, events>>

\* OUT_OF_SERVICE stands for every status but these two.
VehicleRow ==
  [status : {"ACTIVE", "EXITED_CENTER", "OUT_OF_SERVICE"}, drivers : SUBSET Driver]

\* Nothing calls approve, reject or reopen.  day: inspected_at, which the client sends.
InspectionRow ==
  [status : {"NONE", "DRAFT", "SUBMITTED"}, vehicle : Vehicle, day : Day,
   items : SUBSET Item]

NoInspection ==
  [status |-> "NONE", vehicle |-> CHOOSE v \in Vehicle : TRUE, day |-> 1, items |-> {}]

\* OPEN stands for every status but CLOSED.  checklist: inspection_id; by: the handler
\* that made it; items: those that point at items of the checklist.
FaultRow ==
  [status : {"NONE", "OPEN", "CLOSED"}, by : {"report", "hand"}, vehicle : Vehicle,
   checklist : Inspection \cup {NoChecklist}, items : SUBSET Item]

NoFault ==
  [status |-> "NONE", by |-> "hand", vehicle |-> CHOOSE v \in Vehicle : TRUE,
   checklist |-> NoChecklist, items |-> {}]

\* id, copy: the checklist loaded, or named; vehicle, row: the vehicle, and its copy for
\* an exit.
RequestState ==
  [op : {"idle", "add", "submit", "report", "hand", "exit"},
   id : Inspection \cup {NoChecklist}, copy : InspectionRow, item : SUBSET Item,
   vehicle : Vehicle, row : VehicleRow]

Idle ==
  [op |-> "idle", id |-> NoChecklist, copy |-> NoInspection,
   item |-> {}, vehicle |-> NoInspection.vehicle,
   row |-> [status |-> "ACTIVE", drivers |-> {}]]

TypeOK ==
  /\ vehicles \in [Vehicle -> VehicleRow]
  /\ inspections \in [Inspection -> InspectionRow]
  /\ faults \in [FaultId -> FaultRow]
  /\ today \in Day
  /\ req \in [Request -> RequestState]
  /\ overlaps \in 0 .. MaxOverlaps
  /\ events \in 0 .. MaxEvents

Init ==
  /\ vehicles = [v \in Vehicle |-> [status |-> "ACTIVE", drivers |-> Driver]]
  /\ inspections = [i \in Inspection |-> NoInspection]
  /\ faults = [f \in FaultId |-> NoFault]
  /\ today = 1
  /\ req = [r \in Request |-> Idle]
  /\ overlaps = 0
  /\ events = 0

--------------------------------------------------------------------------------
(* Helpers. *)

\* assert_vehicle_has_no_open_flow; an open repair order has an open fault.
OpenFlow(v) == \E f \in FaultId : faults[f].status = "OPEN" /\ faults[f].vehicle = v

\* list_by_inspection: whoever reported them.
Reported(i) == {f \in FaultId : faults[f].status # "NONE" /\ faults[f].checklist = i}

FromReport(i) == {f \in Reported(i) : faults[f].by = "report"}

\* assert_vehicle_is_operational_for_checklist.
IsOperational(v) == vehicles[v].status = "ACTIVE"

\* resolve_driver_actor_for_checklist: the other roles are not restricted.
MayFill(v, role, d) == role = "DRIVER" => d \in vehicles[v].drivers

FailedItems(copy) == copy.items \cap Failing

Busy == {r \in Request : req[r].op # "idle"}

NoteOverlap ==
  \/ Busy = {} /\ overlaps' = overlaps
  \/ Busy # {} /\ overlaps < MaxOverlaps /\ overlaps' = overlaps + 1

Enter(r, state) ==
  /\ req[r].op = "idle"
  /\ req' = [req EXCEPT ![r] = state]
  /\ NoteOverlap

Leave(r) == req' = [req EXCEPT ![r] = Idle]

\* Something happens outside while handlers are being served.
Meanwhile ==
  /\ events < MaxEvents
  /\ events' = events + 1
  /\ NoteOverlap

\* A new fault is saved; uuid4 is fresh.
NewFault(row) ==
  \E f \in FaultId :
    /\ faults[f].status = "NONE"
    /\ \A g \in 1 .. f - 1 : faults[g].status # "NONE"
    /\ faults' = [faults EXCEPT ![f] = row]

\* Mutated form: the exit looks only at the checklist.
MayLeaveUnclear(v, d, i) ==
  /\ d \in vehicles[v].drivers
  /\ inspections[i].vehicle = v /\ inspections[i].status = "SUBMITTED"
  /\ vehicles[v].status = "ACTIVE"

\* DriverExitCenter: assignment, checklist, open flow and status.
MayLeave(v, d, i) ==
  /\ d \in vehicles[v].drivers
  /\ inspections[i].vehicle = v /\ inspections[i].status = "SUBMITTED"
  /\ ~OpenFlow(v)
  /\ vehicles[v].status = "ACTIVE"

\* Mutated form: a checklist may be reported as often as its vehicle is free.
MayReportAgain(i) ==
  /\ inspections[i].status = "SUBMITTED"
  /\ FailedItems(inspections[i]) # {}
  /\ ~OpenFlow(inspections[i].vehicle)

\* ReportInspectionFault: not a draft, something failed, nothing reported, no flow.
MayReport(i) ==
  /\ inspections[i].status = "SUBMITTED"
  /\ FailedItems(inspections[i]) # {}
  /\ Reported(i) = {}
  /\ ~OpenFlow(inspections[i].vehicle)

MaySubmit(i) ==
  /\ inspections[i].status = "DRAFT" /\ inspections[i].items # {}
  /\ IsOperational(inspections[i].vehicle)

--------------------------------------------------------------------------------
(* Mutated forms of the actions below. *)

\* The item goes to a submitted checklist as well.
LoadAddToAny(r, i, item) ==
  /\ inspections[i].status # "NONE"
  /\ item \notin inspections[i].items
  /\ Enter(r, [Idle EXCEPT !.op = "add", !.id = i, !.item = {item},
                           !.copy = inspections[i]])
  /\ UNCHANGED <<vehicles, inspections, faults, today, events>>

\* The checklist goes back to a draft when its fault is reported.
ReportFaultReopens(r) ==
  LET q == req[r] IN
  /\ q.op = "report"
  /\ NewFault([status |-> "OPEN", by |-> "report", vehicle |-> q.copy.vehicle,
               checklist |-> q.id, items |-> FailedItems(q.copy)])
  /\ inspections' = [inspections EXCEPT ![q.id].status = "REJECTED"]
  /\ Leave(r)
  /\ UNCHANGED <<vehicles, today, overlaps, events>>

--------------------------------------------------------------------------------
(* Filling a checklist. *)

\* Nothing it saves depends on what may change in between.  day: inspected_at, which a
\* client is taken to send truthfully.
CreateInspection(r, i, v, role, d, day, items) ==
  /\ req[r].op = "idle"
  /\ inspections[i].status = "NONE"
  /\ IsOperational(v) /\ MayFill(v, role, d)
  /\ inspections' = [inspections EXCEPT ![i] =
       [status |-> "DRAFT", vehicle |-> v, day |-> day, items |-> items]]
  /\ NoteOverlap
  /\ UNCHANGED <<vehicles, faults, today, req, events>>

\* add_item of the entity; the status of the vehicle is not looked at.
LoadAdd(r, i, item) ==
  /\ inspections[i].status = "DRAFT"
  /\ item \notin inspections[i].items
  /\ Enter(r, [Idle EXCEPT !.op = "add", !.id = i, !.item = {item},
                           !.copy = inspections[i]])
  /\ UNCHANGED <<vehicles, inspections, faults, today, events>>

\* The repository writes the header and replaces all items by the copy's.
AddItem(r) ==
  LET q == req[r] IN
  /\ q.op = "add"
  /\ inspections' = [inspections EXCEPT ![q.id] =
                       [q.copy EXCEPT !.items = @ \cup q.item]]
  /\ Leave(r)
  /\ UNCHANGED <<vehicles, faults, today, overlaps, events>>

LoadSubmit(r, i) ==
  /\ MaySubmit(i)
  /\ Enter(r, [Idle EXCEPT !.op = "submit", !.id = i, !.copy = inspections[i]])
  /\ UNCHANGED <<vehicles, inspections, faults, today, events>>

Submit(r) ==
  LET q == req[r] IN
  /\ q.op = "submit"
  /\ inspections' = [inspections EXCEPT ![q.id] = [q.copy EXCEPT !.status = "SUBMITTED"]]
  /\ Leave(r)
  /\ UNCHANGED <<vehicles, faults, today, overlaps, events>>

--------------------------------------------------------------------------------
(* Reporting what failed. *)

\* The checks, and a new fault in memory.
LoadReport(r, i) ==
  /\ MayReport(i)
  /\ Enter(r, [Idle EXCEPT !.op = "report", !.id = i, !.copy = inspections[i]])
  /\ UNCHANGED <<vehicles, inspections, faults, today, events>>

\* The fault is saved whether SAP creates the notification or refuses it; the
\* notification and the measurement are the subject of SAPTransactions.
ReportFault(r) ==
  LET q == req[r] IN
  /\ q.op = "report"
  /\ NewFault([status |-> "OPEN", by |-> "report", vehicle |-> q.copy.vehicle,
               checklist |-> q.id, items |-> FailedItems(q.copy)])
  /\ Leave(r)
  /\ UNCHANGED <<vehicles, inspections, today, overlaps, events>>

\* POST /faults for any vehicle without an open flow.  The checklist it names is not
\* looked at: it may be a draft, another vehicle's, or one that has its fault.
LoadByHand(r, v, i) ==
  /\ i # NoChecklist => inspections[i].status # "NONE"
  /\ ~OpenFlow(v)
  /\ Enter(r, [Idle EXCEPT !.op = "hand", !.id = i, !.vehicle = v])
  /\ UNCHANGED <<vehicles, inspections, faults, today, events>>

ReportByHand(r) ==
  LET q == req[r] IN
  /\ q.op = "hand"
  /\ NewFault([status |-> "OPEN", by |-> "hand", vehicle |-> q.vehicle,
               checklist |-> q.id, items |-> {}])
  /\ Leave(r)
  /\ UNCHANGED <<vehicles, inspections, today, overlaps, events>>

--------------------------------------------------------------------------------
(* Leaving the center. *)

LoadExit(r, v, d, i) ==
  /\ MayLeave(v, d, i)
  /\ Enter(r, [Idle EXCEPT !.op = "exit", !.id = i, !.vehicle = v, !.row = vehicles[v]])
  /\ UNCHANGED <<vehicles, inspections, faults, today, events>>

\* The whole vehicle row is saved.
ExitCenter(r) ==
  LET q == req[r] IN
  /\ q.op = "exit"
  /\ vehicles' = [vehicles EXCEPT ![q.vehicle] = [q.row EXCEPT !.status = "EXITED_CENTER"]]
  /\ Leave(r)
  /\ UNCHANGED <<inspections, faults, today, overlaps, events>>

\* Any handler: an error before its save.
RollBack(r) ==
  /\ req[r].op # "idle"
  /\ Leave(r)
  /\ UNCHANGED <<vehicles, inspections, faults, today, overlaps, events>>

--------------------------------------------------------------------------------
(* What happens elsewhere. *)

\* ChangeVehicleStatus: back to ACTIVE only without an open flow.
ChangeVehicleStatus(v, status) ==
  /\ Meanwhile
  /\ vehicles[v].status # status
  /\ status = "ACTIVE" => ~OpenFlow(v)
  /\ vehicles' = [vehicles EXCEPT ![v].status = status]
  /\ UNCHANGED <<inspections, faults, today, req>>

\* The fleet sync gives the vehicle other drivers.
ReassignDrivers(v, ds) ==
  /\ Meanwhile
  /\ ds # vehicles[v].drivers
  /\ vehicles' = [vehicles EXCEPT ![v].drivers = ds]
  /\ UNCHANGED <<inspections, faults, today, req>>

\* The maintenance workflow is done with a fault.
CloseFault(f) ==
  /\ Meanwhile
  /\ faults[f].status = "OPEN"
  /\ faults' = [faults EXCEPT ![f].status = "CLOSED"]
  /\ UNCHANGED <<vehicles, inspections, today, req>>

DayPasses ==
  /\ Meanwhile
  /\ today + 1 \in Day
  /\ today' = today + 1
  /\ UNCHANGED <<vehicles, inspections, faults, req>>

--------------------------------------------------------------------------------

FillStep(r) ==
  \/ \E i \in Inspection, v \in Vehicle, role \in {"DRIVER", "OTHER"}, d \in Driver,
        items \in SUBSET Item :
       CreateInspection(r, i, v, role, d, today, items)
  \/ \E i \in Inspection, item \in Item : LoadAdd(r, i, item)
  \/ \E i \in Inspection : LoadSubmit(r, i)
  \/ AddItem(r) \/ Submit(r)

UseStep(r) ==
  \/ \E i \in Inspection : LoadReport(r, i)
  \/ \E v \in Vehicle, i \in Inspection \cup {NoChecklist} : LoadByHand(r, v, i)
  \/ ReportFault(r) \/ ReportByHand(r)
  \/ \E v \in Vehicle, d \in Driver, i \in Inspection : LoadExit(r, v, d, i)
  \/ ExitCenter(r)
  \/ RollBack(r)

Elsewhere ==
  \/ \E v \in Vehicle, status \in {"ACTIVE", "OUT_OF_SERVICE"} :
       ChangeVehicleStatus(v, status)
  \/ \E v \in Vehicle, ds \in SUBSET Driver : ReassignDrivers(v, ds)
  \/ \E f \in FaultId : CloseFault(f)
  \/ DayPasses

Next == (\E r \in Request : FillStep(r) \/ UseStep(r)) \/ Elsewhere

Spec == Init /\ [][Next]_vars

--------------------------------------------------------------------------------
(* Properties.  The copies that overlapping handlers save over each other break what is
   said of executions without overlap otherwise. *)

\* A submitted checklist is final as long as nothing overlaps: neither its status nor
\* its items change (add_item, submit).
SubmittedIsFinal ==
  [][\A i \in Inspection : overlaps' = 0 /\ inspections[i].status = "SUBMITTED" =>
       inspections'[i] = inspections[i]]_vars

\* A checklist is reported once, and once more at most for every overlap, whatever
\* became of its fault and whatever was reported by hand in between.  As long as nothing
\* overlaps, the fault stands for exactly the failures of a submitted checklist of its
\* vehicle (report_inspection_fault).
FaultIsItsChecklist ==
  \A i \in Inspection :
    /\ Cardinality(FromReport(i)) <= 1 + overlaps
    /\ overlaps = 0 => \A f \in FromReport(i) :
         /\ inspections[i].status = "SUBMITTED"
         /\ faults[f].items = FailedItems(inspections[i])
         /\ faults[f].vehicle = inspections[i].vehicle

\* When a vehicle leaves, one of its drivers takes it, a submitted checklist of it
\* exists and no flow is open, at the moment it leaves (exit_center).
LeavesClear ==
  [][\A v \in Vehicle :
       /\ overlaps' = 0
       /\ vehicles[v].status # "EXITED_CENTER" /\ vehicles'[v].status = "EXITED_CENTER"
       => /\ ~OpenFlow(v) /\ vehicles[v].drivers # {}
          /\ \E i \in Inspection :
               inspections[i].vehicle = v /\ inspections[i].status = "SUBMITTED"]_vars

================================================================================
