---------------------------- MODULE ChecklistProofs ----------------------------
(***************************************************************************)
(* Theorems about Checklist, for every set of vehicles, drivers,           *)
(* checklists, items and requests.                                         *)
(***************************************************************************)
EXTENDS Checklist, FiniteSetTheorems, TLAPS

\* What the handler r loaded is what the tables hold, and its checks still pass.
Fresh(r) ==
  LET q == req[r] IN
  /\ q.op \in {"add", "submit"} =>
       q.id \in Inspection /\ q.copy = inspections[q.id] /\ q.copy.status = "DRAFT"
  /\ q.op = "report" =>
       q.id \in Inspection /\ q.copy = inspections[q.id] /\ MayReport(q.id)
  /\ q.op = "exit" =>
       /\ q.row = vehicles[q.vehicle] /\ q.row.drivers # {} /\ ~OpenFlow(q.vehicle)
       /\ \E i \in Inspection :
            inspections[i].vehicle = q.vehicle /\ inspections[i].status = "SUBMITTED"

\* As long as nothing overlapped, a handler is alone and what it loaded is fresh.
Undisturbed == overlaps = 0 => \A r \in Busy : Busy = {r} /\ Fresh(r)

\* The handlers that are about to report the checklist i.
Reporters(i) == {r \in Request : req[r].op = "report" /\ req[r].id = i}

\* What is reported of a checklist and what is about to be.
Counted ==
  \A i \in Inspection :
    Cardinality(Reporters(i)) + Cardinality(FromReport(i)) <= 1 + overlaps

\* What FaultIsItsChecklist says of the fault itself.
Faithful ==
  overlaps = 0 => \A i \in Inspection : \A f \in FromReport(i) :
    /\ inspections[i].status = "SUBMITTED"
    /\ faults[f].items = FailedItems(inspections[i])
    /\ faults[f].vehicle = inspections[i].vehicle

IInv == TypeOK /\ Undisturbed /\ Counted /\ Faithful

--------------------------------------------------------------------------------

LEMMA Rows ==
  /\ NoInspection \in InspectionRow /\ NoFault \in FaultRow
  /\ Idle \in RequestState /\ Idle.op = "idle"
<1>1. (CHOOSE v \in Vehicle : TRUE) \in Vehicle /\ (CHOOSE i \in Inspection : TRUE) \in Inspection
  BY ChecklistAssumption
<1>2. NoInspection \in InspectionRow /\ NoInspection.vehicle \in Vehicle
  BY <1>1, ChecklistAssumption DEF NoInspection, InspectionRow
<1>3. NoFault \in FaultRow
  BY <1>1 DEF NoFault, FaultRow
<1>4. Idle \in RequestState /\ Idle.op = "idle"
  BY <1>1, <1>2, ChecklistAssumption DEF Idle, RequestState, VehicleRow
<1> QED
  BY <1>2, <1>3, <1>4

LEMMA InitIInv == Init => IInv
<1> SUFFICES ASSUME Init PROVE IInv
  OBVIOUS
<1>1. TypeOK
  <2>1. vehicles \in [Vehicle -> VehicleRow]
    BY DEF Init, VehicleRow
  <2>2. inspections \in [Inspection -> InspectionRow] /\ faults \in [FaultId -> FaultRow]
        /\ req \in [Request -> RequestState]
    BY Rows DEF Init
  <2>3. today \in Day /\ overlaps \in 0 .. MaxOverlaps
    BY ChecklistAssumption DEF Init
  <2>4. events \in 0 .. MaxEvents
    BY ChecklistAssumption DEF Init
  <2> QED
    BY <2>1, <2>2, <2>3, <2>4 DEF TypeOK
<1>2. Busy = {}
  BY Rows DEF Init, Busy
<1>3. \A i : FromReport(i) = {} /\ Reporters(i) = {}
  BY Rows DEF Init, FromReport, Reported, NoFault, Reporters
<1>4. Counted /\ Faithful
  BY <1>3, FS_EmptySet, ChecklistAssumption DEF Counted, Faithful, Init
<1> QED
  BY <1>1, <1>2, <1>4 DEF IInv, Undisturbed

--------------------------------------------------------------------------------

\* What the handlers take up is a state of a request.
LEMMA Loads ==
  ASSUME TypeOK, NEW i \in Inspection
  PROVE  /\ \A item \in Item : [Idle EXCEPT !.op = "add", !.id = i, !.item = {item},
                                            !.copy = inspections[i]] \in RequestState
         /\ [Idle EXCEPT !.op = "submit", !.id = i, !.copy = inspections[i]] \in RequestState
         /\ [Idle EXCEPT !.op = "report", !.id = i, !.copy = inspections[i]] \in RequestState
         /\ \A v \in Vehicle :
              [Idle EXCEPT !.op = "exit", !.id = i, !.vehicle = v, !.row = vehicles[v]]
                \in RequestState
<1>1. Idle \in RequestState /\ inspections[i] \in InspectionRow
      /\ \A v \in Vehicle : vehicles[v] \in VehicleRow
  BY Rows DEF TypeOK
<1>2. \A item \in Item : {item} \in SUBSET Item
  OBVIOUS
<1>3. ASSUME NEW item \in Item
      PROVE  [Idle EXCEPT !.op = "add", !.id = i, !.item = {item}, !.copy = inspections[i]]
               \in RequestState
  BY <1>1, <1>2 DEF RequestState
<1>4. [Idle EXCEPT !.op = "submit", !.id = i, !.copy = inspections[i]] \in RequestState
  BY <1>1 DEF RequestState
<1>5. [Idle EXCEPT !.op = "report", !.id = i, !.copy = inspections[i]] \in RequestState
  BY <1>1 DEF RequestState
<1>6. ASSUME NEW v \in Vehicle
      PROVE  [Idle EXCEPT !.op = "exit", !.id = i, !.vehicle = v, !.row = vehicles[v]]
               \in RequestState
  BY <1>1 DEF RequestState
<1> QED
  BY <1>3, <1>4, <1>5, <1>6

LEMMA LoadsByHand ==
  \A v \in Vehicle, i \in Inspection \cup {NoChecklist} :
    [Idle EXCEPT !.op = "hand", !.id = i, !.vehicle = v] \in RequestState
BY Rows DEF RequestState

LEMMA NextTypeOK == TypeOK /\ [Next]_vars => TypeOK'
<1> SUFFICES ASSUME TypeOK, [Next]_vars PROVE TypeOK'
  OBVIOUS
<1> USE ChecklistAssumption, Rows DEF TypeOK
<1>0. NoteOverlap => overlaps' \in 0 .. MaxOverlaps
  BY DEF NoteOverlap
<1>1. ASSUME NEW r \in Request, NEW i \in Inspection, NEW v \in Vehicle,
             NEW role, NEW d, NEW items \in SUBSET Item,
             CreateInspection(r, i, v, role, d, today, items)
      PROVE  TypeOK'
  <2>1. [status |-> "DRAFT", vehicle |-> v, day |-> today, items |-> items] \in InspectionRow
    BY DEF InspectionRow
  <2> QED
    BY <1>1, <2>1, <1>0 DEF CreateInspection
<1>2. ASSUME NEW r \in Request, NEW state \in RequestState, Enter(r, state),
             UNCHANGED <<vehicles, inspections, faults, today, events>>
      PROVE  TypeOK'
  BY <1>0, <1>2 DEF Enter
<1>3. ASSUME NEW r \in Request, NEW i \in Inspection, NEW item \in Item, LoadAdd(r, i, item)
      PROVE  TypeOK'
  BY <1>2, <1>3, Loads DEF LoadAdd
<1>4. ASSUME NEW r \in Request, NEW i \in Inspection, LoadSubmit(r, i) PROVE TypeOK'
  BY <1>2, <1>4, Loads DEF LoadSubmit
<1>5. ASSUME NEW r \in Request, NEW i \in Inspection, LoadReport(r, i) PROVE TypeOK'
  BY <1>2, <1>5, Loads DEF LoadReport
<1>6. ASSUME NEW r \in Request, NEW v \in Vehicle, NEW d \in Driver, NEW i \in Inspection,
             LoadExit(r, v, d, i)
      PROVE  TypeOK'
  BY <1>2, <1>6, Loads DEF LoadExit
<1>7. ASSUME NEW r \in Request, AddItem(r) \/ Submit(r) PROVE TypeOK'
  <2>1. /\ [req[r].copy EXCEPT !.items = @ \cup req[r].item] \in InspectionRow
        /\ [req[r].copy EXCEPT !.status = "SUBMITTED"] \in InspectionRow
    BY DEF InspectionRow, RequestState
  <2> QED
    BY <1>7, <2>1 DEF AddItem, Submit, Leave
<1>8. ASSUME NEW r \in Request, ReportFault(r) \/ ReportByHand(r) PROVE TypeOK'
  <2> DEFINE q == req[r]
  <2>1. ASSUME NEW row \in FaultRow, NewFault(row) PROVE faults' \in [FaultId -> FaultRow]
    BY <2>1 DEF NewFault
  <2>2. CASE ReportFault(r)
    <3>1. q.id \in Inspection \cup {NoChecklist} /\ q.copy.vehicle \in Vehicle
          /\ FailedItems(q.copy) \subseteq Item
      BY DEF FailedItems, RequestState, InspectionRow
    <3>2. [status |-> "OPEN", by |-> "report", vehicle |-> q.copy.vehicle,
           checklist |-> q.id, items |-> FailedItems(q.copy)] \in FaultRow
      BY <3>1 DEF FaultRow
    <3> QED
      BY <2>1, <2>2, <3>2 DEF ReportFault, Leave
  <2>3. CASE ReportByHand(r)
    <3>1. [status |-> "OPEN", by |-> "hand", vehicle |-> q.vehicle, checklist |-> q.id,
           items |-> {}] \in FaultRow
      BY DEF FaultRow, RequestState
    <3> QED
      BY <2>1, <2>3, <3>1 DEF ReportByHand, Leave
  <2> QED
    BY <1>8, <2>2, <2>3
<1>9. ASSUME NEW r \in Request, ExitCenter(r) \/ RollBack(r) PROVE TypeOK'
  <2>1. [req[r].row EXCEPT !.status = "EXITED_CENTER"] \in VehicleRow
    BY DEF VehicleRow, RequestState
  <2> QED
    BY <1>9, <2>1 DEF ExitCenter, RollBack, Leave
<1>10. Meanwhile => events' \in 0 .. MaxEvents /\ overlaps' \in 0 .. MaxOverlaps
  BY <1>0 DEF Meanwhile
<1>11. ASSUME NEW v \in Vehicle, NEW status \in {"ACTIVE", "OUT_OF_SERVICE"},
              ChangeVehicleStatus(v, status)
       PROVE  TypeOK'
  BY <1>10, <1>11 DEF ChangeVehicleStatus, VehicleRow
<1>12. ASSUME NEW v \in Vehicle, NEW ds \in SUBSET Driver, ReassignDrivers(v, ds) PROVE TypeOK'
  BY <1>10, <1>12 DEF ReassignDrivers, VehicleRow
<1>13. ASSUME NEW f \in FaultId, CloseFault(f) PROVE TypeOK'
  BY <1>10, <1>13 DEF CloseFault, FaultRow
<1>16. ASSUME NEW r \in Request, NEW v \in Vehicle, NEW i \in Inspection \cup {NoChecklist},
              LoadByHand(r, v, i)
       PROVE  TypeOK'
  BY <1>2, <1>16, LoadsByHand DEF LoadByHand
<1>14. DayPasses => TypeOK'
  BY <1>10 DEF DayPasses
<1>15. CASE UNCHANGED vars
  BY <1>15 DEF vars
<1> QED
  <2>1. ASSUME NEW r \in Request, FillStep(r) \/ UseStep(r) PROVE TypeOK'
    BY <1>1, <1>3, <1>4, <1>5, <1>6, <1>7, <1>8, <1>9, <1>16, <2>1
    DEF FillStep, UseStep
  <2>2. Elsewhere => TypeOK'
    BY <1>11, <1>12, <1>13, <1>14 DEF Elsewhere
  <2> QED
    BY <1>15, <2>1, <2>2 DEF Next

--------------------------------------------------------------------------------

LEMMA NoOverlapAlone == TypeOK /\ NoteOverlap /\ overlaps' = 0 => Busy = {} /\ overlaps = 0
BY ChecklistAssumption DEF TypeOK, NoteOverlap

\* Whatever begins beside a busy handler is an overlap.
LEMMA EntersAlone ==
  ASSUME TypeOK, Undisturbed, overlaps' = 0,
         NEW r \in Request, NEW state \in RequestState, Enter(r, state), state.op # "idle"
  PROVE  overlaps = 0 /\ Busy = {} /\ Busy' = {r} /\ req'[r] = state
BY ChecklistAssumption DEF TypeOK, Enter, NoteOverlap, Busy

\* A handler that is alone leaves nobody behind.
LEMMA LeavesNobody ==
  ASSUME TypeOK, Undisturbed, overlaps = 0, NEW r \in Busy, Leave(r)
  PROVE  Busy' = {}
BY Rows DEF TypeOK, Undisturbed, Busy, Leave

LEMMA NextUndisturbed == TypeOK /\ Undisturbed /\ [Next]_vars => Undisturbed'
<1> SUFFICES ASSUME TypeOK, Undisturbed, [Next]_vars, overlaps' = 0 PROVE Undisturbed'
  BY DEF Undisturbed
<1> USE DEF TypeOK
<1>1. ASSUME Busy' = {} PROVE Undisturbed'
  BY <1>1 DEF Undisturbed
<1>2. ASSUME NEW r \in Request, NEW state \in RequestState, Enter(r, state), state.op # "idle",
             UNCHANGED <<vehicles, inspections, faults>>, Fresh(r)'
      PROVE  Undisturbed'
  BY <1>2, EntersAlone DEF Undisturbed
<1>3. ASSUME NEW r \in Request, NEW i \in Inspection, NEW item \in Item, LoadAdd(r, i, item)
      PROVE  Undisturbed'
  <2> DEFINE state == [Idle EXCEPT !.op = "add", !.id = i, !.item = {item},
                                   !.copy = inspections[i]]
  <2>1. state \in RequestState /\ state.op = "add" /\ state.id = i /\ state.copy = inspections[i]
    BY Loads, Rows DEF RequestState
  <2>2. Enter(r, state) /\ UNCHANGED <<vehicles, inspections, faults>>
        /\ inspections[i].status = "DRAFT"
    BY <1>3 DEF LoadAdd
  <2> HIDE DEF state
  <2>3. Fresh(r)'
    BY <2>1, <2>2, EntersAlone DEF Fresh
  <2> QED
    BY <1>2, <2>1, <2>2, <2>3
<1>4. ASSUME NEW r \in Request, NEW i \in Inspection, LoadSubmit(r, i) PROVE Undisturbed'
  <2> DEFINE state == [Idle EXCEPT !.op = "submit", !.id = i, !.copy = inspections[i]]
  <2>1. state \in RequestState /\ state.op = "submit" /\ state.id = i
        /\ state.copy = inspections[i]
    BY Loads, Rows DEF RequestState
  <2>2. Enter(r, state) /\ UNCHANGED <<vehicles, inspections, faults>>
        /\ inspections[i].status = "DRAFT"
    BY <1>4 DEF LoadSubmit, MaySubmit
  <2> HIDE DEF state
  <2>3. Fresh(r)'
    BY <2>1, <2>2, EntersAlone DEF Fresh
  <2> QED
    BY <1>2, <2>1, <2>2, <2>3
<1>5. ASSUME NEW r \in Request, NEW i \in Inspection, LoadReport(r, i) PROVE Undisturbed'
  <2> DEFINE state == [Idle EXCEPT !.op = "report", !.id = i, !.copy = inspections[i]]
  <2>1. /\ state \in RequestState /\ state.op = "report" /\ state.id = i
        /\ state.copy = inspections[i]
    BY Loads, Rows DEF RequestState
  <2>2. /\ Enter(r, state) /\ UNCHANGED <<vehicles, inspections, faults>>
        /\ MayReport(i) /\ MayReport(i)'
    BY <1>5 DEF LoadReport, MayReport, Reported, OpenFlow
  <2> HIDE DEF state
  <2>3. Fresh(r)'
    BY <2>1, <2>2, EntersAlone DEF Fresh
  <2> QED
    BY <1>2, <2>1, <2>2, <2>3
<1>6. ASSUME NEW r \in Request, NEW v \in Vehicle, NEW d \in Driver, NEW i \in Inspection,
             LoadExit(r, v, d, i)
      PROVE  Undisturbed'
  <2> DEFINE state == [Idle EXCEPT !.op = "exit", !.id = i, !.vehicle = v, !.row = vehicles[v]]
  <2>1. state \in RequestState /\ state.op = "exit" /\ state.id = i /\ state.vehicle = v
        /\ state.row = vehicles[v]
    BY Loads, Rows DEF RequestState
  <2>2. /\ Enter(r, state) /\ UNCHANGED <<vehicles, inspections, faults>>
        /\ vehicles[v].drivers # {} /\ ~OpenFlow(v) /\ ~OpenFlow(v)'
        /\ inspections[i].vehicle = v /\ inspections[i].status = "SUBMITTED"
    BY <1>6 DEF LoadExit, MayLeave, OpenFlow
  <2> HIDE DEF state
  <2>3. Fresh(r)'
    BY <2>1, <2>2, EntersAlone DEF Fresh
  <2> QED
    BY <1>2, <2>1, <2>2, <2>3
<1>7. ASSUME NEW r \in Request,
             \/ AddItem(r) \/ Submit(r) \/ ReportFault(r) \/ ReportByHand(r)
             \/ ExitCenter(r) \/ RollBack(r)
      PROVE  Undisturbed'
  <2>1. r \in Busy /\ overlaps = 0 /\ Leave(r)
    BY <1>7 DEF AddItem, Submit, ReportFault, ReportByHand, ExitCenter, RollBack, Busy
  <2> QED
    BY <1>1, <2>1, LeavesNobody
<1>8. ASSUME NEW r \in Request, NEW i \in Inspection, NEW v \in Vehicle,
             NEW role, NEW d, NEW items \in SUBSET Item,
             CreateInspection(r, i, v, role, d, today, items)
      PROVE  Undisturbed'
  BY <1>1, <1>8, NoOverlapAlone DEF CreateInspection, Busy
<1>11. ASSUME NEW r \in Request, NEW v \in Vehicle, NEW i \in Inspection \cup {NoChecklist},
              LoadByHand(r, v, i)
       PROVE  Undisturbed'
  <2> DEFINE state == [Idle EXCEPT !.op = "hand", !.id = i, !.vehicle = v]
  <2>1. state \in RequestState /\ state.op = "hand"
    BY LoadsByHand, Rows DEF RequestState
  <2>2. Enter(r, state) /\ UNCHANGED <<vehicles, inspections, faults>>
    BY <1>11 DEF LoadByHand
  <2> HIDE DEF state
  <2>3. Fresh(r)'
    BY <2>1, <2>2, EntersAlone DEF Fresh
  <2> QED
    BY <1>2, <2>1, <2>2, <2>3
<1>9. ASSUME Elsewhere PROVE Undisturbed'
  <2>1. Meanwhile /\ req' = req
    BY <1>9 DEF Elsewhere, ChangeVehicleStatus, ReassignDrivers, CloseFault, DayPasses
  <2> QED
    BY <1>1, <2>1, NoOverlapAlone DEF Meanwhile, Busy
<1>10. CASE UNCHANGED vars
  BY <1>10 DEF vars, Undisturbed, Busy, Fresh, MayReport, Reported, OpenFlow
<1> QED
  <2>1. ASSUME NEW r \in Request, FillStep(r) \/ UseStep(r) PROVE Undisturbed'
    BY <1>3, <1>4, <1>5, <1>6, <1>7, <1>8, <1>11, <2>1 DEF FillStep, UseStep
  <2> QED
    BY <1>9, <1>10, <2>1 DEF Next

--------------------------------------------------------------------------------

LEMMA OverlapsGrow == TypeOK /\ [Next]_vars => overlaps' \in {overlaps, overlaps + 1}
<1> SUFFICES ASSUME TypeOK, [Next]_vars PROVE overlaps' \in {overlaps, overlaps + 1}
  OBVIOUS
<1>1. ASSUME NEW r \in Request, FillStep(r) \/ UseStep(r)
      PROVE  overlaps' \in {overlaps, overlaps + 1}
  BY <1>1 DEF FillStep, UseStep, CreateInspection, LoadAdd, LoadSubmit, LoadReport, LoadExit,
     LoadByHand, AddItem, Submit, ReportFault, ReportByHand, ExitCenter, RollBack, Enter,
     NoteOverlap
<1>2. Elsewhere => overlaps' \in {overlaps, overlaps + 1}
  BY DEF Elsewhere, ChangeVehicleStatus, ReassignDrivers, CloseFault, DayPasses, Meanwhile,
     NoteOverlap
<1>3. UNCHANGED vars => overlaps' \in {overlaps, overlaps + 1}
  BY DEF vars
<1> QED
  BY <1>1, <1>2, <1>3 DEF Next

LEMMA StaysUnoverlapped == TypeOK /\ [Next]_vars /\ overlaps' = 0 => overlaps = 0
BY OverlapsGrow, ChecklistAssumption DEF TypeOK

--------------------------------------------------------------------------------

LEMMA Finite ==
  \A i : /\ IsFiniteSet(Reporters(i)) /\ Cardinality(Reporters(i)) \in Nat
         /\ IsFiniteSet(FromReport(i)) /\ Cardinality(FromReport(i)) \in Nat
<1> TAKE i
<1>1. IsFiniteSet(Reporters(i))
  BY ChecklistAssumption, FS_Subset DEF Reporters
<1>2. IsFiniteSet(FromReport(i))
  <2>1. IsFiniteSet(FaultId)
    BY ChecklistAssumption, FS_Interval DEF FaultId
  <2>2. FromReport(i) \subseteq FaultId
    BY DEF FromReport, Reported
  <2> QED
    BY <2>1, <2>2, FS_Subset
<1> QED
  BY <1>1, <1>2, FS_CardinalityType

LEMMA NextFinite ==
  \A i : Cardinality(Reporters(i)') \in Nat /\ Cardinality(FromReport(i)') \in Nat
<1> TAKE i
<1>1. IsFiniteSet(Reporters(i)')
  BY ChecklistAssumption, FS_Subset DEF Reporters
<1>2. IsFiniteSet(FromReport(i)')
  <2>1. IsFiniteSet(FaultId)
    BY ChecklistAssumption, FS_Interval DEF FaultId
  <2>2. FromReport(i)' \subseteq FaultId
    BY DEF FromReport, Reported
  <2> QED
    BY <2>1, <2>2, FS_Subset
<1> QED
  BY <1>1, <1>2, FS_CardinalityType

\* A new fault goes to the checklist it names, if it was reported from it.
LEMMA NewFaultGoes ==
  ASSUME TypeOK, NEW row \in FaultRow, NewFault(row), row.status # "NONE", NEW i
  PROVE  \/ FromReport(i)' = FromReport(i) /\ (row.by = "hand" \/ row.checklist # i)
         \/ /\ row.by = "report" /\ row.checklist = i
            /\ \E f \in FaultId : /\ f \notin FromReport(i) /\ faults'[f] = row
                                  /\ FromReport(i)' = FromReport(i) \cup {f}
<1> USE DEF TypeOK
<1>1. PICK f \in FaultId : faults[f].status = "NONE" /\ faults' = [faults EXCEPT ![f] = row]
  BY DEF NewFault
<1>2. f \notin FromReport(i) /\ faults'[f] = row
      /\ \A g \in FaultId \ {f} : faults'[g] = faults[g]
  BY <1>1 DEF FromReport, Reported
<1>3. CASE row.by = "report" /\ row.checklist = i
  <2>1. FromReport(i)' = FromReport(i) \cup {f}
    BY <1>2, <1>3 DEF FromReport, Reported
  <2> QED
    BY <1>2, <1>3, <2>1
<1>4. CASE row.by = "hand" \/ row.checklist # i
  BY <1>2, <1>4 DEF FromReport, Reported
<1>5. row.by \in {"report", "hand"}
  BY DEF FaultRow
<1> QED
  BY <1>3, <1>4, <1>5

\* The row that ReportFault saves, and that of ReportByHand.
LEMMA ReportRows ==
  ASSUME TypeOK, NEW r \in Request
  PROVE  LET q == req[r] IN
         /\ [status |-> "OPEN", by |-> "report", vehicle |-> q.copy.vehicle,
             checklist |-> q.id, items |-> FailedItems(q.copy)] \in FaultRow
         /\ [status |-> "OPEN", by |-> "hand", vehicle |-> q.vehicle, checklist |-> q.id,
             items |-> {}] \in FaultRow
<1> DEFINE q == req[r]
<1>1. /\ q.id \in Inspection \cup {NoChecklist} /\ q.copy.vehicle \in Vehicle
      /\ q.vehicle \in Vehicle /\ FailedItems(q.copy) \subseteq Item
  BY DEF TypeOK, FailedItems, RequestState, InspectionRow
<1> QED
  BY <1>1 DEF FaultRow

\* A fault that is closed is as much a fault of its checklist as before.
LEMMA CloseKeeps ==
  ASSUME TypeOK, NEW g \in FaultId, CloseFault(g)
  PROVE  \A i : FromReport(i)' = FromReport(i)
<1>1. \A f \in FaultId : /\ faults'[f].by = faults[f].by
                         /\ faults'[f].checklist = faults[f].checklist
                         /\ faults'[f].status # "NONE" <=> faults[f].status # "NONE"
  BY DEF TypeOK, CloseFault, FaultRow
<1> QED
  BY <1>1 DEF FromReport, Reported

--------------------------------------------------------------------------------

LEMMA NextCounted == TypeOK /\ Counted /\ [Next]_vars => Counted'
<1> SUFFICES ASSUME TypeOK, Counted, [Next]_vars, NEW i \in Inspection
             PROVE  (Cardinality(Reporters(i)) + Cardinality(FromReport(i)) <= 1 + overlaps)'
  BY DEF Counted
<1> DEFINE R == Cardinality(Reporters(i))
           F == Cardinality(FromReport(i))
           Goal == R' + F' <= 1 + overlaps'
<1>0. /\ R \in Nat /\ F \in Nat /\ R' \in Nat /\ F' \in Nat /\ R + F <= 1 + overlaps
      /\ overlaps \in Nat /\ overlaps' \in {overlaps, overlaps + 1}
  <2>1. R \in Nat /\ F \in Nat
    BY Finite
  <2>2. R' \in Nat /\ F' \in Nat
    BY NextFinite
  <2> QED
    BY <2>1, <2>2, OverlapsGrow DEF Counted, TypeOK
<1>1. ASSUME R' <= R, F' <= F PROVE Goal
  BY <1>0, <1>1
<1>2. ASSUME NEW r \in Request, LoadReport(r, i) PROVE Goal
  <2>1. /\ req[r].op = "idle" /\ Reported(i) = {} /\ faults' = faults
        /\ req' = [req EXCEPT ![r] = [Idle EXCEPT !.op = "report", !.id = i,
                                                  !.copy = inspections[i]]]
    BY <1>2 DEF LoadReport, MayReport, Enter
  <2>2. F = 0 /\ F' = 0
    <3>1. FromReport(i) = {} /\ FromReport(i)' = {}
      BY <2>1 DEF FromReport, Reported
    <3> QED
      BY <3>1, FS_EmptySet
  <2>3. Reporters(i)' = Reporters(i) \cup {r} /\ r \notin Reporters(i)
    <3>1. req'[r].op = "report" /\ req'[r].id = i
      BY <2>1, Rows DEF TypeOK, RequestState
    <3> QED
      BY <2>1, <3>1 DEF TypeOK, Reporters
  <2>4. R' = R + 1
    BY <2>3, Finite, FS_AddElement
  <2>5. CASE Busy = {}
    <3>1. Reporters(i) = {}
      BY <2>5 DEF Reporters, Busy
    <3>2. R = 0
      BY <3>1, FS_EmptySet
    <3>3. R' = 1
      BY <2>4, <3>2
    <3>4. overlaps' \in Nat
      BY <1>0
    <3>5. R' + F' = 1
      BY <2>2, <3>3
    <3> QED
      BY <3>4, <3>5
  <2>6. CASE Busy # {}
    <3>1. overlaps' = overlaps + 1
      BY <1>2, <2>6 DEF LoadReport, Enter, NoteOverlap
    <3> HIDE DEF R, F
    <3> QED
      BY <1>0, <2>2, <2>4, <3>1
  <2> QED
    BY <2>5, <2>6
\* Whoever leaves, and is no reporter any more.
<1>3. ASSUME NEW r \in Request, Leave(r) PROVE R' <= R /\ (r \in Reporters(i) => R' = R - 1)
  <2>1. Reporters(i)' = Reporters(i) \ {r}
    BY <1>3, Rows DEF Leave, Reporters, TypeOK
  <2>2. R' = IF r \in Reporters(i) THEN R - 1 ELSE R
    BY <2>1, Finite, FS_RemoveElement
  <2> QED
    BY <1>0, <2>2
<1>4. ASSUME NEW r \in Request, ReportFault(r) PROVE Goal
  <2> DEFINE q == req[r]
             row == [status |-> "OPEN", by |-> "report", vehicle |-> q.copy.vehicle,
                     checklist |-> q.id, items |-> FailedItems(q.copy)]
  <2>1. row \in FaultRow /\ NewFault(row) /\ Leave(r) /\ q.op = "report"
        /\ overlaps' = overlaps
    BY <1>4, ReportRows DEF ReportFault
  <2>2. row.status # "NONE" /\ row.checklist = q.id
    OBVIOUS
  <2> HIDE DEF row
  <2>3. CASE FromReport(i)' = FromReport(i)
    BY <1>1, <1>0, <1>3, <2>1, <2>3
  <2>4. ASSUME q.id = i, NEW f \in FaultId, f \notin FromReport(i),
               FromReport(i)' = FromReport(i) \cup {f}
        PROVE  Goal
    <3>1. F' = F + 1
      BY <2>4, Finite, FS_AddElement
    <3>2. r \in Reporters(i)
      BY <2>1, <2>4 DEF Reporters
    <3>3. R' = R - 1
      BY <1>3, <2>1, <3>2
    <3> QED
      BY <1>0, <2>1, <3>1, <3>3
  <2> QED
    BY <2>1, <2>2, <2>3, <2>4, NewFaultGoes
<1>5. ASSUME NEW r \in Request, ReportByHand(r) PROVE Goal
  <2> DEFINE row == [status |-> "OPEN", by |-> "hand", vehicle |-> req[r].vehicle,
                     checklist |-> req[r].id, items |-> {}]
  <2>1. row \in FaultRow /\ NewFault(row) /\ Leave(r) /\ row.status # "NONE"
        /\ row.by = "hand"
    BY <1>5, ReportRows DEF ReportByHand
  <2> HIDE DEF row
  <2>2. FromReport(i)' = FromReport(i)
    BY <2>1, NewFaultGoes
  <2> QED
    BY <1>0, <1>1, <1>3, <2>1, <2>2
\* Whoever enters with something else to do.
<1>6. ASSUME NEW r \in Request, NEW state \in RequestState, Enter(r, state), faults' = faults,
             state.op # "report" \/ state.id # i
      PROVE  Goal
  <2>1. Reporters(i)' = Reporters(i) /\ FromReport(i)' = FromReport(i)
    BY <1>6 DEF Enter, Reporters, TypeOK, FromReport, Reported
  <2> QED
    BY <1>0, <1>1, <2>1
<1>7. ASSUME NEW r \in Request, NEW j \in Inspection, NEW item \in Item, LoadAdd(r, j, item)
      PROVE  Goal
  <2> DEFINE state == [Idle EXCEPT !.op = "add", !.id = j, !.item = {item},
                                   !.copy = inspections[j]]
  <2>1. state \in RequestState /\ state.op = "add"
    BY Loads, Rows DEF RequestState
  <2> QED
    BY <1>6, <1>7, <2>1 DEF LoadAdd
<1>8. ASSUME NEW r \in Request, NEW j \in Inspection, LoadSubmit(r, j) PROVE Goal
  <2> DEFINE state == [Idle EXCEPT !.op = "submit", !.id = j, !.copy = inspections[j]]
  <2>1. state \in RequestState /\ state.op = "submit"
    BY Loads, Rows DEF RequestState
  <2> QED
    BY <1>6, <1>8, <2>1 DEF LoadSubmit
<1>9. ASSUME NEW r \in Request, NEW j \in Inspection, j # i, LoadReport(r, j) PROVE Goal
  <2> DEFINE state == [Idle EXCEPT !.op = "report", !.id = j, !.copy = inspections[j]]
  <2>1. state \in RequestState /\ state.id = j
    BY Loads, Rows DEF RequestState
  <2> QED
    BY <1>6, <1>9, <2>1 DEF LoadReport
<1>10. ASSUME NEW r \in Request, NEW v \in Vehicle, NEW d \in Driver, NEW j \in Inspection,
              LoadExit(r, v, d, j)
       PROVE  Goal
  <2> DEFINE state == [Idle EXCEPT !.op = "exit", !.id = j, !.vehicle = v, !.row = vehicles[v]]
  <2>1. state \in RequestState /\ state.op = "exit"
    BY Loads, Rows DEF RequestState
  <2> QED
    BY <1>6, <1>10, <2>1 DEF LoadExit
<1>11. ASSUME NEW r \in Request, NEW v \in Vehicle, NEW j \in Inspection \cup {NoChecklist},
              LoadByHand(r, v, j)
       PROVE  Goal
  <2> DEFINE state == [Idle EXCEPT !.op = "hand", !.id = j, !.vehicle = v]
  <2>1. state \in RequestState /\ state.op = "hand"
    BY LoadsByHand, Rows DEF RequestState
  <2> QED
    BY <1>6, <1>11, <2>1 DEF LoadByHand
<1>12. ASSUME NEW r \in Request, Leave(r) \/ req' = req, faults' = faults PROVE Goal
  <2>1. FromReport(i)' = FromReport(i)
    BY <1>12 DEF FromReport, Reported
  <2>2. req' = req => Reporters(i)' = Reporters(i)
    BY DEF Reporters
  <2> QED
    BY <1>0, <1>1, <1>3, <1>12, <2>1, <2>2
<1>13. ASSUME NEW r \in Request, FillStep(r) PROVE Goal
  <2>1. ASSUME AddItem(r) \/ Submit(r) PROVE Goal
    BY <1>12, <2>1 DEF AddItem, Submit
  <2>2. ASSUME NEW j \in Inspection, NEW v \in Vehicle, NEW role, NEW d, NEW items,
               CreateInspection(r, j, v, role, d, today, items)
        PROVE  Goal
    BY <1>12, <2>2 DEF CreateInspection
  <2> QED
    BY <1>7, <1>8, <1>13, <2>1, <2>2 DEF FillStep
<1>14. ASSUME NEW r \in Request, UseStep(r) PROVE Goal
  <2>1. ASSUME ExitCenter(r) \/ RollBack(r) PROVE Goal
    BY <1>12, <2>1 DEF ExitCenter, RollBack
  <2> QED
    BY <1>2, <1>4, <1>5, <1>9, <1>10, <1>11, <1>14, <2>1 DEF UseStep
<1>15. ASSUME Elsewhere PROVE Goal
  <2>1. req' = req
    BY <1>15 DEF Elsewhere, ChangeVehicleStatus, ReassignDrivers, CloseFault, DayPasses
  <2>2. FromReport(i)' = FromReport(i)
    <3>1. faults' = faults => FromReport(i)' = FromReport(i)
      BY DEF FromReport, Reported
    <3> QED
      BY <1>15, <3>1, CloseKeeps DEF Elsewhere, ChangeVehicleStatus, ReassignDrivers, DayPasses
  <2>3. Reporters(i)' = Reporters(i)
    BY <2>1 DEF Reporters
  <2> QED
    BY <1>0, <1>1, <2>2, <2>3
<1>16. CASE UNCHANGED vars
  <2>1. FromReport(i)' = FromReport(i) /\ Reporters(i)' = Reporters(i)
    BY <1>16 DEF vars, FromReport, Reported, Reporters
  <2> QED
    BY <1>0, <1>1, <2>1
<1> QED
  BY <1>13, <1>14, <1>15, <1>16 DEF Next

--------------------------------------------------------------------------------

LEMMA NextFaithful == IInv /\ [Next]_vars => Faithful'
<1> SUFFICES ASSUME IInv, [Next]_vars, overlaps' = 0 PROVE Faithful'
  BY DEF Faithful
<1> USE DEF IInv, TypeOK
<1>0. overlaps = 0
  BY StaysUnoverlapped
\* No fault was reported from a checklist that is not submitted.
<1>2. ASSUME NEW j \in Inspection, inspections[j].status # "SUBMITTED", faults' = faults,
             \A i \in Inspection \ {j} : inspections'[i] = inspections[i]
      PROVE  Faithful'
  <2>1. \A i : FromReport(i)' = FromReport(i)
    BY <1>2 DEF FromReport, Reported
  <2>2. FromReport(j) = {}
    BY <1>0, <1>2 DEF Faithful
  <2> QED
    BY <1>0, <1>2, <2>1, <2>2 DEF Faithful
<1>1. ASSUME UNCHANGED <<inspections, faults>> PROVE Faithful'
  BY <1>0, <1>1 DEF Faithful, FromReport, Reported
<1>3. ASSUME NEW r \in Request, NEW i \in Inspection, NEW v \in Vehicle,
             NEW role, NEW d, NEW items, CreateInspection(r, i, v, role, d, today, items)
      PROVE  Faithful'
  <2>1. inspections[i].status # "SUBMITTED" /\ faults' = faults
        /\ \A j \in Inspection \ {i} : inspections'[j] = inspections[j]
    BY <1>3 DEF CreateInspection
  <2> QED
    BY <1>2, <2>1
<1>4. ASSUME NEW r \in Request, AddItem(r) \/ Submit(r) PROVE Faithful'
  <2>1. Fresh(r) /\ req[r].op \in {"add", "submit"}
    BY <1>0, <1>4 DEF AddItem, Submit, Undisturbed, Busy
  <2>2. req[r].id \in Inspection /\ inspections[req[r].id].status # "SUBMITTED"
        /\ faults' = faults
        /\ \A j \in Inspection \ {req[r].id} : inspections'[j] = inspections[j]
    BY <1>4, <2>1 DEF AddItem, Submit, Fresh
  <2> QED
    BY <1>2, <2>2
\* A new fault: the old ones are as they were.
<1>5. ASSUME NEW row \in FaultRow, NewFault(row), row.status # "NONE", inspections' = inspections,
             row.by = "report" =>
               /\ row.checklist \in Inspection
               /\ inspections[row.checklist].status = "SUBMITTED"
               /\ row.items = FailedItems(inspections[row.checklist])
               /\ row.vehicle = inspections[row.checklist].vehicle
      PROVE  Faithful'
  <2> SUFFICES ASSUME NEW i \in Inspection, NEW f \in FromReport(i)'
               PROVE  /\ inspections[i].status = "SUBMITTED"
                      /\ faults'[f].items = FailedItems(inspections[i])
                      /\ faults'[f].vehicle = inspections[i].vehicle
    BY <1>5 DEF Faithful, FailedItems
  <2>1. PICK g \in FaultId : faults[g].status = "NONE" /\ faults' = [faults EXCEPT ![g] = row]
    BY <1>5 DEF NewFault
  <2>2. /\ f \in FaultId /\ faults'[f].status # "NONE" /\ faults'[f].checklist = i
        /\ faults'[f].by = "report"
    BY DEF FromReport, Reported
  <2>3. CASE f = g
    BY <1>5, <2>1, <2>2, <2>3
  <2>4. CASE f # g
    <3>1. faults'[f] = faults[f] /\ f \in FromReport(i)
      BY <2>1, <2>2, <2>4 DEF FromReport, Reported
    <3> QED
      BY <1>0, <3>1 DEF Faithful
  <2> QED
    BY <2>3, <2>4
<1>6. ASSUME NEW r \in Request, ReportFault(r) PROVE Faithful'
  <2> DEFINE q == req[r]
             row == [status |-> "OPEN", by |-> "report", vehicle |-> q.copy.vehicle,
                     checklist |-> q.id, items |-> FailedItems(q.copy)]
  <2>1. /\ q.id \in Inspection /\ q.copy = inspections[q.id]
        /\ inspections[q.id].status = "SUBMITTED"
    BY <1>0, <1>6 DEF ReportFault, Undisturbed, Busy, Fresh, MayReport
  <2>2. row \in FaultRow /\ NewFault(row) /\ inspections' = inspections
    BY <1>6, ReportRows DEF ReportFault
  <2>3. /\ row.status # "NONE" /\ row.checklist = q.id
        /\ row.items = FailedItems(inspections[q.id])
        /\ row.vehicle = inspections[q.id].vehicle
    BY <2>1
  <2> HIDE DEF row
  <2> QED
    BY <1>5, <2>1, <2>2, <2>3
<1>7. ASSUME NEW r \in Request, ReportByHand(r) PROVE Faithful'
  <2> DEFINE row == [status |-> "OPEN", by |-> "hand", vehicle |-> req[r].vehicle,
                     checklist |-> req[r].id, items |-> {}]
  <2>1. row \in FaultRow /\ NewFault(row) /\ row.status # "NONE" /\ row.by # "report"
        /\ inspections' = inspections
    BY <1>7, ReportRows DEF ReportByHand
  <2> HIDE DEF row
  <2> QED
    BY <1>5, <2>1
<1>8. ASSUME NEW g \in FaultId, CloseFault(g) PROVE Faithful'
  <2>1. inspections' = inspections
        /\ \A f \in FaultId : /\ faults'[f].items = faults[f].items
                              /\ faults'[f].vehicle = faults[f].vehicle
    BY <1>8 DEF CloseFault, FaultRow
  <2>2. \A i : FromReport(i)' = FromReport(i) /\ FromReport(i) \subseteq FaultId
    BY <1>8, CloseKeeps DEF FromReport, Reported
  <2> QED
    BY <1>0, <2>1, <2>2 DEF Faithful
<1>9. CASE UNCHANGED vars
  BY <1>1, <1>9 DEF vars
<1> QED
  <2>1. ASSUME NEW r \in Request, FillStep(r) PROVE Faithful'
    BY <1>1, <1>3, <1>4, <2>1 DEF FillStep, LoadAdd, LoadSubmit
  <2>2. ASSUME NEW r \in Request, UseStep(r) PROVE Faithful'
    BY <1>1, <1>6, <1>7, <2>2 DEF UseStep, LoadReport, LoadByHand, LoadExit, ExitCenter, RollBack
  <2>3. Elsewhere => Faithful'
    BY <1>1, <1>8 DEF Elsewhere, ChangeVehicleStatus, ReassignDrivers, DayPasses
  <2> QED
    BY <1>9, <2>1, <2>2, <2>3 DEF Next

--------------------------------------------------------------------------------

\* A handler that writes a checklist wrote a draft.
LEMMA FinalStep ==
  ASSUME IInv, [Next]_vars, overlaps' = 0, overlaps = 0,
         NEW i \in Inspection, inspections[i].status = "SUBMITTED"
  PROVE  inspections'[i] = inspections[i]
<1> USE DEF IInv, TypeOK
<1>1. ASSUME NEW r \in Request, AddItem(r) \/ Submit(r) PROVE inspections'[i] = inspections[i]
  <2>1. Fresh(r) /\ req[r].op \in {"add", "submit"}
    BY <1>1 DEF AddItem, Submit, Undisturbed, Busy
  <2>2. i # req[r].id
    BY <2>1 DEF Fresh
  <2> QED
    BY <1>1, <2>2 DEF AddItem, Submit
<1>2. ASSUME NEW r \in Request, FillStep(r) PROVE inspections'[i] = inspections[i]
  BY <1>1, <1>2 DEF FillStep, CreateInspection, LoadAdd, LoadSubmit
<1>3. ASSUME NEW r \in Request, UseStep(r) PROVE inspections'[i] = inspections[i]
  BY <1>3 DEF UseStep, LoadReport, ReportFault, LoadByHand, ReportByHand, LoadExit, ExitCenter,
     RollBack
<1>4. Elsewhere => inspections'[i] = inspections[i]
  BY DEF Elsewhere, ChangeVehicleStatus, ReassignDrivers, CloseFault, DayPasses
<1> QED
  BY <1>2, <1>3, <1>4 DEF Next, vars

\* Only the exit lets a vehicle out, with what it loaded.
LEMMA LeaveStep ==
  ASSUME IInv, [Next]_vars, overlaps' = 0, overlaps = 0,
         NEW v \in Vehicle,
         vehicles[v].status # "EXITED_CENTER", vehicles'[v].status = "EXITED_CENTER"
  PROVE  /\ ~OpenFlow(v) /\ vehicles[v].drivers # {}
         /\ \E i \in Inspection : inspections[i].vehicle = v /\ inspections[i].status = "SUBMITTED"
<1> USE DEF IInv, TypeOK
<1>1. PICK r \in Request : ExitCenter(r)
  <2>1. ASSUME NEW r \in Request, FillStep(r) \/ UseStep(r), ~ExitCenter(r) PROVE FALSE
    BY <2>1 DEF FillStep, UseStep, CreateInspection, LoadAdd, LoadSubmit, LoadReport, LoadExit,
       LoadByHand, AddItem, Submit, ReportFault, ReportByHand, RollBack
  <2>2. ASSUME NEW u \in Vehicle, NEW status \in {"ACTIVE", "OUT_OF_SERVICE"},
               ChangeVehicleStatus(u, status)
        PROVE  FALSE
    BY <2>2 DEF ChangeVehicleStatus, VehicleRow
  <2>3. ASSUME NEW u \in Vehicle, NEW ds \in SUBSET Driver, ReassignDrivers(u, ds) PROVE FALSE
    BY <2>3 DEF ReassignDrivers, VehicleRow
  <2>4. Elsewhere => FALSE
    BY <2>2, <2>3 DEF Elsewhere, CloseFault, DayPasses
  <2> QED
    BY <2>1, <2>4 DEF Next, vars
<1>2. Fresh(r) /\ req[r].op = "exit"
  BY <1>1 DEF ExitCenter, Undisturbed, Busy, RequestState
<1>3. req[r].vehicle = v
  BY <1>1 DEF ExitCenter
<1> QED
  BY <1>2, <1>3 DEF Fresh

--------------------------------------------------------------------------------

\* The inductive invariant: besides the types and what the fault says it counts the
\* reports that are about to be saved with those that are, and says that, as long as
\* nothing overlapped, a busy handler is alone and what it loaded is still so.
THEOREM Invariance == Spec => []IInv
<1>1. Init => IInv
  BY InitIInv
<1>2. IInv /\ [Next]_vars => IInv'
  BY NextTypeOK, NextUndisturbed, NextCounted, NextFaithful DEF IInv
<1> QED
  BY <1>1, <1>2, PTL DEF Spec

\* Every value of every variable is of its declared type, for any vehicles, checklists,
\* items and requests: the rows, and the copies that handlers hold.
THEOREM TypeCorrect == Spec => []TypeOK
BY Invariance, PTL DEF IInv

\* A checklist is reported at most once more than there were overlaps, by any number of
\* requests and with any faults reported by hand in between; and as long as nothing
\* overlapped the fault stands for exactly the failures of its submitted checklist
\* (report_inspection_fault).
THEOREM FaultIsItsChecklistHolds == Spec => []FaultIsItsChecklist
<1>1. IInv => FaultIsItsChecklist
  <2> SUFFICES ASSUME IInv, NEW i \in Inspection
               PROVE  Cardinality(FromReport(i)) <= 1 + overlaps
    BY DEF IInv, Faithful, FaultIsItsChecklist
  <2>1. Cardinality(Reporters(i)) \in Nat /\ Cardinality(FromReport(i)) \in Nat
    BY Finite
  <2>2. Cardinality(Reporters(i)) + Cardinality(FromReport(i)) <= 1 + overlaps
    BY DEF IInv, Counted
  <2>3. overlaps \in Nat
    BY DEF IInv, TypeOK
  <2> QED
    BY <2>1, <2>2, <2>3
<1> QED
  BY <1>1, Invariance, PTL

\* A submitted checklist never changes as long as no handlers overlapped (add_item, submit).
THEOREM SubmittedIsFinalHolds == Spec => SubmittedIsFinal
<1>1. IInv /\ [Next]_vars =>
        [\A i \in Inspection : overlaps' = 0 /\ inspections[i].status = "SUBMITTED" =>
           inspections'[i] = inspections[i]]_vars
  BY FinalStep, StaysUnoverlapped DEF IInv
<1> QED
  BY <1>1, Invariance, PTL DEF Spec, SubmittedIsFinal

\* A vehicle leaves with a driver of its own, a submitted checklist and no open flow, at
\* the moment it leaves, as long as no handlers overlapped (exit_center).
THEOREM LeavesClearHolds == Spec => LeavesClear
<1>1. IInv /\ [Next]_vars =>
        [\A v \in Vehicle :
           /\ overlaps' = 0
           /\ vehicles[v].status # "EXITED_CENTER" /\ vehicles'[v].status = "EXITED_CENTER"
           => /\ ~OpenFlow(v) /\ vehicles[v].drivers # {}
              /\ \E i \in Inspection :
                   inspections[i].vehicle = v /\ inspections[i].status = "SUBMITTED"]_vars
  BY LeaveStep, StaysUnoverlapped DEF IInv
<1> QED
  BY <1>1, Invariance, PTL DEF Spec, LeavesClear

================================================================================
