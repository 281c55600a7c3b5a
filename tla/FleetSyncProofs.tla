---------------------------- MODULE FleetSyncProofs ----------------------------
(***************************************************************************)
(* Theorems about FleetSync, for every set of vehicles, drivers, workers   *)
(* and requests, any lists of SAP and any plates.                          *)
(***************************************************************************)
EXTENDS FleetSync, TLAPS

\* The copy a user is about to save is of a vehicle of SAP's, and names known drivers.
UsersCopyRows ==
  \A r \in Request : req[r].busy =>
    /\ master[req[r].n].listed \/ req[r].n \in dropped
    /\ \A d \in req[r].copy.drivers : drivers[d] # "NONE"

\* A run works on rows of its list and skips none of them.
ListIsCovered ==
  \A w \in Worker :
    /\ sync[w].todo \subseteq Listed(sync[w].list)
    /\ sync[w].pc = "row" => sync[w].n \in Listed(sync[w].list)
    /\ sync[w].pc \in {"rows", "row"} =>
         Listed(sync[w].list) \subseteq sync[w].todo \cup sync[w].seen

\* What a list holds is on SAP's list or was dropped from it.
ListIsOfSAP ==
  \A w \in Worker : \A n \in Number :
    sync[w].pc \in {"rows", "row"} /\ sync[w].list[n].listed => master[n].listed \/ n \in dropped

FleetIsOfSAP ==
  \A n \in Number : fleet[n].status # "NONE" => master[n].listed \/ n \in dropped

\* Nobody worked beside another one.
Alone == ~overlapped => \A p, q \in AtWork : p = q

\* The list a lone run works on holds every vehicle FMMS has that SAP never dropped.
ListHoldsFleet ==
  ~overlapped => \A w \in Worker : \A n \in Number :
    /\ sync[w].pc \in {"rows", "row"} /\ fleet[n].status # "NONE" /\ n \notin dropped
         => n \in Listed(sync[w].list)
    /\ sync[w].pc = "row" /\ sync[w].n = n /\ sync[w].copy.status = "DECOMMISSIONED"
         => n \in dropped

Known == AssignedAreKnown /\ UsersCopyRows

FromSAP == ListIsCovered /\ ListIsOfSAP /\ FleetIsOfSAP

Undropped == Alone /\ ListHoldsFleet /\ DecommissionedWasDropped

IInv == TypeOK /\ Known /\ FromSAP /\ Undropped

--------------------------------------------------------------------------------

LEMMA Rows ==
  /\ AnyNumber \in Number
  /\ NoVehicle \in VehicleRow /\ NoList \in [Number -> MasterRow]
  /\ IdleSync \in SyncState /\ Idle \in RequestState
<1>1. AnyNumber \in Number
  BY FleetAssumption DEF AnyNumber
<1>2. NoVehicle \in VehicleRow
  BY DEF NoVehicle, VehicleRow
<1>3. NoList \in [Number -> MasterRow]
  BY DEF NoList, Unlisted, MasterRow
<1> QED
  BY <1>1, <1>2, <1>3 DEF IdleSync, SyncState, Idle, RequestState

LEMMA InitIInv == Init => IInv
<1> SUFFICES ASSUME Init PROVE IInv
  OBVIOUS
<1>1. TypeOK
  <2>1. master \in [Number -> MasterRow] /\ fleet \in [Number -> VehicleRow]
    BY Rows, FleetAssumption DEF Init
  <2>2. /\ drivers \in [Driver -> DriverStatus] /\ run \in [Worker -> RunStatus]
        /\ sync \in [Worker -> SyncState] /\ req \in [Request -> RequestState]
    BY Rows DEF Init, DriverStatus, RunStatus
  <2>3. /\ snapshot \in [Number -> SUBSET Driver] /\ dropped \subseteq Number
        /\ overlapped \in BOOLEAN
    BY DEF Init
  <2>4. changes \in 0 .. MaxChanges /\ faults \in 0 .. MaxFaults
    BY FleetAssumption DEF Init
  <2> QED
    BY <2>1, <2>2, <2>3, <2>4 DEF TypeOK
<1>2. \A w \in Worker : sync[w].pc = "idle" /\ sync[w].todo = {}
  BY DEF Init, IdleSync
<1>3. \A r \in Request : ~req[r].busy
  BY DEF Init, Idle
<1>4. \A n \in Number : fleet[n].status = "NONE" /\ fleet[n].drivers = {}
  BY DEF Init, NoVehicle
<1>5. Known
  BY <1>3, <1>4 DEF Known, AssignedAreKnown, UsersCopyRows
<1>6. FromSAP
  BY <1>2, <1>4 DEF FromSAP, ListIsCovered, ListIsOfSAP, FleetIsOfSAP
<1>7. Undropped
  BY <1>2, <1>3, <1>4 DEF Undropped, Alone, AtWork, ListHoldsFleet, DecommissionedWasDropped
<1> QED
  BY <1>1, <1>5, <1>6, <1>7 DEF IInv

--------------------------------------------------------------------------------

LEMMA NextTypeOK == TypeOK /\ [Next]_vars => TypeOK'
<1> SUFFICES ASSUME TypeOK, [Next]_vars PROVE TypeOK'
  OBVIOUS
<1> USE FleetAssumption, Rows DEF TypeOK, Tables, Histories
<1>1. ASSUME NEW list \in Lists, MasterChanges(list) PROVE TypeOK'
  <2>1. list \in [Number -> MasterRow]
    OBVIOUS
  <2>2. dropped' \subseteq Number
    BY <1>1 DEF MasterChanges, Listed
  <2>3. master' = list /\ changes' \in 0 .. MaxChanges
    BY <1>1 DEF MasterChanges
  <2>4. UNCHANGED <<fleet, drivers, snapshot, sync, run, req, overlapped, faults>>
    BY <1>1 DEF MasterChanges
  <2> HIDE DEF VehicleRow, SyncState, RequestState, MasterRow
  <2> QED
    BY <2>1, <2>2, <2>3, <2>4
<1>2. ASSUME NEW w \in Worker, SyncStart(w) \/ SyncRead(w) PROVE TypeOK'
  <2>1. /\ [sync[w] EXCEPT !.pc = "read"] \in SyncState
        /\ [sync[w] EXCEPT !.pc = "rows", !.list = master, !.todo = Listed(master)] \in SyncState
    BY DEF SyncState, Listed
  <2>2. CASE SyncStart(w)
    BY <2>1, <2>2 DEF SyncStart, NoteOverlap, RunStatus
  <2>3. CASE SyncRead(w)
    BY <2>1, <2>3 DEF SyncRead
  <2> QED
    BY <1>2, <2>2, <2>3
<1>3. ASSUME NEW w \in Worker, SyncFails(w) \/ WorkerCrash(w) PROVE TypeOK'
  <2>1. [sync[w] EXCEPT !.pc = "rest", !.ok = FALSE] \in SyncState
    BY DEF SyncState
  <2>2. faults' \in 0 .. MaxFaults
    BY <1>3 DEF SyncFails, WorkerCrash, Fault
  <2>3. CASE SyncFails(w)
    BY <2>1, <2>2, <2>3 DEF SyncFails
  <2>4. CASE WorkerCrash(w)
    BY <2>2, <2>4 DEF WorkerCrash
  <2> QED
    BY <1>3, <2>3, <2>4
<1>4. ASSUME NEW w \in Worker, NEW n \in Number, LoadRow(w, n) \/ RowRefused(w, n) PROVE TypeOK'
  <2> DEFINE s == sync[w]
  <2>1. /\ s.list[n].drivers \subseteq Driver /\ s.todo \ {n} \subseteq Number
        /\ s.seen \cup {n} \subseteq Number
        /\ s.seenDrivers \cup s.list[n].drivers \subseteq Driver
    BY DEF SyncState, MasterRow
  <2>2. /\ [s EXCEPT !.pc = "row", !.n = n, !.copy = fleet[n], !.todo = s.todo \ {n},
                     !.seen = s.seen \cup {n},
                     !.seenDrivers = s.seenDrivers \cup s.list[n].drivers] \in SyncState
        /\ [s EXCEPT !.todo = s.todo \ {n}, !.seen = s.seen \cup {n}] \in SyncState
    BY <2>1 DEF SyncState
  <2>3. CASE LoadRow(w, n)
    BY <2>2, <2>3 DEF LoadRow
  <2>4. CASE RowRefused(w, n)
    BY <2>2, <2>4 DEF RowRefused
  <2> QED
    BY <1>4, <2>3, <2>4
<1>5. ASSUME NEW w \in Worker, SaveRow(w) \/ RowRolledBack(w) PROVE TypeOK'
  <2> DEFINE row == sync[w].list[sync[w].n]
  <2>1. [sync[w] EXCEPT !.pc = "rows"] \in SyncState
    BY DEF SyncState
  <2>2. row.drivers \subseteq Driver /\ sync[w].copy \in VehicleRow
    BY DEF SyncState, MasterRow
  <2>3. /\ ApplySAP(sync[w].n, sync[w].copy, row) \in VehicleRow
        /\ Upsert(row.drivers) \in [Driver -> DriverStatus]
    <3>1. sync[w].n \in Number /\ row.plate \in Plate \cup {NoPlate}
      BY DEF SyncState, MasterRow
    <3> QED
      BY <2>2, <3>1 DEF ApplySAP, VehicleRow, Upsert, DriverStatus
  <2>4. CASE SaveRow(w)
    BY <2>1, <2>2, <2>3, <2>4 DEF SaveRow
  <2>5. CASE RowRolledBack(w)
    BY <2>1, <2>5 DEF RowRolledBack
  <2> QED
    BY <1>5, <2>4, <2>5
<1>6. ASSUME NEW w \in Worker, Decommission(w) PROVE TypeOK'
  <2>1. [sync[w] EXCEPT !.pc = "rest"] \in SyncState
    BY DEF SyncState
  <2>2. /\ \A seen : DecommissionVehicles(seen) \in [Number -> VehicleRow]
        /\ \A seen : DecommissionDrivers(seen) \in [Driver -> DriverStatus]
    BY Rows DEF DecommissionVehicles, DecommissionDrivers, VehicleRow, DriverStatus
  <2> QED
    BY <1>6, <2>1, <2>2 DEF Decommission
<1>7. ASSUME NEW w \in Worker, NEW rest \in {"all", "some", "none"}, SyncEnd(w, rest)
      PROVE  TypeOK'
  <2>1. \A ok : GlobalStatus(ok, rest) \in RunStatus
    BY DEF GlobalStatus, RunStatus
  <2> QED
    BY <1>7, <2>1 DEF SyncEnd
<1>8. ASSUME NEW r \in Request, NEW n \in Number, LoadVehicle(r, n) PROVE TypeOK'
  <2>1. [busy |-> TRUE, n |-> n, copy |-> fleet[n]] \in RequestState
    BY DEF RequestState
  <2> QED
    BY <1>8, <2>1 DEF LoadVehicle, NoteOverlap
<1>9. ASSUME NEW r \in Request, ChangeStatus(r) \/ ChangeRolledBack(r) PROVE TypeOK'
  <2>1. [req[r].copy EXCEPT !.status = IF @ = "ACTIVE" THEN "OUT_OF_SERVICE" ELSE "ACTIVE"]
          \in VehicleRow
    BY DEF RequestState, VehicleRow
  <2> QED
    BY <1>9, <2>1 DEF ChangeStatus, ChangeRolledBack
<1>10. CASE UNCHANGED vars
  BY <1>10 DEF vars
<1> QED
  BY <1>1, <1>2, <1>3, <1>4, <1>5, <1>6, <1>7, <1>8, <1>9, <1>10
  DEF Next, SyncStep, SyncFault, RequestStep

--------------------------------------------------------------------------------

LEMMA NextKnown == TypeOK /\ Known /\ FleetIsOfSAP /\ [Next]_vars => Known'
<1> SUFFICES ASSUME TypeOK, Known, FleetIsOfSAP, [Next]_vars PROVE Known'
  OBVIOUS
<1> USE DEF TypeOK, Known, AssignedAreKnown, UsersCopyRows, Tables, Histories
<1>1. CASE UNCHANGED <<fleet, drivers, req, master, dropped>>
  BY <1>1
<1>2. ASSUME NEW w \in Worker, SaveRow(w) PROVE Known'
  <2> DEFINE s == sync[w]  row == s.list[s.n]
  <2>1. s.n \in Number /\ row.drivers \subseteq Driver
    BY DEF SyncState, MasterRow
  <2>2. /\ fleet' = [fleet EXCEPT ![s.n] = ApplySAP(s.n, s.copy, row)]
        /\ drivers' = Upsert(row.drivers) /\ UNCHANGED <<req, master, dropped>>
    BY <1>2 DEF SaveRow
  <2>3. /\ \A d \in row.drivers : drivers'[d] # "NONE"
        /\ \A d \in Driver : drivers[d] # "NONE" => drivers'[d] # "NONE"
    BY <2>1, <2>2 DEF Upsert
  <2>4. ApplySAP(s.n, s.copy, row).drivers = row.drivers
    BY DEF ApplySAP
  <2>5. AssignedAreKnown'
    BY <2>1, <2>2, <2>3, <2>4 DEF VehicleRow
  <2>6. UsersCopyRows'
    BY <2>2, <2>3 DEF RequestState, VehicleRow
  <2> QED
    BY <2>5, <2>6
<1>3. ASSUME NEW w \in Worker, Decommission(w) PROVE Known'
  <2>1. \A n \in Number : fleet'[n].drivers \subseteq fleet[n].drivers
    BY <1>3 DEF Decommission, DecommissionVehicles, VehicleRow, NoVehicle
  <2>2. \A d \in Driver : drivers[d] # "NONE" => drivers'[d] # "NONE"
    BY <1>3 DEF Decommission, DecommissionDrivers
  <2>3. UNCHANGED <<req, master, dropped>>
    BY <1>3 DEF Decommission
  <2> QED
    BY <2>1, <2>2, <2>3 DEF RequestState, VehicleRow
<1>4. ASSUME NEW r \in Request, NEW n \in Number, LoadVehicle(r, n) PROVE Known'
  BY <1>4 DEF LoadVehicle, FleetIsOfSAP
<1>5. ASSUME NEW r \in Request, ChangeStatus(r) PROVE Known'
  <2> DEFINE q == req[r]
  <2>1. /\ q.busy /\ q.n \in Number /\ q.copy \in VehicleRow
        /\ fleet'[q.n].drivers = q.copy.drivers
        /\ \A n \in Number \ {q.n} : fleet'[n] = fleet[n]
    BY <1>5 DEF ChangeStatus, RequestState, VehicleRow
  <2>2. /\ UNCHANGED <<drivers, master, dropped>>
        /\ \A p \in Request : req'[p].busy => req'[p] = req[p]
    BY <1>5 DEF ChangeStatus, Idle
  <2>3. AssignedAreKnown'
    BY <2>1, <2>2
  <2>4. UsersCopyRows'
    <3> SUFFICES ASSUME NEW p \in Request, req'[p].busy
                 PROVE  /\ (master[req[p].n].listed \/ req[p].n \in dropped)
                        /\ \A d \in req[p].copy.drivers : drivers[d] # "NONE"
      BY <2>2
    <3> QED
      BY <2>2
  <2> QED
    BY <2>3, <2>4
<1>6. ASSUME NEW w \in Worker, SyncStep(w) PROVE Known'
  BY <1>1, <1>2, <1>3, <1>6
  DEF SyncStep, SyncStart, SyncRead, LoadRow, RowRolledBack, RowRefused, SyncEnd
<1>7. ASSUME NEW w \in Worker, SyncFault(w) PROVE Known'
  BY <1>1, <1>7 DEF SyncFault, SyncFails, WorkerCrash
<1>8. ASSUME NEW list \in Lists, MasterChanges(list) PROVE Known'
  <2>1. UNCHANGED <<fleet, drivers, req>>
    BY <1>8 DEF MasterChanges
  <2>2. \A n \in Number : master[n].listed \/ n \in dropped => master'[n].listed \/ n \in dropped'
    BY <1>8 DEF MasterChanges, Listed
  <2> QED
    BY <2>1, <2>2 DEF RequestState
<1>10. ASSUME NEW r \in Request, ChangeRolledBack(r) PROVE Known'
  <2>1. /\ UNCHANGED <<fleet, drivers, master, dropped>>
        /\ \A p \in Request : req'[p].busy => req'[p] = req[p]
    BY <1>10 DEF ChangeRolledBack, Idle
  <2> QED
    BY <2>1
<1>9. UNCHANGED vars => Known'
  BY <1>1 DEF vars
<1> QED
  BY <1>4, <1>5, <1>6, <1>7, <1>8, <1>9, <1>10 DEF Next, RequestStep

--------------------------------------------------------------------------------

\* What a step of a run changes of its state, and that nobody else's is.
LEMMA NextFromSAP == TypeOK /\ Known /\ FromSAP /\ [Next]_vars => FromSAP'
<1> SUFFICES ASSUME TypeOK, Known, FromSAP, [Next]_vars PROVE FromSAP'
  OBVIOUS
<1> USE DEF TypeOK, FromSAP, ListIsCovered, ListIsOfSAP, FleetIsOfSAP, Listed, Tables, Histories
<1>1. ASSUME NEW list \in Lists, MasterChanges(list) PROVE FromSAP'
  <2>1. /\ \A m \in Number : master[m].listed \/ m \in dropped => master'[m].listed \/ m \in dropped'
        /\ UNCHANGED <<fleet, sync>>
    BY <1>1 DEF MasterChanges
  <2> QED
    BY <2>1
<1>2. ASSUME NEW w \in Worker, SyncStep(w) \/ SyncFault(w), ~SaveRow(w), ~Decommission(w)
      PROVE  FromSAP'
  <2> DEFINE s == sync[w]
  <2>1. /\ UNCHANGED <<fleet, master, dropped>>
        /\ \A v \in Worker \ {w} : sync'[v] = sync[v]
    BY <1>2 DEF SyncStep, SyncFault, SyncStart, SyncRead, LoadRow, RowRolledBack, RowRefused,
       SyncEnd, SyncFails, WorkerCrash
  <2>2. /\ sync'[w].todo \subseteq Listed(sync'[w].list)
        /\ sync'[w].pc = "row" => sync'[w].n \in Listed(sync'[w].list)
        /\ sync'[w].pc \in {"rows", "row"} =>
             Listed(sync'[w].list) \subseteq sync'[w].todo \cup sync'[w].seen
        /\ sync'[w].pc \in {"rows", "row"} => sync'[w].list \in {master, sync[w].list}
        /\ sync'[w].pc \in {"rows", "row"} /\ sync'[w].list # master => s.pc \in {"rows", "row"}
    <3>1. CASE \E n \in Number : LoadRow(w, n)
      BY <3>1 DEF LoadRow, SyncState
    <3>2. CASE \E n \in Number : RowRefused(w, n)
      BY <3>2 DEF RowRefused, SyncState
    <3>3. CASE SyncStart(w)
      <4>1. sync'[w].pc = "read" /\ sync'[w].list = s.list /\ sync'[w].todo = s.todo
        BY <3>3 DEF SyncStart, SyncState
      <4> QED
        BY <4>1
    <3>6. CASE SyncRead(w)
      <4>1. sync'[w].pc = "rows" /\ sync'[w].list = master /\ sync'[w].todo = Listed(master)
        BY <3>6 DEF SyncRead, SyncState
      <4> QED
        BY <4>1
    <3>7. CASE SyncFails(w)
      <4>1. sync'[w].pc = "rest" /\ sync'[w].list = s.list /\ sync'[w].todo = s.todo
        BY <3>7 DEF SyncFails, SyncState
      <4> QED
        BY <4>1
    <3>4. CASE RowRolledBack(w)
      <4>1. /\ sync'[w].pc = "rows" /\ sync'[w].list = s.list
            /\ sync'[w].todo = s.todo /\ sync'[w].seen = s.seen /\ s.pc = "row"
        BY <3>4 DEF RowRolledBack, SyncState
      <4> QED
        BY <4>1
    <3>5. CASE WorkerCrash(w) \/ \E rest \in {"all", "some", "none"} : SyncEnd(w, rest)
      BY <3>5 DEF WorkerCrash, SyncEnd, IdleSync
    <3> QED
      BY <1>2, <3>1, <3>2, <3>3, <3>4, <3>5, <3>6, <3>7 DEF SyncStep, SyncFault
  <2> QED
    BY <2>1, <2>2
<1>3. ASSUME NEW w \in Worker, SaveRow(w) PROVE FromSAP'
  <2> DEFINE s == sync[w]
  <2>1. s.n \in Number /\ s.list[s.n].listed
    BY <1>3 DEF SaveRow, SyncState
  <2>2. /\ \A n \in Number \ {s.n} : fleet'[n] = fleet[n]
        /\ master' = master /\ dropped' = dropped
    BY <1>3 DEF SaveRow
  <2>3. /\ \A v \in Worker \ {w} : sync'[v] = sync[v]
        /\ sync'[w].pc = "rows" /\ sync'[w].list = s.list
        /\ sync'[w].todo = s.todo /\ sync'[w].seen = s.seen /\ s.pc = "row"
    BY <1>3 DEF SaveRow, SyncState
  <2>4. ListIsCovered' /\ ListIsOfSAP'
    BY <2>2, <2>3
  <2>5. FleetIsOfSAP'
    BY <1>3, <2>1, <2>2 DEF SaveRow
  <2> QED
    BY <2>4, <2>5
<1>4. ASSUME NEW w \in Worker, Decommission(w) PROVE FromSAP'
  <2>1. /\ \A v \in Worker \ {w} : sync'[v] = sync[v]
        /\ sync'[w].pc = "rest" /\ sync'[w].list = sync[w].list /\ sync'[w].todo = sync[w].todo
        /\ master' = master /\ dropped' = dropped
    BY <1>4 DEF Decommission, SyncState
  <2>2. \A n \in Number : fleet'[n].status # "NONE" => fleet[n].status # "NONE"
    BY <1>4 DEF Decommission, DecommissionVehicles, VehicleRow, NoVehicle
  <2> QED
    BY <2>1, <2>2
<1>5. ASSUME NEW r \in Request, NEW n \in Number, LoadVehicle(r, n) PROVE FromSAP'
  BY <1>5 DEF LoadVehicle
<1>6. ASSUME NEW r \in Request, ChangeStatus(r) \/ ChangeRolledBack(r) PROVE FromSAP'
  <2>1. /\ UNCHANGED <<sync, master, dropped>>
        /\ master[req[r].n].listed \/ req[r].n \in dropped
        /\ \A n \in Number \ {req[r].n} : fleet'[n] = fleet[n]
    BY <1>6 DEF ChangeStatus, ChangeRolledBack, Known, UsersCopyRows
  <2> QED
    BY <2>1
<1>7. CASE UNCHANGED vars
  BY <1>7 DEF vars
<1> QED
  <2>1. ASSUME NEW w \in Worker, SyncStep(w) \/ SyncFault(w) PROVE FromSAP'
    BY <1>2, <1>3, <1>4, <2>1
  <2> QED
    BY <1>1, <1>5, <1>6, <1>7, <2>1 DEF Next, RequestStep

--------------------------------------------------------------------------------

LEMMA NextAlone == TypeOK /\ Alone /\ [Next]_vars => Alone'
<1> SUFFICES ASSUME TypeOK, Alone, [Next]_vars PROVE Alone'
  OBVIOUS
<1> USE DEF TypeOK, Alone, Tables, Histories
<1>1. ASSUME AtWork' \subseteq AtWork, overlapped' = overlapped PROVE Alone'
  BY <1>1
<1>2. ASSUME NEW p, NoteOverlap(p), AtWork' \subseteq AtWork \cup {p} PROVE Alone'
  BY <1>2 DEF NoteOverlap
<1>3. ASSUME NEW w \in Worker, SyncStep(w) \/ SyncFault(w) PROVE Alone'
  <2>1. req' = req /\ \A v \in Worker \ {w} : sync'[v] = sync[v]
    BY <1>3 DEF SyncStep, SyncFault, SyncStart, SyncRead, LoadRow, SaveRow, RowRolledBack,
       Decommission, SyncEnd, SyncFails, WorkerCrash, RowRefused
  <2>2. CASE SyncStart(w)
    BY <1>2, <2>1, <2>2 DEF SyncStart, AtWork
  <2>3. CASE sync[w].pc # "idle" /\ overlapped' = overlapped
    BY <1>1, <2>1, <2>3 DEF AtWork
  <2> QED
    BY <1>3, <2>2, <2>3
    DEF SyncStep, SyncFault, SyncRead, LoadRow, SaveRow, RowRolledBack, Decommission, SyncEnd,
        SyncFails, WorkerCrash, RowRefused
<1>4. ASSUME NEW r \in Request, NEW n \in Number, LoadVehicle(r, n) PROVE Alone'
  <2>1. NoteOverlap(r) /\ AtWork' \subseteq AtWork \cup {r}
    BY <1>4 DEF LoadVehicle, AtWork
  <2> QED
    BY <1>2, <2>1
<1>5. ASSUME NEW r \in Request, ChangeStatus(r) \/ ChangeRolledBack(r) PROVE Alone'
  <2>1. overlapped' = overlapped /\ AtWork' \subseteq AtWork
    BY <1>5 DEF ChangeStatus, ChangeRolledBack, AtWork, Idle
  <2> QED
    BY <1>1, <2>1
<1>6. ASSUME UNCHANGED <<sync, req, overlapped>> PROVE Alone'
  BY <1>1, <1>6 DEF AtWork
<1>7. ASSUME NEW list \in Lists, MasterChanges(list) PROVE Alone'
  BY <1>6, <1>7 DEF MasterChanges
<1>8. CASE UNCHANGED vars
  BY <1>6, <1>8 DEF vars
<1> QED
  BY <1>3, <1>4, <1>5, <1>7, <1>8 DEF Next, RequestStep

\* A lone run that skipped nothing takes out only what SAP dropped.
LEMMA NextUndropped == IInv /\ [Next]_vars => (ListHoldsFleet /\ DecommissionedWasDropped)'
<1> SUFFICES ASSUME IInv, [Next]_vars, ~overlapped'
             PROVE  (ListHoldsFleet /\ DecommissionedWasDropped)'
  BY DEF ListHoldsFleet, DecommissionedWasDropped
<1> USE DEF IInv, TypeOK, FromSAP, Undropped, ListHoldsFleet, DecommissionedWasDropped, Listed,
        Tables, Histories
<1>0. ~overlapped
  <2>1. ASSUME NEW w \in Worker, SyncStep(w) PROVE overlapped => overlapped'
    BY <2>1 DEF SyncStep, SyncStart, SyncRead, LoadRow, SaveRow, RowRolledBack, RowRefused,
       Decommission, SyncEnd, NoteOverlap
  <2>2. ASSUME NEW w \in Worker, SyncFault(w) PROVE overlapped => overlapped'
    BY <2>2 DEF SyncFault, SyncFails, WorkerCrash
  <2>3. ASSUME NEW r \in Request, NEW n \in Number, LoadVehicle(r, n)
        PROVE  overlapped => overlapped'
    BY <2>3 DEF LoadVehicle, NoteOverlap
  <2>4. ASSUME NEW list \in Lists, MasterChanges(list)
        PROVE  overlapped => overlapped'
    BY <2>4 DEF MasterChanges
  <2>5. ASSUME NEW r \in Request, ChangeStatus(r) \/ ChangeRolledBack(r)
        PROVE  overlapped => overlapped'
    BY <2>5 DEF ChangeStatus, ChangeRolledBack
  <2>6. UNCHANGED vars => (overlapped => overlapped')
    BY DEF vars
  <2> QED
    BY <2>1, <2>2, <2>3, <2>4, <2>5, <2>6 DEF Next, RequestStep
<1>1. ASSUME NEW list \in Lists, MasterChanges(list)
      PROVE  (ListHoldsFleet /\ DecommissionedWasDropped)'
  <2>1. UNCHANGED <<sync, fleet>> /\ \A m \in Number : m \in dropped => m \in dropped'
    BY <1>1 DEF MasterChanges
  <2> QED
    BY <1>0, <2>1
<1>2. ASSUME NEW w \in Worker, SyncStep(w) \/ SyncFault(w), ~SaveRow(w), ~Decommission(w)
      PROVE  (ListHoldsFleet /\ DecommissionedWasDropped)'
  <2> DEFINE s == sync[w]
  <2>1. /\ UNCHANGED <<fleet, master, dropped>>
        /\ \A v \in Worker \ {w} : sync'[v] = sync[v]
    BY <1>2 DEF SyncStep, SyncFault, SyncStart, SyncRead, LoadRow, RowRolledBack, RowRefused,
       SyncEnd, SyncFails, WorkerCrash
  <2>2. ASSUME NEW n \in Number
        PROVE  /\ sync'[w].pc \in {"rows", "row"} /\ fleet[n].status # "NONE" /\ n \notin dropped
                    => n \in Listed(sync'[w].list)
               /\ sync'[w].pc = "row" /\ sync'[w].n = n /\ sync'[w].copy.status = "DECOMMISSIONED"
                    => n \in dropped
    <3>1. CASE \E m \in Number : LoadRow(w, m)
      <4>1. /\ s.pc = "rows" /\ sync'[w].list = s.list
            /\ sync'[w].n \in Number /\ sync'[w].copy = fleet[sync'[w].n]
        BY <3>1 DEF LoadRow, SyncState
      <4> QED
        BY <1>0, <4>1
    <3>2. CASE SyncRead(w)
      <4>1. sync'[w].pc = "rows" /\ sync'[w].list = master
        BY <3>2 DEF SyncRead, SyncState
      <4>2. fleet[n].status # "NONE" /\ n \notin dropped => n \in Listed(master)
        BY DEF FleetIsOfSAP
      <4> QED
        BY <4>1, <4>2
    <3>3. CASE RowRolledBack(w) \/ \E m \in Number : RowRefused(w, m)
      <4>1. sync'[w].pc = "rows" /\ sync'[w].list = s.list /\ s.pc \in {"rows", "row"}
        <5>1. CASE RowRolledBack(w)
          BY <5>1 DEF RowRolledBack, SyncState
        <5>2. CASE \E m \in Number : RowRefused(w, m)
          BY <5>2 DEF RowRefused, SyncState
        <5> QED
          BY <3>3, <5>1, <5>2
      <4>2. fleet[n].status # "NONE" /\ n \notin dropped => s.list[n].listed
        BY <1>0, <4>1
      <4>3. sync'[w].list[n] = s.list[n]
        BY <4>1
      <4> QED
        BY <4>1, <4>2, <4>3
    <3>4. CASE sync'[w].pc \notin {"rows", "row"}
      BY <3>4
    <3>5. CASE SyncStart(w) \/ SyncFails(w)
      BY <3>4, <3>5 DEF SyncStart, SyncFails, SyncState
    <3>6. CASE WorkerCrash(w) \/ \E rest \in {"all", "some", "none"} : SyncEnd(w, rest)
      BY <3>4, <3>6 DEF WorkerCrash, SyncEnd, IdleSync
    <3> QED
      BY <1>2, <3>1, <3>2, <3>3, <3>5, <3>6 DEF SyncStep, SyncFault
  <2> QED
    BY <1>0, <2>1, <2>2
<1>3. ASSUME NEW w \in Worker, SaveRow(w) \/ Decommission(w)
      PROVE  \A v \in Worker \ {w} : sync'[v] = sync[v] /\ sync[v].pc = "idle"
  <2>1. w \in AtWork
    BY <1>3 DEF SaveRow, Decommission, AtWork
  <2>2. \A v \in Worker \ {w} : sync[v].pc = "idle"
    BY <1>0, <2>1 DEF Alone, AtWork
  <2> QED
    BY <1>3, <2>2 DEF SaveRow, Decommission
<1>4. ASSUME NEW w \in Worker, SaveRow(w)
      PROVE  (ListHoldsFleet /\ DecommissionedWasDropped)'
  <2> DEFINE s == sync[w]
  <2>1. /\ s.pc = "row" /\ s.n \in Number /\ s.list[s.n].listed
        /\ \A n \in Number \ {s.n} : fleet'[n] = fleet[n]
        /\ dropped' = dropped
    BY <1>4 DEF SaveRow, SyncState, ListIsCovered
  <2>2. sync'[w].pc = "rows" /\ sync'[w].list = s.list
    BY <1>4 DEF SaveRow, SyncState
  <2>3. fleet'[s.n].status = "DECOMMISSIONED" => s.n \in dropped
    BY <1>0, <1>4, <2>1 DEF SaveRow, ApplySAP
  <2>4. DecommissionedWasDropped'
    BY <1>0, <2>1, <2>3
  <2>5. ListHoldsFleet'
    BY <1>0, <1>3, <1>4, <2>1, <2>2
  <2> QED
    BY <2>4, <2>5
<1>5. ASSUME NEW w \in Worker, Decommission(w)
      PROVE  (ListHoldsFleet /\ DecommissionedWasDropped)'
  <2> DEFINE s == sync[w]
  <2>1. /\ s.pc = "rows" /\ s.todo = {} /\ sync'[w].pc = "rest" /\ dropped' = dropped
    BY <1>5 DEF Decommission, SyncState
  <2>2. \A n \in Number : \/ fleet'[n] \in {fleet[n], NoVehicle}
                          \/ n \notin s.seen /\ fleet[n].status # "NONE"
    BY <1>5 DEF Decommission, DecommissionVehicles
  <2>3. \A n \in Number : n \notin s.seen /\ fleet[n].status # "NONE" => n \in dropped
    BY <1>0, <2>1 DEF ListIsCovered
  <2>4. DecommissionedWasDropped'
    BY <1>0, <2>1, <2>2, <2>3 DEF NoVehicle
  <2>5. ListHoldsFleet'
    BY <1>3, <1>5, <2>1
  <2> QED
    BY <2>4, <2>5
<1>6. ASSUME NEW r \in Request, NEW n \in Number, LoadVehicle(r, n)
      PROVE  (ListHoldsFleet /\ DecommissionedWasDropped)'
  BY <1>0, <1>6 DEF LoadVehicle
<1>7. ASSUME NEW r \in Request, ChangeStatus(r) \/ ChangeRolledBack(r)
      PROVE  (ListHoldsFleet /\ DecommissionedWasDropped)'
  <2>1. /\ UNCHANGED <<sync, dropped>>
        /\ \A n \in Number : fleet'[n].status = "DECOMMISSIONED" => fleet'[n] = fleet[n]
    BY <1>7 DEF ChangeStatus, ChangeRolledBack, RequestState, VehicleRow
  <2>2. \A w \in Worker : sync[w].pc = "idle"
    BY <1>0, <1>7, FleetAssumption DEF ChangeStatus, ChangeRolledBack, Alone, AtWork
  <2> QED
    BY <1>0, <2>1, <2>2
<1>8. CASE UNCHANGED vars
  BY <1>0, <1>8 DEF vars
<1> QED
  <2>1. ASSUME NEW w \in Worker, SyncStep(w) \/ SyncFault(w)
        PROVE  (ListHoldsFleet /\ DecommissionedWasDropped)'
    BY <1>2, <1>4, <1>5, <2>1
  <2> QED
    BY <1>1, <1>6, <1>7, <1>8, <2>1 DEF Next, RequestStep

--------------------------------------------------------------------------------

\* The inductive invariant: besides the properties it says that a run covers its list,
\* that the list is SAP's but for what was dropped since, and that a run nobody worked
\* beside has every vehicle on its list that SAP never dropped.
THEOREM Invariance == Spec => []IInv
<1>1. Init => IInv
  BY InitIInv
<1>2. IInv /\ [Next]_vars => IInv'
  BY NextTypeOK, NextKnown, NextFromSAP, NextAlone, NextUndropped
  DEF IInv, FromSAP, Undropped
<1> QED
  BY <1>1, <1>2, PTL DEF Spec

\* Every value of every variable is of its declared type, for any numbers, drivers,
\* workers and requests: the rows, the lists and copies runs hold, the run rows.
THEOREM TypeCorrect == Spec => []TypeOK
BY Invariance, PTL DEF IInv

\* Every driver that a vehicle names has a row of its own, whatever was refused, rolled
\* back or overlapped (_sync_one, _sync_drivers).
THEOREM AssignedAreKnownHolds == Spec => []AssignedAreKnown
BY Invariance, PTL DEF IInv, Known

\* As long as no two runs, and no run and user, worked at the same time, the last step of
\* a run takes out of service only what SAP dropped (decommission_missing_from_sap).
THEOREM DecommissionedWasDroppedHolds == Spec => []DecommissionedWasDropped
BY Invariance, PTL DEF IInv, Undropped

================================================================================
