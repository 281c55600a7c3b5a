------------------------------- MODULE FleetSync -------------------------------
(***************************************************************************)
(* The fleet as SAP knows it, brought into FMMS by a Celery worker: a run  *)
(* reads SAP's list of vehicles and drivers, applies it row by row, each   *)
(* row in a transaction of its own, and at the end takes out of service    *)
(* everything the list did not hold.  The list grows old while the run     *)
(* works on it.  Meanwhile SAP changes, users change the status of         *)
(* vehicles, runs fail and workers die.  A row is refused for what SAP     *)
(* put into it, or for a licence plate another vehicle holds, again in     *)
(* every run until that changes.                                           *)
(***************************************************************************)
EXTENDS Naturals

CONSTANTS
  Number,      \* SAP vehicle numbers
  Driver,      \* SAP customer numbers of drivers
  Worker,      \* Celery workers that run the sync
  Request,     \* HTTP requests that change a vehicle's status
  Plate,       \* licence plates
  NoPlate,     \* a row of SAP without a plate, and no vehicle
  Legacy,      \* _OBSOLETE_LEGACY_MOCK_VEHICLE_NUMBERS
  First,       \* the list SAP starts with
  Lists,       \* bound: the lists SAP may change to
  MaxChanges,  \* bound: changes of SAP's master data and of vehicles' status
  MaxFaults    \* bound: failed reads, aborted runs and deaths of workers

\* A row of SAP carries up to two drivers.  bad: what of it does not parse, a customer
\* number of a driver or the plate.
MasterRow ==
  [listed : BOOLEAN, bad : {"nothing", "driver", "plate"}, plate : Plate \cup {NoPlate},
   drivers : SUBSET Driver]

ASSUME FleetAssumption ==
  /\ Number # {} /\ MaxChanges \in Nat /\ MaxFaults \in Nat
  /\ Worker \cap Request = {}
  /\ Legacy \subseteq Number
  /\ NoPlate \notin Plate \cup Number
  /\ First \in [Number -> MasterRow]
  /\ Lists \subseteq [Number -> MasterRow]

VARIABLES
  master,     \* SAP: the row of every vehicle number
  fleet,      \* the vehicle rows
  drivers,    \* the driver rows
  snapshot,   \* the latest assignment history rows of a vehicle
  sync,       \* what every worker is at
  run,        \* the status of every worker's latest sync run row
  req,        \* what every HTTP request has loaded
  dropped,    \* history: the numbers SAP has taken off its list
  overlapped, \* history: two of them were at work at the same time
  changes,    \* counters for the bounds
  faults

vars == <<master, fleet, drivers, snapshot, sync, run, req, dropped, overlapped,
          changes, faults>>

\* OUT_OF_SERVICE stands for every status but these; the ones between which users
\* and the maintenance workflow move a vehicle are told apart in
\* MaintenanceWorkflow.  A vehicle that SAP gave no plate has a plate of its number,
\* _deterministic_plate.
VehicleRow == [status : {"NONE", "ACTIVE", "OUT_OF_SERVICE", "DECOMMISSIONED"},
               plate : Plate \cup Number \cup {NoPlate}, drivers : SUBSET Driver]

NoVehicle == [status |-> "NONE", plate |-> NoPlate, drivers |-> {}]

DriverStatus == {"NONE", "ACTIVE", "DECOMMISSIONED"}

RunStatus == {"NONE", "IN_PROGRESS", "SUCCESS", "PARTIAL_SUCCESS", "FAILED"}

\* list: the rows read; todo: those still to apply; copy: the vehicle loaded for n;
\* seen, seenDrivers: what the last step will spare.
SyncState ==
  [pc : {"idle", "read", "rows", "row", "rest"}, list : [Number -> MasterRow],
   todo : SUBSET Number, n : Number, copy : VehicleRow,
   seen : SUBSET Number, seenDrivers : SUBSET Driver, ok : BOOLEAN]

Unlisted == [listed |-> FALSE, bad |-> "nothing", plate |-> NoPlate, drivers |-> {}]

NoList == [n \in Number |-> Unlisted]

AnyNumber == CHOOSE n \in Number : TRUE

IdleSync ==
  [pc |-> "idle", list |-> NoList, todo |-> {}, n |-> AnyNumber, copy |-> NoVehicle,
   seen |-> {}, seenDrivers |-> {}, ok |-> TRUE]

RequestState == [busy : BOOLEAN, n : Number, copy : VehicleRow]

Idle == [busy |-> FALSE, n |-> AnyNumber, copy |-> NoVehicle]

TypeOK ==
  /\ master \in [Number -> MasterRow]
  /\ fleet \in [Number -> VehicleRow]
  /\ drivers \in [Driver -> DriverStatus]
  /\ snapshot \in [Number -> SUBSET Driver]
  /\ sync \in [Worker -> SyncState]
  /\ run \in [Worker -> RunStatus]
  /\ req \in [Request -> RequestState]
  /\ dropped \subseteq Number
  /\ overlapped \in BOOLEAN
  /\ changes \in 0 .. MaxChanges
  /\ faults \in 0 .. MaxFaults

Init ==
  /\ master = First
  /\ fleet = [n \in Number |-> NoVehicle]
  /\ drivers = [d \in Driver |-> "NONE"]
  /\ snapshot = [n \in Number |-> {}]
  /\ sync = [w \in Worker |-> IdleSync]
  /\ run = [w \in Worker |-> "NONE"]
  /\ req = [r \in Request |-> Idle]
  /\ dropped = {}
  /\ overlapped = FALSE
  /\ changes = 0
  /\ faults = 0

--------------------------------------------------------------------------------
(* Helpers. *)

Tables == <<fleet, drivers, snapshot>>

Histories == <<dropped, overlapped, changes, faults>>

Listed(rows) == {n \in Number : rows[n].listed}

\* The drivers a run gets to see: none of a row with a customer number that is none.
DriversOf(rows) == UNION {rows[n].drivers : n \in {m \in Listed(rows) : rows[m].bad # "driver"}}

AtWork ==
  {w \in Worker : sync[w].pc # "idle"} \cup {r \in Request : req[r].busy}

\* p enters while the others are at work.
NoteOverlap(p) == overlapped' = (overlapped \/ AtWork \ {p} # {})

Fault == faults < MaxFaults /\ faults' = faults + 1

\* _apply_sap_fields, or a new ACTIVE vehicle.
ApplySAP(n, copy, row) ==
  [status |-> IF copy.status = "NONE" THEN "ACTIVE" ELSE copy.status,
   plate |-> IF row.plate # NoPlate THEN row.plate
             ELSE IF copy.status = "NONE" THEN n ELSE copy.plate,
   drivers |-> row.drivers]

\* unique_vehicle_license_plate, of all rows, the decommissioned ones too.
Taken(n, plate) == \E m \in Number \ {n} : fleet[m].status # "NONE" /\ fleet[m].plate = plate

\* The row in hand cannot be saved: its plate is none or is taken, or its number has
\* been registered since it was looked up.
RowFails(s) ==
  \/ s.list[s.n].bad = "plate"
  \/ Taken(s.n, ApplySAP(s.n, s.copy, s.list[s.n]).plate)
  \/ s.copy.status = "NONE" /\ fleet[s.n].status # "NONE"

\* A vehicle that was deleted after it was loaded is saved anew, unless its number has
\* come back under another id.
MayBeAnother(n, copy) == n \in Legacy /\ copy.status # "NONE" /\ fleet[n].status # "NONE"


\* _sync_drivers: a driver that is new, or DECOMMISSIONED, becomes ACTIVE.
Upsert(ds) == [d \in Driver |-> IF d \in ds THEN "ACTIVE" ELSE drivers[d]]

\* decommission_missing_from_sap of both repositories, which do not look at the state
\* machine; the vehicles of the old mock are deleted, whether SAP lists them or not.
DecommissionVehicles(seen) ==
  [n \in Number |-> IF n \in Legacy THEN NoVehicle
                    ELSE IF n \in seen \/ fleet[n].status = "NONE" THEN fleet[n]
                    ELSE [fleet[n] EXCEPT !.status = "DECOMMISSIONED"]]

DecommissionDrivers(seen) ==
  [d \in Driver |-> IF d \in seen \/ drivers[d] = "NONE" THEN drivers[d]
                    ELSE "DECOMMISSIONED"]

--------------------------------------------------------------------------------
(* SAP's master data. *)

MasterChanges(list) ==
  /\ changes < MaxChanges
  /\ list # master
  /\ master' = list
  /\ changes' = changes + 1
  /\ dropped' = dropped \cup (Listed(master) \ Listed(list))
  /\ UNCHANGED <<Tables, sync, run, req, overlapped, faults>>

--------------------------------------------------------------------------------
(* Mutated forms of the sync's steps. *)

\* A row counts as seen only when it has been applied.
RowRefusedUnseen(w, n) ==
  /\ sync[w].pc = "rows" /\ n \in sync[w].todo
  /\ sync[w].list[n].bad = "driver"
  /\ sync' = [sync EXCEPT ![w].todo = @ \ {n}]
  /\ UNCHANGED <<master, Tables, run, req, Histories>>

\* The row's drivers are saved only when the vehicle was known.
SaveRowKnown(w) ==
  LET s == sync[w] row == s.list[s.n] IN
  /\ s.pc = "row"
  /\ ~RowFails(s)
  /\ fleet' = [fleet EXCEPT ![s.n] = ApplySAP(s.n, s.copy, row)]
  /\ snapshot' = [snapshot EXCEPT ![s.n] = row.drivers]
  /\ drivers' = IF s.copy.status = "NONE" THEN drivers ELSE Upsert(row.drivers)
  /\ sync' = [sync EXCEPT ![w].pc = "rows"]
  /\ UNCHANGED <<master, run, req, Histories>>

\* A worker that dies leaves the summary of its run to the next one.
WorkerCrashReported(w) ==
  /\ sync[w].pc # "idle"
  /\ Fault
  /\ sync' = [sync EXCEPT ![w] = IdleSync]
  /\ run' = [run EXCEPT ![w] = "CRASHED"]
  /\ UNCHANGED <<master, Tables, req, dropped, overlapped, changes>>

--------------------------------------------------------------------------------
(* The sync. *)

\* RunSAPSync.execute: a run row, then the list_vehicle_drivers call.
SyncStart(w) ==
  /\ sync[w].pc = "idle"
  /\ NoteOverlap(w)
  /\ run' = [run EXCEPT ![w] = "IN_PROGRESS"]
  /\ sync' = [sync EXCEPT ![w].pc = "read"]
  /\ UNCHANGED <<master, Tables, req, dropped, changes, faults>>

SyncRead(w) ==
  /\ sync[w].pc = "read"
  /\ sync' = [sync EXCEPT ![w].pc = "rows", ![w].list = master,
                          ![w].todo = Listed(master)]
  /\ UNCHANGED <<master, Tables, run, req, Histories>>

\* The read fails, or an error that is no refusal ends the loop: the item is
\* FAILED, what was applied stays, and nothing is decommissioned.
SyncFails(w) ==
  /\ sync[w].pc \in {"read", "rows", "row"}
  /\ Fault
  /\ sync' = [sync EXCEPT ![w].pc = "rest", ![w].ok = FALSE]
  /\ UNCHANGED <<master, Tables, run, req, dropped, overlapped, changes>>

\* Seen before anything can go wrong; then get_by_vehicle_number.
LoadRow(w, n) ==
  /\ sync[w].pc = "rows" /\ n \in sync[w].todo
  /\ sync[w].list[n].bad # "driver"
  /\ sync' = [sync EXCEPT ![w].pc = "row", ![w].n = n, ![w].copy = fleet[n],
                          ![w].todo = @ \ {n}, ![w].seen = @ \cup {n},
                          ![w].seenDrivers = @ \cup sync[w].list[n].drivers]
  /\ UNCHANGED <<master, Tables, run, req, Histories>>

\* The vehicle, both snapshot rows and the drivers are committed together.
SaveRow(w) ==
  LET s == sync[w] row == s.list[s.n] IN
  /\ s.pc = "row"
  /\ ~RowFails(s)
  /\ fleet' = [fleet EXCEPT ![s.n] = ApplySAP(s.n, s.copy, row)]
  /\ snapshot' = [snapshot EXCEPT ![s.n] = row.drivers]
  /\ drivers' = Upsert(row.drivers)
  /\ sync' = [sync EXCEPT ![w].pc = "rows"]
  /\ UNCHANGED <<master, run, req, Histories>>

\* ValueError or IntegrityError: the row is rolled back, and has been seen.
RowRolledBack(w) ==
  LET s == sync[w] IN
  /\ s.pc = "row"
  /\ RowFails(s) \/ MayBeAnother(s.n, s.copy)
  /\ sync' = [sync EXCEPT ![w].pc = "rows"]
  /\ UNCHANGED <<master, Tables, run, req, Histories>>

\* ValueError for a customer number: the row is rolled back, its vehicle counts as
\* seen and none of its drivers does.
RowRefused(w, n) ==
  /\ sync[w].pc = "rows" /\ n \in sync[w].todo
  /\ sync[w].list[n].bad = "driver"
  /\ sync' = [sync EXCEPT ![w].todo = @ \ {n}, ![w].seen = @ \cup {n}]
  /\ UNCHANGED <<master, Tables, run, req, Histories>>

Decommission(w) ==
  /\ sync[w].pc = "rows" /\ sync[w].todo = {}
  /\ fleet' = DecommissionVehicles(sync[w].seen)
  /\ drivers' = DecommissionDrivers(sync[w].seenDrivers)
  /\ sync' = [sync EXCEPT ![w].pc = "rest"]
  /\ UNCHANGED <<master, snapshot, run, req, Histories>>

\* _global_status over the vehicles' item and the three that follow it, of which
\* some, all or none succeeded.
GlobalStatus(ok, rest) ==
  CASE ok /\ rest = "all" -> "SUCCESS"
    [] ~ok /\ rest = "none" -> "FAILED"
    [] OTHER -> "PARTIAL_SUCCESS"

SyncEnd(w, rest) ==
  /\ sync[w].pc = "rest"
  /\ run' = [run EXCEPT ![w] = GlobalStatus(sync[w].ok, rest)]
  /\ sync' = [sync EXCEPT ![w] = IdleSync]
  /\ UNCHANGED <<master, Tables, req, Histories>>

\* The run row stays IN_PROGRESS.
WorkerCrash(w) ==
  /\ sync[w].pc # "idle"
  /\ Fault
  /\ sync' = [sync EXCEPT ![w] = IdleSync]
  /\ UNCHANGED <<master, Tables, run, req, dropped, overlapped, changes>>

--------------------------------------------------------------------------------
(* Users. *)

\* transition_to on the copy: nothing leads out of DECOMMISSIONED.
LoadVehicle(r, n) ==
  /\ ~req[r].busy
  /\ fleet[n].status \in {"ACTIVE", "OUT_OF_SERVICE"}
  /\ changes < MaxChanges
  /\ changes' = changes + 1
  /\ NoteOverlap(r)
  /\ req' = [req EXCEPT ![r] = [busy |-> TRUE, n |-> n, copy |-> fleet[n]]]
  /\ UNCHANGED <<master, Tables, sync, run, dropped, faults>>

\* The whole row is saved, with the plate and the drivers it was loaded with.
ChangeStatus(r) ==
  LET q == req[r] IN
  /\ q.busy
  /\ ~Taken(q.n, q.copy.plate)
  /\ fleet' = [fleet EXCEPT ![q.n] =
       [q.copy EXCEPT !.status = IF @ = "ACTIVE" THEN "OUT_OF_SERVICE" ELSE "ACTIVE"]]
  /\ req' = [req EXCEPT ![r] = Idle]
  /\ UNCHANGED <<master, drivers, snapshot, sync, run, Histories>>

\* IntegrityError, of the plate or the number: nothing is saved.
ChangeRolledBack(r) ==
  LET q == req[r] IN
  /\ q.busy
  /\ Taken(q.n, q.copy.plate) \/ MayBeAnother(q.n, q.copy)
  /\ req' = [req EXCEPT ![r] = Idle]
  /\ UNCHANGED <<master, Tables, sync, run, Histories>>

--------------------------------------------------------------------------------

SyncStep(w) ==
  \/ SyncStart(w) \/ SyncRead(w)
  \/ \E n \in Number : LoadRow(w, n) \/ RowRefused(w, n)
  \/ SaveRow(w) \/ RowRolledBack(w) \/ Decommission(w)
  \/ \E rest \in {"all", "some", "none"} : SyncEnd(w, rest)

SyncFault(w) == SyncFails(w) \/ WorkerCrash(w)

RequestStep(r) ==
  \/ \E n \in Number : LoadVehicle(r, n)
  \/ ChangeStatus(r) \/ ChangeRolledBack(r)

Next ==
  \/ \E list \in Lists : MasterChanges(list)
  \/ \E w \in Worker : SyncStep(w) \/ SyncFault(w)
  \/ \E r \in Request : RequestStep(r)

Spec == Init /\ [][Next]_vars

\* Beat starts the sync again and again, and a live worker goes on with it.
Fairness == \A w \in Worker : WF_vars(SyncStep(w))

FairSpec == Spec /\ Fairness

--------------------------------------------------------------------------------
(* Properties. *)

\* Every driver a vehicle names has a row, although vehicle and drivers are saved by
\* two repositories, rows are refused and users save old copies: a row is one
\* transaction (_sync_one, _sync_drivers).
AssignedAreKnown ==
  \A n \in Number : \A d \in fleet[n].drivers : drivers[d] # "NONE"

\* Only a vehicle that SAP has taken off its list is ever decommissioned, whatever
\* was refused or cut short, unless two runs or a run and a user overlapped: an
\* older list takes out what a newer one brought in (decommission_missing_from_sap).
DecommissionedWasDropped ==
  ~overlapped => \A n \in Number : fleet[n].status = "DECOMMISSIONED" => n \in dropped

\* SAP's row of a number is refused as long as nothing changes: for what is in it, for
\* its number, or for a plate that another vehicle holds or the old mock's gets in
\* every run.
Refused(n) ==
  \/ master[n].bad # "nothing" \/ n \in Legacy
  \/ master[n].plate # NoPlate /\ Taken(n, master[n].plate)
  \/ \E m \in Legacy \ {n} : master[m].listed /\ master[m].plate \in {master[n].plate} \ {NoPlate}

Applied(n) ==
  /\ fleet[n].status # "NONE" /\ fleet[n].drivers = master[n].drivers
  /\ master[n].plate \in {NoPlate, fleet[n].plate}
  /\ \A d \in master[n].drivers : drivers[d] = "ACTIVE"

\* FMMS has SAP's list but for what is refused, and nothing else is in service.  A
\* vehicle that SAP dropped once and lists again stays DECOMMISSIONED.
Matches ==
  /\ \A n \in Listed(master) : Refused(n) \/ Applied(n)
  /\ \A n \in Number \ Listed(master) : fleet[n].status \in {"NONE", "DECOMMISSIONED"}
  /\ {d \in Driver : drivers[d] = "ACTIVE"} \subseteq DriversOf(master)

================================================================================
