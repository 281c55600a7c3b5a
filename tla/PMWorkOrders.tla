------------------------------ MODULE PMWorkOrders ------------------------------
(***************************************************************************)
(* Preventive maintenance: plans, the work orders triggered from them by   *)
(* users and by the daily sweep, their completion, and the SAP             *)
(* notification a user may ask for with a trigger.                         *)
(*                                                                         *)
(* An HTTP request checks, may call SAP, and commits everything it saved   *)
(* in one step; when no number came back it commits the row of the gateway *)
(* and nothing else.  The sweep of the plans and the sweep of the gateway  *)
(* run in workers without a transaction: each save is visible at once, and *)
(* a worker may die in between.  SAP may have done what a failed call      *)
(* asked for: a lost answer is recorded as FAILED as well.                 *)
(***************************************************************************)
EXTENDS Naturals

CONSTANTS
  Plan,        \* maintenance plans
  DatedPlans,  \* those whose next_due_at something outside this code sets
  Request,     \* HTTP requests being served at the same time
  Worker,      \* Celery workers that run the daily sweep
  Resender,    \* Celery workers that run the retry sweep of the SAP gateway
  MaxOrders,   \* bound: work orders per plan, attempted ones included
  MaxRetries,  \* MAX_RETRY_ATTEMPTS
  MaxCrashes,  \* bound: deaths of a worker
  Faults       \* the faults of a request that may happen

ASSUME PMAssumption ==
  /\ DatedPlans \subseteq Plan
  /\ MaxOrders \in Nat \ {0} /\ MaxRetries \in Nat /\ MaxCrashes \in Nat
  /\ Request \cap Worker = {}
  /\ Faults \subseteq {"refused", "rollback"}

WorkOrder == Plan \X (1 .. MaxOrders)
Proc == Request \cup Worker

VARIABLES
  plans,       \* the pm_plan rows
  due,         \* the plans whose next_due_at has passed
  wos,         \* the pm_work_order rows
  tx,          \* the gateway's row of every work order's notification
  notified,    \* how many notifications SAP has created for a work order
  proc,        \* what every request and worker is at
  resend,      \* what every retry sweep is at
  batch,       \* the due plans a sweep still has to look at
  crashes      \* history: how often a worker died

vars == <<plans, due, wos, tx, notified, proc, resend, batch, crashes>>

\* No operation suspends or deactivates a plan.  recorded: last_triggered_at is set.
PlanRow == [status : {"NONE", "ACTIVE"}, recorded : BOOLEAN]

\* SCHEDULED and IN_PROGRESS are passed through inside one handler, and nothing
\* cancels a work order or marks it overdue.  asked: a notification was asked for.
WORow == [status : {"NONE", "TRIGGERED", "COMPLETED"}, asked : BOOLEAN]

NoWO == [status |-> "NONE", asked |-> FALSE]

\* IN_PROGRESS stands for RETRYING too; what else the statuses tell apart is for
\* SAPTransactions to say.  SUCCESS may be without a number.
TXRow == [status : {"NONE", "IN_PROGRESS", "FAILED", "SUCCESS"}, retry : 0 .. MaxRetries]

NoTX == [status |-> "NONE", retry |-> 0]

PC == {"idle", "call", "save", "complete", "next", "plan", "order"}

\* wo: the work order in memory, the first component its plan.
ProcState == [pc : PC, wo : WorkOrder \cup {<<>>}, row : WORow]

Idle == [pc |-> "idle", wo |-> <<>>, row |-> NoWO]

\* retry: of the copy of the row the sweep has read and counted up.
ResendState == [pc : {"idle", "loaded", "call"}, wo : WorkOrder \cup {<<>>}, retry : 0 .. MaxRetries]

NoResend == [pc |-> "idle", wo |-> <<>>, retry |-> 0]

TypeOK ==
  /\ plans \in [Plan -> PlanRow]
  /\ due \subseteq DatedPlans
  /\ wos \in [WorkOrder -> WORow]
  /\ tx \in [WorkOrder -> TXRow]
  /\ notified \in [WorkOrder -> Nat]
  /\ proc \in [Proc -> ProcState]
  /\ resend \in [Resender -> ResendState]
  /\ batch \in [Worker -> SUBSET Plan]
  /\ crashes \in 0 .. MaxCrashes

Init ==
  /\ plans = [p \in Plan |-> [status |-> "NONE", recorded |-> FALSE]]
  /\ due = {}
  /\ wos = [w \in WorkOrder |-> NoWO]
  /\ tx = [w \in WorkOrder |-> NoTX]
  /\ notified = [w \in WorkOrder |-> 0]
  /\ proc = [q \in Proc |-> Idle]
  /\ resend = [g \in Resender |-> NoResend]
  /\ batch = [k \in Worker |-> {}]
  /\ crashes = 0

--------------------------------------------------------------------------------
(* Helpers. *)

Tables == <<plans, due, wos, tx, notified>>

IsActive(p) == plans[p].status = "ACTIVE"

\* _ACTIVE_WO_STATUSES, of the orders that list_by_plan returns.
HasActiveOrder(p) == \E w \in WorkOrder : w[1] = p /\ wos[w].status = "TRIGGERED"

MayTrigger(p) == IsActive(p) /\ ~HasActiveOrder(p)

\* A uuid nothing refers to.
Unused(w) ==
  /\ wos[w] = NoWO /\ tx[w] = NoTX /\ notified[w] = 0
  /\ \A q \in Proc : proc[q].wo # w

\* The first unused one; uuids are alike.
NewOrder(p, w) ==
  /\ w[1] = p /\ Unused(w)
  /\ \A v \in WorkOrder : v[1] = p /\ v[2] < w[2] => ~Unused(v)

Enter(q, state) ==
  /\ proc[q] = Idle
  /\ proc' = [proc EXCEPT ![q] = state]

Leave(q) == proc' = [proc EXCEPT ![q] = Idle]

\* Mutated form: completing only starts the order.
CompleteStarts(row) == [row EXCEPT !.status = "IN_PROGRESS"]

\* PMWorkOrder.trigger() of a new order, and start() with complete().
Triggered(asked) == [status |-> "TRIGGERED", asked |-> asked]
Completed(row) == [row EXCEPT !.status = "COMPLETED"]

Recorded(p) == [plans EXCEPT ![p].recorded = TRUE]

--------------------------------------------------------------------------------
(* Mutated forms of the actions below. *)

\* list_pending_for_retry asks for the budget only, not for the status.
LoadRetryAny(g, w) ==
  /\ resend[g] = NoResend
  /\ tx[w].status # "NONE" /\ tx[w].retry < MaxRetries
  /\ resend' = [resend EXCEPT ![g] = [pc |-> "loaded", wo |-> w, retry |-> tx[w].retry + 1]]
  /\ UNCHANGED <<Tables, proc, batch, crashes>>

\* The sweep forgets the rest of its list after a plan it could not trigger.
SweepSkipAborts(k, p) ==
  /\ proc[k].pc = "next"
  /\ p \in batch[k]
  /\ ~MayTrigger(p)
  /\ batch' = [batch EXCEPT ![k] = {}]
  /\ UNCHANGED <<Tables, proc, resend, crashes>>

--------------------------------------------------------------------------------
(* Plans. *)

\* CreatePMPlan leaves next_due_at empty.
CreatePlan(p) ==
  /\ plans[p].status = "NONE"
  /\ plans' = [plans EXCEPT ![p].status = "ACTIVE"]
  /\ UNCHANGED <<due, wos, tx, notified, proc, resend, batch, crashes>>

\* Time reaches the date that was set.  No code moves it on afterwards.
FallDue(p) ==
  /\ p \in DatedPlans \ due
  /\ IsActive(p)
  /\ due' = due \cup {p}
  /\ UNCHANGED <<plans, wos, tx, notified, proc, resend, batch, crashes>>

--------------------------------------------------------------------------------
(* HTTP requests. *)

\* The checks, and the new work order in memory.  One more identifier is left to the
\* sweep, so that the bound on attempts never blocks it.
LoadTrigger(r, p, asked) ==
  /\ MayTrigger(p)
  /\ \E w \in WorkOrder :
       /\ NewOrder(p, w)
       /\ \E v \in WorkOrder \ {w} : v[1] = p /\ Unused(v)
       /\ Enter(r, [pc |-> IF asked THEN "call" ELSE "save", wo |-> w,
                    row |-> Triggered(asked)])
  /\ UNCHANGED <<Tables, resend, batch, crashes>>

NotificationCreated(r) ==
  /\ proc[r].pc = "call"
  /\ notified' = [notified EXCEPT ![proc[r].wo] = @ + 1]
  /\ proc' = [proc EXCEPT ![r].pc = "save"]
  /\ UNCHANGED <<plans, due, wos, tx, resend, batch, crashes>>

\* FMMSIntegrationError, answered, and the gateway's row is committed: FAILED when SAP
\* refused or the answer was lost, SUCCESS when it came without a number.  n: the
\* notifications SAP has made of it all the same.
NotificationRefused(r, status, n) ==
  /\ proc[r].pc = "call"
  /\ "refused" \in Faults
  /\ tx' = [tx EXCEPT ![proc[r].wo].status = status]
  /\ notified' = [notified EXCEPT ![proc[r].wo] = @ + n]
  /\ Leave(r)
  /\ UNCHANGED <<plans, due, wos, resend, batch, crashes>>

\* The plan, the work order and the gateway's row are committed together.
SaveTrigger(r) ==
  LET w == proc[r].wo IN
  /\ proc[r].pc = "save" /\ r \in Request
  /\ plans' = Recorded(w[1])
  /\ wos' = [wos EXCEPT ![w] = proc[r].row]
  /\ tx' = IF proc[r].row.asked THEN [tx EXCEPT ![w].status = "SUCCESS"] ELSE tx
  /\ Leave(r)
  /\ UNCHANGED <<due, notified, resend, batch, crashes>>

\* An unmapped error, or the death of the server process, before or after SAP answered.
RollBack(r) ==
  /\ "rollback" \in Faults
  /\ r \in Request /\ proc[r].pc \in {"call", "save"}
  /\ Leave(r)
  /\ UNCHANGED <<Tables, resend, batch, crashes>>

LoadComplete(r, w) ==
  /\ wos[w].status = "TRIGGERED"
  /\ Enter(r, [pc |-> "complete", wo |-> w, row |-> wos[w]])
  /\ UNCHANGED <<Tables, resend, batch, crashes>>

CompleteWorkOrder(r) ==
  /\ proc[r].pc = "complete"
  /\ wos' = [wos EXCEPT ![proc[r].wo] = Completed(proc[r].row)]
  /\ Leave(r)
  /\ UNCHANGED <<plans, due, tx, notified, resend, batch, crashes>>

--------------------------------------------------------------------------------
(* Workers. *)

\* retry(): the row is read again, here by any number of sweeps, and counted up.
LoadRetry(g, w) ==
  /\ resend[g] = NoResend
  /\ tx[w].status = "FAILED" /\ tx[w].retry < MaxRetries
  /\ resend' = [resend EXCEPT ![g] = [pc |-> "loaded", wo |-> w, retry |-> tx[w].retry + 1]]
  /\ UNCHANGED <<Tables, proc, batch, crashes>>

\* The row of the gateway as the sweep holds it, whatever it has become since.
SaveRow(g, status) ==
  tx' = [tx EXCEPT ![resend[g].wo] = [status |-> status, retry |-> resend[g].retry]]

ClaimRetry(g) ==
  /\ resend[g].pc = "loaded"
  /\ SaveRow(g, "IN_PROGRESS")
  /\ resend' = [resend EXCEPT ![g].pc = "call"]
  /\ UNCHANGED <<plans, due, wos, notified, proc, batch, crashes>>

\* The stored notification is sent again (_retry_pm_notification); n and status as in
\* NotificationRefused, and both at their best when all goes well.
RetryAnswered(g, status, n) ==
  /\ resend[g].pc = "call"
  /\ SaveRow(g, status)
  /\ notified' = [notified EXCEPT ![resend[g].wo] = @ + n]
  /\ resend' = [resend EXCEPT ![g] = NoResend]
  /\ UNCHANGED <<plans, due, wos, proc, batch, crashes>>

\* The worker dies: the row stays as last saved, and SAP may have the notification.
RetryCrash(g, n) ==
  /\ crashes < MaxCrashes
  /\ resend[g] # NoResend
  /\ n = 0 \/ resend[g].pc = "call"
  /\ notified' = [notified EXCEPT ![resend[g].wo] = @ + n]
  /\ resend' = [resend EXCEPT ![g] = NoResend]
  /\ crashes' = crashes + 1
  /\ UNCHANGED <<plans, due, wos, tx, proc, batch>>

\* list_active, and the plans whose date is not after the time the sweep started; by
\* the bound, of those that still have an identifier for an order.
SweepStart(k) ==
  /\ due # {}
  /\ Enter(k, [Idle EXCEPT !.pc = "next"])
  /\ batch' = [batch EXCEPT ![k] = 
       {p \in due : IsActive(p) /\ \E w \in WorkOrder : NewOrder(p, w)}]
  /\ UNCHANGED <<Tables, resend, crashes>>

\* TriggerPMWorkOrder raises: logged, and the sweep goes on.
SweepSkip(k, p) ==
  /\ proc[k].pc = "next"
  /\ p \in batch[k]
  /\ ~MayTrigger(p)
  /\ batch' = [batch EXCEPT ![k] = @ \ {p}]
  /\ UNCHANGED <<Tables, proc, resend, crashes>>

\* The plan is read again and checked; beat asks for no notification.
SweepTake(k, p) ==
  /\ proc[k].pc = "next"
  /\ p \in batch[k]
  /\ MayTrigger(p)
  /\ \E w \in WorkOrder :
       /\ NewOrder(p, w)
       /\ proc' = [proc EXCEPT ![k] = [pc |-> "plan", wo |-> w, row |-> Triggered(FALSE)]]
  /\ batch' = [batch EXCEPT ![k] = @ \ {p}]
  /\ UNCHANGED <<Tables, resend, crashes>>

SweepSavePlan(k) ==
  /\ proc[k].pc = "plan"
  /\ plans' = Recorded(proc[k].wo[1])
  /\ proc' = [proc EXCEPT ![k].pc = "order"]
  /\ UNCHANGED <<due, wos, tx, notified, resend, batch, crashes>>

SweepSaveOrder(k) ==
  /\ proc[k].pc = "order"
  /\ wos' = [wos EXCEPT ![proc[k].wo] = proc[k].row]
  /\ proc' = [proc EXCEPT ![k] = [Idle EXCEPT !.pc = "next"]]
  /\ UNCHANGED <<plans, due, tx, notified, resend, batch, crashes>>

SweepEnd(k) ==
  /\ proc[k].pc = "next"
  /\ batch[k] = {}
  /\ Leave(k)
  /\ UNCHANGED <<Tables, resend, batch, crashes>>

\* What it had saved stays; beat starts a new sweep the next day.
WorkerCrash(k) ==
  /\ crashes < MaxCrashes
  /\ proc[k] # Idle
  /\ Leave(k)
  /\ batch' = [batch EXCEPT ![k] = {}]
  /\ crashes' = crashes + 1
  /\ UNCHANGED <<Tables, resend>>

--------------------------------------------------------------------------------

RequestStep(r) ==
  \/ \E p \in Plan, asked \in BOOLEAN : LoadTrigger(r, p, asked)
  \/ NotificationCreated(r) \/ SaveTrigger(r) \/ RollBack(r)
  \/ \E status \in {"FAILED", "SUCCESS"}, n \in {0, 1} : NotificationRefused(r, status, n)
  \/ \E w \in WorkOrder : LoadComplete(r, w)
  \/ CompleteWorkOrder(r)

RetryStep(g) ==
  \/ \E w \in WorkOrder : LoadRetry(g, w)
  \/ ClaimRetry(g)
  \/ \E status \in {"FAILED", "SUCCESS"}, n \in {0, 1} : RetryAnswered(g, status, n)
  \/ \E n \in {0, 1} : RetryCrash(g, n)

SweepStep(k) ==
  \/ SweepStart(k) \/ SweepEnd(k)
  \/ \E p \in Plan : SweepSkip(k, p) \/ SweepTake(k, p)
  \/ SweepSavePlan(k) \/ SweepSaveOrder(k)

Next ==
  \/ \E p \in Plan : CreatePlan(p) \/ FallDue(p)
  \/ \E r \in Request : RequestStep(r)
  \/ \E g \in Resender : RetryStep(g)
  \/ \E k \in Worker : SweepStep(k) \/ WorkerCrash(k)

Spec == Init /\ [][Next]_vars

\* Time passes, beat starts the sweep every day and a live worker goes on with it.
\* Nothing is assumed of users, of faults or of SAP.
Fairness ==
  /\ \A p \in Plan : WF_vars(FallDue(p))
  /\ \A k \in Worker : WF_vars(SweepStep(k))

FairSpec == Spec /\ Fairness

--------------------------------------------------------------------------------
(* Properties of every execution. *)

\* SAP has exactly one notification of a work order that was triggered with one, and
\* none of any other, although a failed call is sent again, by two sweeps at once even,
\* and may have been carried out before (trigger_pm_work_order, _retry_pm_notification).
\* Of attempts that left no work order SAP may have any number.
NotifiedAsAsked ==
  \A w \in WorkOrder :
    wos[w].status # "NONE" => notified[w] = IF wos[w].asked THEN 1 ELSE 0

--------------------------------------------------------------------------------
(* Liveness. *)

\* A plan that falls due gets a work order, whatever becomes of the other plans the
\* sweep finds, of the requests beside it and of a worker's death (trigger_overdue_pm_work_orders).
DueIsTriggered ==
  \A p \in Plan : p \in due ~> \E w \in WorkOrder : w[1] = p /\ wos[w].status # "NONE"

================================================================================
