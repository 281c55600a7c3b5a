--------------------------- MODULE PMWorkOrdersProofs ---------------------------
(***************************************************************************)
(* Theorems about PMWorkOrders, for every set of plans, requests and       *)
(* workers, every number of retry sweeps at once, every retry budget and   *)
(* every set of faults.                                                    *)
(***************************************************************************)
EXTENDS PMWorkOrders, TLAPS

\* A process that makes a work order no table has yet.
Making(q) == proc[q].pc \in {"call", "save", "plan", "order"}

\* SAP answered the call of the order that is being made.
Answered(q) == proc[q].pc = "save" /\ proc[q].row.asked

\* The order being made is in no table, no other process knows it, and SAP has a
\* notification of it exactly when the call was answered.
MakingIsPrivate ==
  \A q \in Proc : Making(q) =>
    /\ proc[q].wo \in WorkOrder
    /\ wos[proc[q].wo] = NoWO
    /\ tx[proc[q].wo] = NoTX
    /\ notified[proc[q].wo] = IF Answered(q) THEN 1 ELSE 0
    /\ \A p \in Proc \ {q} : proc[p].wo # proc[q].wo

\* The gateway is called for orders that ask for it, and the sweep asks for nothing.
CallingAsks ==
  \A q \in Proc :
    /\ proc[q].pc = "call" => proc[q].row.asked
    /\ proc[q].pc \in {"plan", "order"} => ~proc[q].row.asked

\* The copy a completion writes back asks for what the saved order asked for.
CompletingIsSaved ==
  \A q \in Proc : proc[q].pc = "complete" =>
    /\ proc[q].wo \in WorkOrder
    /\ wos[proc[q].wo].status # "NONE"
    /\ proc[q].row.asked <=> wos[proc[q].wo].asked

\* The notification of a saved order is not sent again.
SavedIsSettled == \A w \in WorkOrder : wos[w].status # "NONE" => tx[w].status # "FAILED"

\* A retry sweep sends the notification of an attempt that left no order.
ResendIsApart ==
  \A g \in Resender : resend[g] = NoResend \/
    /\ resend[g].wo \in WorkOrder
    /\ tx[resend[g].wo].status # "NONE"
    /\ wos[resend[g].wo].status = "NONE"

IInv ==
  /\ TypeOK
  /\ MakingIsPrivate
  /\ CallingAsks
  /\ CompletingIsSaved
  /\ SavedIsSettled
  /\ ResendIsApart
  /\ NotifiedAsAsked

--------------------------------------------------------------------------------

LEMMA Rows ==
  /\ NoWO \in WORow /\ NoTX \in TXRow /\ Idle \in ProcState /\ NoResend \in ResendState
  /\ \A asked \in BOOLEAN : Triggered(asked) \in WORow
  /\ \A row \in WORow : Completed(row) \in WORow
BY PMAssumption DEF NoWO, WORow, NoTX, TXRow, Idle, ProcState, PC, NoResend, ResendState,
   Triggered, Completed

LEMMA InitIInv == Init => IInv
<1> SUFFICES ASSUME Init PROVE IInv
  OBVIOUS
<1>1. TypeOK
  BY Rows, PMAssumption DEF Init, TypeOK, PlanRow
<1>2. \A q \in Proc : proc[q].pc = "idle"
  BY DEF Init, Idle
<1>3. MakingIsPrivate /\ CallingAsks /\ CompletingIsSaved
  BY <1>2 DEF MakingIsPrivate, Making, CallingAsks, CompletingIsSaved
<1>4. SavedIsSettled /\ ResendIsApart /\ NotifiedAsAsked
  BY DEF Init, SavedIsSettled, ResendIsApart, NotifiedAsAsked, NoTX, NoWO
<1> QED
  BY <1>1, <1>3, <1>4 DEF IInv

--------------------------------------------------------------------------------

LEMMA NextTypeOK == TypeOK /\ [Next]_vars => TypeOK'
<1> SUFFICES ASSUME TypeOK, [Next]_vars PROVE TypeOK'
  OBVIOUS
<1> USE PMAssumption, Rows DEF TypeOK
<1>1. ASSUME NEW p \in Plan, CreatePlan(p) \/ FallDue(p) PROVE TypeOK'
  BY <1>1 DEF CreatePlan, FallDue, PlanRow
<1>2. ASSUME NEW r \in Request, NEW p \in Plan, NEW asked \in BOOLEAN, LoadTrigger(r, p, asked)
      PROVE  TypeOK'
  <2>1. PICK w \in WorkOrder :
           Enter(r, [pc |-> IF asked THEN "call" ELSE "save", wo |-> w, row |-> Triggered(asked)])
    BY <1>2 DEF LoadTrigger
  <2>2. [pc |-> IF asked THEN "call" ELSE "save", wo |-> w, row |-> Triggered(asked)] \in ProcState
    BY DEF ProcState, PC
  <2> QED
    BY <1>2, <2>1, <2>2 DEF LoadTrigger, Enter, Tables
<1>3. ASSUME NEW r \in Request, NEW status \in {"FAILED", "SUCCESS"}, NEW n \in {0, 1},
             NotificationCreated(r) \/ NotificationRefused(r, status, n)
      PROVE  TypeOK'
  <2>1. r \in Proc /\ [proc[r] EXCEPT !.pc = "save"] \in ProcState
    BY DEF Proc, ProcState, PC
  <2>2. \A w \in WorkOrder : [tx[w] EXCEPT !.status = status] \in TXRow
    BY DEF TXRow
  <2>3. CASE NotificationCreated(r)
    <3>1. proc' \in [Proc -> ProcState]
      BY <2>1, <2>3 DEF NotificationCreated
    <3>2. notified' \in [WorkOrder -> Nat]
      <4>1. \A w \in WorkOrder : notified[w] + 1 \in Nat
        OBVIOUS
      <4>2. notified' = [notified EXCEPT ![proc[r].wo] = notified[proc[r].wo] + 1]
        BY <2>3 DEF NotificationCreated
      <4> QED
        BY <4>1, <4>2
    <3> QED
      BY <2>3, <3>1, <3>2 DEF NotificationCreated
  <2>4. CASE NotificationRefused(r, status, n)
    <3>1. notified' \in [WorkOrder -> Nat]
      <4>1. \A w \in WorkOrder : notified[w] + n \in Nat
        OBVIOUS
      <4>2. notified' = [notified EXCEPT ![proc[r].wo] = notified[proc[r].wo] + n]
        BY <2>4 DEF NotificationRefused
      <4> QED
        BY <4>1, <4>2
    <3> QED
      BY <2>2, <2>4, <3>1 DEF NotificationRefused, Leave
  <2> QED
    BY <1>3, <2>3, <2>4
<1>4. ASSUME NEW r \in Request, SaveTrigger(r) \/ RollBack(r) \/ CompleteWorkOrder(r)
      PROVE  TypeOK'
  <2>1. r \in Proc /\ proc[r].row \in WORow /\ Completed(proc[r].row) \in WORow
    BY DEF Proc, ProcState
  <2>2. Recorded(proc[r].wo[1]) \in [Plan -> PlanRow]
    BY DEF Recorded, PlanRow
  <2>3. \A w \in WorkOrder : [tx[w] EXCEPT !.status = "SUCCESS"] \in TXRow
    BY DEF TXRow
  <2>4. CASE SaveTrigger(r)
    BY <2>1, <2>2, <2>3, <2>4 DEF SaveTrigger, Leave
  <2>5. CASE RollBack(r) \/ CompleteWorkOrder(r)
    BY <2>1, <2>5 DEF RollBack, CompleteWorkOrder, Leave, Tables
  <2> QED
    BY <1>4, <2>4, <2>5
<1>5. ASSUME NEW r \in Request, NEW w \in WorkOrder, LoadComplete(r, w) PROVE TypeOK'
  <2>1. [pc |-> "complete", wo |-> w, row |-> wos[w]] \in ProcState
    BY DEF ProcState, PC
  <2> QED
    BY <1>5, <2>1 DEF LoadComplete, Enter, Tables
<1>6. ASSUME NEW g \in Resender, RetryStep(g) PROVE TypeOK'
  <2>1. ASSUME NEW w \in WorkOrder, LoadRetry(g, w) PROVE TypeOK'
    <3>1. [pc |-> "loaded", wo |-> w, retry |-> tx[w].retry + 1] \in ResendState
      BY <2>1 DEF LoadRetry, ResendState, TXRow
    <3> QED
      BY <2>1, <3>1 DEF LoadRetry, Tables
  <2>2. \A status \in {"IN_PROGRESS", "FAILED", "SUCCESS"} :
          [status |-> status, retry |-> resend[g].retry] \in TXRow
    BY DEF TXRow, ResendState
  <2>3. CASE ClaimRetry(g)
    <3>1. [resend[g] EXCEPT !.pc = "call"] \in ResendState
      BY DEF ResendState
    <3> QED
      BY <2>2, <2>3, <3>1 DEF ClaimRetry, SaveRow
  <2>4. \A n \in {0, 1}, w \in WorkOrder : notified[w] + n \in Nat
    OBVIOUS
  <2>5. ASSUME NEW n \in {0, 1}, notified' = [notified EXCEPT ![resend[g].wo] = @ + n]
        PROVE  notified' \in [WorkOrder -> Nat]
    <3>1. notified' = [notified EXCEPT ![resend[g].wo] = notified[resend[g].wo] + n]
      BY <2>5
    <3> QED
      BY <2>4, <3>1
  <2>6. ASSUME NEW status \in {"FAILED", "SUCCESS"}, NEW n \in {0, 1},
               RetryAnswered(g, status, n)
        PROVE  TypeOK'
    BY <2>2, <2>5, <2>6 DEF RetryAnswered, SaveRow
  <2>7. ASSUME NEW n \in {0, 1}, RetryCrash(g, n) PROVE TypeOK'
    <3>1. notified' \in [WorkOrder -> Nat]
      BY <2>5, <2>7 DEF RetryCrash
    <3> QED
      BY <2>7, <3>1 DEF RetryCrash
  <2> QED
    BY <1>6, <2>1, <2>3, <2>6, <2>7 DEF RetryStep
<1>7. ASSUME NEW k \in Worker, SweepStart(k) \/ SweepEnd(k) \/ WorkerCrash(k) PROVE TypeOK'
  <2>1. [Idle EXCEPT !.pc = "next"] \in ProcState
    BY DEF Idle, ProcState, PC, WORow, NoWO
  <2>2. {p \in due : IsActive(p) /\ \E w \in WorkOrder : NewOrder(p, w)} \in SUBSET Plan
    OBVIOUS
  <2>3. CASE SweepStart(k)
    BY <2>1, <2>2, <2>3 DEF SweepStart, Enter, Tables
  <2>4. CASE SweepEnd(k) \/ WorkerCrash(k)
    BY <2>4 DEF SweepEnd, WorkerCrash, Leave, Tables
  <2> QED
    BY <1>7, <2>3, <2>4
<1>8. ASSUME NEW k \in Worker, NEW p \in Plan, SweepSkip(k, p) \/ SweepTake(k, p)
      PROVE  TypeOK'
  <2>1. \A w \in WorkOrder : [pc |-> "plan", wo |-> w, row |-> Triggered(FALSE)] \in ProcState
    BY DEF ProcState, PC
  <2>2. proc' \in [Proc -> ProcState]
    BY <1>8, <2>1 DEF SweepSkip, SweepTake
  <2>3. batch' \in [Worker -> SUBSET Plan]
    BY <1>8 DEF SweepSkip, SweepTake
  <2> QED
    BY <1>8, <2>2, <2>3 DEF SweepSkip, SweepTake, Tables
<1>9. ASSUME NEW k \in Worker, SweepSavePlan(k) \/ SweepSaveOrder(k) PROVE TypeOK'
  <2>1. k \in Proc /\ proc[k].row \in WORow
    BY DEF Proc, ProcState
  <2>2. [Idle EXCEPT !.pc = "next"] \in ProcState /\ [proc[k] EXCEPT !.pc = "order"] \in ProcState
    BY <2>1 DEF Idle, ProcState, PC, WORow, NoWO
  <2>3. Recorded(proc[k].wo[1]) \in [Plan -> PlanRow]
    BY DEF Recorded, PlanRow
  <2> QED
    BY <1>9, <2>1, <2>2, <2>3 DEF SweepSavePlan, SweepSaveOrder
<1>10. CASE UNCHANGED vars
  BY <1>10 DEF vars
<1> QED
  BY <1>1, <1>2, <1>3, <1>4, <1>5, <1>6, <1>7, <1>8, <1>9, <1>10
  DEF Next, RequestStep, SweepStep

--------------------------------------------------------------------------------

\* A process takes up an unused identifier.
LEMMA TakesUnused ==
  ASSUME IInv, TypeOK',
         NEW q \in Proc, NEW w \in WorkOrder, NEW state \in ProcState,
         Unused(w), state.wo = w, state.pc \in {"call", "plan", "save"},
         state.pc = "save" => ~state.row.asked,
         state.pc = "plan" => ~state.row.asked,
         state.pc = "call" => state.row.asked,
         ~Making(q),
         proc' = [proc EXCEPT ![q] = state], UNCHANGED <<wos, tx, notified, resend>>
  PROVE  IInv'
<1> USE DEF IInv, TypeOK
<1>1. proc'[q] = state /\ \A p \in Proc \ {q} : proc'[p] = proc[p]
  OBVIOUS
<1>2. MakingIsPrivate'
  <2> SUFFICES ASSUME NEW p \in Proc, Making(p)'
               PROVE  /\ proc'[p].wo \in WorkOrder
                      /\ wos'[proc'[p].wo] = NoWO
                      /\ tx'[proc'[p].wo] = NoTX
                      /\ notified'[proc'[p].wo] = IF Answered(p)' THEN 1 ELSE 0
                      /\ \A o \in Proc \ {p} : proc'[o].wo # proc'[p].wo
    BY DEF MakingIsPrivate
  <2>1. CASE p = q
    BY <1>1, <2>1 DEF Unused, Answered
  <2>2. CASE p # q
    BY <1>1, <2>2 DEF Unused, MakingIsPrivate, Making, Answered
  <2> QED
    BY <2>1, <2>2
<1>3. CallingAsks' /\ CompletingIsSaved'
  BY <1>1 DEF CallingAsks, CompletingIsSaved
<1>4. SavedIsSettled' /\ ResendIsApart' /\ NotifiedAsAsked'
  BY DEF SavedIsSettled, ResendIsApart, NotifiedAsAsked
<1> QED
  BY <1>2, <1>3, <1>4

\* A process drops what it made or completed, without a change to what SAP has.
LEMMA Drops ==
  ASSUME IInv, TypeOK', NEW q \in Proc, NEW state \in ProcState,
         state.pc \in {"idle", "next"}, state.wo = <<>>,
         proc' = [proc EXCEPT ![q] = state], UNCHANGED <<wos, tx, notified, resend>>
  PROVE  IInv'
<1> USE DEF IInv, TypeOK
<1>1. proc'[q] = state /\ \A p \in Proc \ {q} : proc'[p] = proc[p]
  OBVIOUS
<1>2. <<>> \notin WorkOrder
  BY DEF WorkOrder
<1>3. MakingIsPrivate'
  BY <1>1, <1>2 DEF MakingIsPrivate, Making, Answered
<1>4. CallingAsks' /\ CompletingIsSaved'
  BY <1>1 DEF CallingAsks, CompletingIsSaved
<1>5. SavedIsSettled' /\ ResendIsApart' /\ NotifiedAsAsked'
  BY DEF SavedIsSettled, ResendIsApart, NotifiedAsAsked
<1> QED
  BY <1>3, <1>4, <1>5

LEMMA IdleIsOut == /\ Idle \in ProcState /\ Idle.pc = "idle" /\ Idle.wo = <<>>
                   /\ [Idle EXCEPT !.pc = "next"] \in ProcState
                   /\ [Idle EXCEPT !.pc = "next"].pc = "next"
                   /\ [Idle EXCEPT !.pc = "next"].wo = <<>>
BY DEF Idle, ProcState, PC, WORow, NoWO

LEMMA NextIInv == IInv /\ [Next]_vars => IInv'
<1> SUFFICES ASSUME IInv, [Next]_vars PROVE IInv'
  OBVIOUS
<1>0. TypeOK /\ TypeOK'
  BY NextTypeOK DEF IInv
<1> USE <1>0, PMAssumption
<1>1. ASSUME NEW p \in Plan, CreatePlan(p) \/ FallDue(p) PROVE IInv'
  BY <1>1 DEF CreatePlan, FallDue, IInv, MakingIsPrivate, Making, Answered, CallingAsks,
     CompletingIsSaved, SavedIsSettled, ResendIsApart, NotifiedAsAsked
<1>2. ASSUME NEW r \in Request, NEW p \in Plan, NEW asked \in BOOLEAN, LoadTrigger(r, p, asked)
      PROVE  IInv'
  <2> DEFINE state(w) == [pc |-> IF asked THEN "call" ELSE "save", wo |-> w,
                          row |-> Triggered(asked)]
  <2>1. PICK w \in WorkOrder : NewOrder(p, w) /\ Enter(r, state(w))
    BY <1>2 DEF LoadTrigger
  <2>2. state(w) \in ProcState
    BY Rows DEF ProcState, PC
  <2>3. r \in Proc /\ ~Making(r) /\ Unused(w)
    BY <2>1 DEF Proc, Enter, NewOrder, Making, Idle
  <2>4. /\ state(w).wo = w /\ state(w).pc \in {"call", "plan", "save"}
        /\ state(w).pc = "save" => ~state(w).row.asked
        /\ state(w).pc # "plan"
        /\ state(w).pc = "call" => state(w).row.asked
    BY DEF Triggered
  <2>5. proc' = [proc EXCEPT ![r] = state(w)] /\ UNCHANGED <<wos, tx, notified, resend>>
    BY <1>2, <2>1 DEF LoadTrigger, Enter, Tables
  <2> HIDE DEF state
  <2> QED
    BY <2>2, <2>3, <2>4, <2>5, TakesUnused
<1>3. ASSUME NEW k \in Worker, NEW p \in Plan, SweepTake(k, p) PROVE IInv'
  <2> DEFINE state(w) == [pc |-> "plan", wo |-> w, row |-> Triggered(FALSE)]
  <2>1. PICK w \in WorkOrder : NewOrder(p, w) /\ proc' = [proc EXCEPT ![k] = state(w)]
    BY <1>3 DEF SweepTake
  <2>2. state(w) \in ProcState
    BY Rows DEF ProcState, PC
  <2>3. k \in Proc /\ ~Making(k) /\ Unused(w)
    BY <1>3, <2>1 DEF Proc, NewOrder, Making, SweepTake
  <2>4. state(w).wo = w /\ state(w).pc = "plan" /\ ~state(w).row.asked
    BY DEF Triggered
  <2>5. UNCHANGED <<wos, tx, notified, resend>>
    BY <1>3 DEF SweepTake, Tables
  <2> HIDE DEF state
  <2> QED
    BY <2>1, <2>2, <2>3, <2>4, <2>5, TakesUnused
<1>4. ASSUME NEW r \in Request, RollBack(r) PROVE IInv'
  <2>1. r \in Proc /\ proc' = [proc EXCEPT ![r] = Idle] /\ UNCHANGED <<wos, tx, notified, resend>>
    BY <1>4 DEF RollBack, Leave, Proc, Tables
  <2> QED
    BY <2>1, IdleIsOut, Drops
<1>5. ASSUME NEW k \in Worker, SweepStart(k) \/ SweepEnd(k) \/ WorkerCrash(k) PROVE IInv'
  <2>1. k \in Proc /\ UNCHANGED <<wos, tx, notified, resend>>
    BY <1>5 DEF SweepStart, SweepEnd, WorkerCrash, Proc, Tables
  <2>2. \/ proc' = [proc EXCEPT ![k] = Idle]
        \/ proc' = [proc EXCEPT ![k] = [Idle EXCEPT !.pc = "next"]]
    BY <1>5 DEF SweepStart, SweepEnd, WorkerCrash, Enter, Leave
  <2> QED
    BY <2>1, <2>2, IdleIsOut, Drops
<1>6. ASSUME NEW r \in Request, NotificationCreated(r) PROVE IInv'
  <2> USE <1>6 DEF IInv, TypeOK, NotificationCreated
  <2> DEFINE w == proc[r].wo
  <2>1. r \in Proc /\ Making(r) /\ ~Answered(r)
    BY DEF Proc, Making, Answered
  <2>2. w \in WorkOrder /\ notified[w] = 0 /\ tx[w] = NoTX /\ wos[w] = NoWO
        /\ \A p \in Proc \ {r} : proc[p].wo # w
    BY <2>1 DEF MakingIsPrivate
  <2>3. /\ proc'[r] = [proc[r] EXCEPT !.pc = "save"]
        /\ \A p \in Proc \ {r} : proc'[p] = proc[p]
        /\ notified'[w] = 1 /\ \A v \in WorkOrder \ {w} : notified'[v] = notified[v]
    BY <2>1, <2>2
  <2>4. proc'[r].pc = "save" /\ proc'[r].wo = w /\ proc'[r].row = proc[r].row
    BY <2>1, <2>3 DEF ProcState
  <2>5. proc[r].row.asked
    BY <2>1 DEF CallingAsks
  <2>6. MakingIsPrivate'
    BY <2>1, <2>2, <2>3, <2>4, <2>5 DEF MakingIsPrivate, Making, Answered
  <2>7. CallingAsks' /\ CompletingIsSaved'
    BY <2>3, <2>4 DEF CallingAsks, CompletingIsSaved
  <2>8. SavedIsSettled' /\ ResendIsApart' /\ NotifiedAsAsked'
    BY <2>2, <2>3 DEF SavedIsSettled, ResendIsApart, NotifiedAsAsked, NoTX, NoWO
  <2> QED
    BY <1>0, <2>6, <2>7, <2>8
<1>7. ASSUME NEW r \in Request, NEW status \in {"FAILED", "SUCCESS"}, NEW n \in {0, 1},
             NotificationRefused(r, status, n)
      PROVE  IInv'
  <2> USE <1>7 DEF IInv, TypeOK, NotificationRefused, Leave
  <2> DEFINE w == proc[r].wo
  <2>1. r \in Proc /\ Making(r) /\ ~Answered(r)
    BY DEF Proc, Making, Answered
  <2>2. w \in WorkOrder /\ wos[w].status = "NONE" /\ \A p \in Proc \ {r} : proc[p].wo # w
    BY <2>1 DEF MakingIsPrivate, NoWO
  <2>3. proc'[r] = Idle /\ \A p \in Proc \ {r} : proc'[p] = proc[p]
    BY <2>1
  <2>4. /\ \A v \in WorkOrder \ {w} : tx'[v] = tx[v] /\ notified'[v] = notified[v]
        /\ tx'[w].status = status
    BY <2>2 DEF TXRow
  <2>5. MakingIsPrivate'
    <3>1. <<>> \notin WorkOrder /\ Idle.pc = "idle" /\ Idle.wo = <<>>
      BY DEF WorkOrder, Idle
    <3> QED
      BY <2>2, <2>3, <2>4, <3>1 DEF MakingIsPrivate, Making, Answered
  <2>6. CallingAsks' /\ CompletingIsSaved'
    BY <2>3 DEF CallingAsks, CompletingIsSaved, Idle
  <2>7. SavedIsSettled' /\ ResendIsApart' /\ NotifiedAsAsked'
    BY <2>2, <2>4 DEF SavedIsSettled, ResendIsApart, NotifiedAsAsked
  <2> QED
    BY <1>0, <2>5, <2>6, <2>7
<1>8. ASSUME NEW q \in Proc, SaveTrigger(q) \/ SweepSaveOrder(q)
      PROVE  IInv'
  <2> USE DEF IInv, TypeOK
  <2> DEFINE w == proc[q].wo
  <2>1. Making(q)
    BY <1>8 DEF Making, SaveTrigger, SweepSaveOrder
  <2>2. /\ w \in WorkOrder /\ wos[w] = NoWO /\ notified[w] = (IF Answered(q) THEN 1 ELSE 0) /\ tx[w] = NoTX
        /\ \A p \in Proc \ {q} : proc[p].wo # w
    BY <2>1 DEF MakingIsPrivate
  <2>3. notified[w] = IF proc[q].row.asked THEN 1 ELSE 0
    BY <1>8, <2>1, <2>2 DEF Answered, SaveTrigger, SweepSaveOrder, CallingAsks
  <2>4. /\ proc'[q].pc \in {"idle", "next"} /\ proc'[q].wo = <<>>
        /\ \A p \in Proc \ {q} : proc'[p] = proc[p]
    BY <1>8, IdleIsOut DEF SaveTrigger, SweepSaveOrder, Leave
  <2>5. /\ notified' = notified /\ wos'[w] = proc[q].row
        /\ \A v \in WorkOrder \ {w} : wos'[v] = wos[v] /\ tx'[v] = tx[v]
        /\ tx'[w].status # "FAILED" /\ resend' = resend
        /\ \A g \in Resender : resend[g] = NoResend \/ resend[g].wo # w
    BY <1>8, <2>2 DEF SaveTrigger, SweepSaveOrder, NoTX, ResendIsApart
  <2>6. MakingIsPrivate'
    <3>1. <<>> \notin WorkOrder
      BY DEF WorkOrder
    <3>2. ASSUME NEW p \in Proc, Making(p)'
          PROVE  /\ proc'[p].wo \in WorkOrder
                 /\ wos'[proc'[p].wo] = NoWO
                 /\ tx'[proc'[p].wo] = NoTX
                 /\ notified'[proc'[p].wo] = IF Answered(p)' THEN 1 ELSE 0
                 /\ \A o \in Proc \ {p} : proc'[o].wo # proc'[p].wo
      <4>1. p # q /\ proc'[p] = proc[p]
        BY <2>4, <3>2 DEF Making
      <4>2. Making(p)
        BY <3>2, <4>1 DEF Making
      <4>3. /\ proc[p].wo \in WorkOrder \ {w}
            /\ wos[proc[p].wo] = NoWO /\ tx[proc[p].wo] = NoTX
            /\ notified[proc[p].wo] = IF Answered(p) THEN 1 ELSE 0
            /\ \A o \in Proc \ {p} : proc[o].wo # proc[p].wo
        BY <2>2, <4>1, <4>2 DEF MakingIsPrivate
      <4>4. \A o \in Proc \ {p} : proc'[o].wo # proc[p].wo
        BY <2>4, <3>1, <4>3
      <4>5. wos'[proc[p].wo] = NoWO /\ tx'[proc[p].wo] = NoTX
        BY <2>5, <4>3
      <4> HIDE DEF w
      <4> QED
        BY <2>5, <4>1, <4>3, <4>4, <4>5 DEF Answered
    <3> QED
      BY <3>2 DEF MakingIsPrivate
  <2>7. CallingAsks' /\ CompletingIsSaved'
    <3> HIDE DEF w
    <3>1. \A p \in Proc : proc'[p] = proc[p] \/ proc'[p].pc \in {"idle", "next"}
      BY <2>4
    <3>2. CallingAsks'
      BY <3>1 DEF CallingAsks
    <3>3. CompletingIsSaved'
      <4> SUFFICES ASSUME NEW p \in Proc, proc'[p].pc = "complete"
                   PROVE  /\ proc'[p].wo \in WorkOrder
                          /\ wos'[proc'[p].wo].status # "NONE"
                          /\ proc'[p].row.asked <=> wos'[proc'[p].wo].asked
        BY DEF CompletingIsSaved
      <4>1. proc'[p] = proc[p]
        BY <3>1
      <4>2. /\ proc[p].wo \in WorkOrder
            /\ wos[proc[p].wo].status # "NONE"
            /\ proc[p].row.asked <=> wos[proc[p].wo].asked
        BY <4>1 DEF CompletingIsSaved
      <4>3. wos[w].status = "NONE"
        BY <2>2 DEF NoWO
      <4>4. proc[p].wo # w
        BY <4>2, <4>3
      <4>5. wos'[proc[p].wo] = wos[proc[p].wo]
        BY <2>5, <4>2, <4>4
      <4> QED
        BY <4>1, <4>2, <4>5
    <3> QED
      BY <3>2, <3>3
  <2>8. SavedIsSettled' /\ NotifiedAsAsked'
    BY <2>2, <2>3, <2>5 DEF SavedIsSettled, NotifiedAsAsked
  <2>9. ResendIsApart'
    <3> HIDE DEF w
    <3> SUFFICES ASSUME NEW g \in Resender, resend[g] # NoResend
                 PROVE  /\ resend[g].wo \in WorkOrder
                        /\ tx'[resend[g].wo].status # "NONE"
                        /\ wos'[resend[g].wo].status = "NONE"
      BY <2>5 DEF ResendIsApart
    <3> QED
      BY <2>5 DEF ResendIsApart
  <2> QED
    BY <1>0, <2>6, <2>7, <2>8, <2>9
<1>9. ASSUME NEW r \in Request, NEW w \in WorkOrder, LoadComplete(r, w) PROVE IInv'
  <2> USE <1>9 DEF IInv, TypeOK, LoadComplete, Enter, Tables
  <2>1. /\ r \in Proc /\ proc'[r].pc = "complete" /\ proc'[r].wo = w /\ proc'[r].row = wos[w]
        /\ \A p \in Proc \ {r} : proc'[p] = proc[p]
    BY DEF Proc
  <2>2. \A p \in Proc : Making(p) => proc[p].wo # w
    BY DEF MakingIsPrivate, NoWO
  <2>3. MakingIsPrivate'
    BY <2>1, <2>2 DEF MakingIsPrivate, Making, Answered
  <2>4. CallingAsks' /\ CompletingIsSaved'
    <3>1. UNCHANGED wos /\ wos[w].status # "NONE"
      OBVIOUS
    <3> QED
      BY <2>1, <3>1 DEF CallingAsks, CompletingIsSaved
  <2>5. SavedIsSettled' /\ ResendIsApart' /\ NotifiedAsAsked'
    BY DEF SavedIsSettled, ResendIsApart, NotifiedAsAsked
  <2> QED
    BY <1>0, <2>3, <2>4, <2>5
<1>10. ASSUME NEW r \in Request, CompleteWorkOrder(r) PROVE IInv'
  <2> USE <1>10 DEF IInv, TypeOK, CompleteWorkOrder, Leave
  <2> DEFINE w == proc[r].wo
  <2>1. /\ r \in Proc /\ proc'[r] = Idle /\ \A p \in Proc \ {r} : proc'[p] = proc[p]
    BY DEF Proc
  <2>2. /\ w \in WorkOrder /\ wos[w].status # "NONE"
        /\ proc[r].row.asked <=> wos[w].asked
        /\ \A p \in Proc : Making(p) => p # r /\ proc[p].wo # w
    BY <2>1 DEF CompletingIsSaved, MakingIsPrivate, Making, NoWO
  <2>3. /\ wos'[w].status # "NONE" /\ (wos'[w].asked <=> wos[w].asked)
        /\ \A v \in WorkOrder \ {w} : wos'[v] = wos[v]
    BY <2>1, <2>2 DEF Completed, ProcState, WORow
  <2>4. MakingIsPrivate'
    BY <2>1, <2>2, IdleIsOut DEF MakingIsPrivate, Making, Answered, WorkOrder
  <2> HIDE DEF w
  <2>5. CallingAsks' /\ CompletingIsSaved'
    <3>1. \A v \in WorkOrder : wos[v].status # "NONE" =>
            wos'[v].status # "NONE" /\ (wos'[v].asked <=> wos[v].asked)
      BY <2>3
    <3>2. \A p \in Proc : proc'[p] = proc[p] \/ proc'[p].pc = "idle"
      BY <2>1, IdleIsOut
    <3> QED
      BY <3>1, <3>2 DEF CallingAsks, CompletingIsSaved
  <2>6. SavedIsSettled' /\ NotifiedAsAsked'
    BY <2>2, <2>3 DEF SavedIsSettled, NotifiedAsAsked
  <2>7. ResendIsApart'
    BY <2>2, <2>3 DEF ResendIsApart
  <2> QED
    BY <1>0, <2>4, <2>5, <2>6, <2>7
<1>11. ASSUME NEW g \in Resender, RetryStep(g) PROVE IInv'
  <2> USE DEF IInv, TypeOK
  <2>1. UNCHANGED <<wos, proc>>
    BY <1>11 DEF RetryStep, LoadRetry, ClaimRetry, RetryAnswered, RetryCrash, Tables
  <2>2. CallingAsks' /\ CompletingIsSaved'
    BY <2>1 DEF CallingAsks, CompletingIsSaved
  <2>3. ASSUME NEW w \in WorkOrder, LoadRetry(g, w) PROVE IInv'
    <3>1. UNCHANGED <<tx, notified>> /\ wos[w].status = "NONE" /\ tx[w].status = "FAILED"
      BY <2>3 DEF LoadRetry, Tables, SavedIsSettled
    <3>2. /\ resend'[g].wo = w
          /\ \A h \in Resender \ {g} : resend'[h] = resend[h]
      BY <2>3 DEF LoadRetry
    <3>3. MakingIsPrivate' /\ SavedIsSettled' /\ NotifiedAsAsked'
      BY <2>1, <3>1 DEF MakingIsPrivate, Making, Answered, SavedIsSettled, NotifiedAsAsked
    <3>4. ResendIsApart'
      BY <2>1, <3>1, <3>2 DEF ResendIsApart
    <3> QED
      BY <1>0, <2>2, <3>3, <3>4
  <2>4. ASSUME ~\E w \in WorkOrder : LoadRetry(g, w) PROVE IInv'
    <3> DEFINE w == resend[g].wo
    <3>1. resend[g] # NoResend
      BY <1>11, <2>4 DEF RetryStep, ClaimRetry, RetryAnswered, RetryCrash, NoResend
    <3>2. w \in WorkOrder /\ tx[w].status # "NONE" /\ wos[w].status = "NONE"
      BY <3>1 DEF ResendIsApart
    <3>3. /\ tx'[w].status # "NONE"
          /\ \A v \in WorkOrder \ {w} : tx'[v] = tx[v] /\ notified'[v] = notified[v]
      BY <1>11, <2>4, <3>2 DEF RetryStep, ClaimRetry, RetryAnswered, RetryCrash, SaveRow
    <3>4. /\ resend'[g] = NoResend \/ resend'[g].wo = w
          /\ \A h \in Resender \ {g} : resend'[h] = resend[h]
      BY <1>11, <2>4 DEF RetryStep, ClaimRetry, RetryAnswered, RetryCrash, ResendState
    <3>5. \A q \in Proc : Making(q) => proc[q].wo # w
      BY <3>2 DEF MakingIsPrivate, NoTX
    <3> HIDE DEF w
    <3>6. MakingIsPrivate'
      BY <2>1, <3>3, <3>5 DEF MakingIsPrivate, Making, Answered
    <3>7. SavedIsSettled' /\ NotifiedAsAsked'
      BY <2>1, <3>2, <3>3 DEF SavedIsSettled, NotifiedAsAsked
    <3>8. ResendIsApart'
      <4>1. ASSUME NEW v \in WorkOrder, tx[v].status # "NONE" PROVE tx'[v].status # "NONE"
        BY <3>3, <4>1
      <4> QED
        BY <2>1, <3>2, <3>3, <3>4, <4>1 DEF ResendIsApart
    <3> QED
      BY <1>0, <2>2, <3>6, <3>7, <3>8
  <2> QED
    BY <2>3, <2>4
<1>12. ASSUME NEW k \in Worker, NEW p \in Plan, SweepSkip(k, p) PROVE IInv'
  BY <1>12 DEF SweepSkip, Tables, IInv, MakingIsPrivate, Making, Answered, CallingAsks,
     CompletingIsSaved, SavedIsSettled, ResendIsApart, NotifiedAsAsked
<1>13. ASSUME NEW k \in Worker, SweepSavePlan(k) PROVE IInv'
  <2> USE <1>13 DEF IInv, TypeOK, SweepSavePlan
  <2>1. /\ k \in Proc /\ proc'[k].pc = "order"
        /\ proc'[k].wo = proc[k].wo /\ proc'[k].row = proc[k].row
        /\ \A p \in Proc \ {k} : proc'[p] = proc[p]
    BY DEF Proc, ProcState
  <2>2. MakingIsPrivate'
    BY <2>1 DEF MakingIsPrivate, Making, Answered
  <2>3. CallingAsks' /\ CompletingIsSaved'
    BY <2>1 DEF CallingAsks, CompletingIsSaved
  <2>4. SavedIsSettled' /\ ResendIsApart' /\ NotifiedAsAsked'
    BY DEF SavedIsSettled, ResendIsApart, NotifiedAsAsked
  <2> QED
    BY <1>0, <2>2, <2>3, <2>4
<1>14. CASE UNCHANGED vars
  BY <1>14 DEF vars, IInv, MakingIsPrivate, Making, Answered, CallingAsks,
     CompletingIsSaved, SavedIsSettled, ResendIsApart, NotifiedAsAsked
<1>15. Request \subseteq Proc /\ Worker \subseteq Proc
  BY DEF Proc
<1> QED
  <2>1. ASSUME NEW r \in Request, RequestStep(r) PROVE IInv'
    <3>1. CASE \E p \in Plan, asked \in BOOLEAN : LoadTrigger(r, p, asked)
      BY <1>2, <3>1
    <3>2. CASE \E w \in WorkOrder : LoadComplete(r, w)
      BY <1>9, <3>2
    <3>3. CASE SaveTrigger(r)
      BY <1>8, <1>15, <3>3
    <3>4. CASE NotificationCreated(r) \/ RollBack(r) \/ CompleteWorkOrder(r)
      BY <1>4, <1>6, <1>10, <3>4
    <3>6. CASE \E status \in {"FAILED", "SUCCESS"}, n \in {0, 1} : NotificationRefused(r, status, n)
      BY <1>7, <3>6
    <3>5. \/ \E p \in Plan, asked \in BOOLEAN : LoadTrigger(r, p, asked)
          \/ \E w \in WorkOrder : LoadComplete(r, w)
          \/ SaveTrigger(r)
          \/ NotificationCreated(r) \/ RollBack(r) \/ CompleteWorkOrder(r)
          \/ \E status \in {"FAILED", "SUCCESS"}, n \in {0, 1} : NotificationRefused(r, status, n)
      BY <2>1, Zenon DEF RequestStep
    <3> HIDE <1>0, PMAssumption
    <3> QED
      BY <3>1, <3>2, <3>3, <3>4, <3>5, <3>6, Zenon
  <2>2. ASSUME NEW k \in Worker, SweepStep(k) \/ WorkerCrash(k) PROVE IInv'
    BY <1>3, <1>5, <1>8, <1>12, <1>13, <1>15, <2>2 DEF SweepStep
  <2>3. ASSUME NEW p \in Plan, CreatePlan(p) \/ FallDue(p) PROVE IInv'
    BY <1>1, <2>3
  <2>4. Next \/ UNCHANGED vars
    OBVIOUS
  <2> HIDE DEF vars
  <2> QED
    BY <1>11, <1>14, <2>1, <2>2, <2>3, <2>4 DEF Next

--------------------------------------------------------------------------------

\* The inductive invariant: besides the property it says that the order a process makes
\* is known to that process alone, and that a retry sweep sends the notifications of
\* attempts that left no order.
THEOREM Invariance == Spec => []IInv
<1>1. Init => IInv
  BY InitIInv
<1>2. IInv /\ [Next]_vars => IInv'
  BY NextIInv
<1> QED
  BY <1>1, <1>2, PTL DEF Spec

\* Every value of every variable is of its declared type: the rows, the copies that
\* requests and workers hold, the retry counters and the deaths of workers.
THEOREM TypeCorrect == Spec => []TypeOK
BY Invariance, PTL DEF IInv

\* SAP has exactly one notification of a saved work order that asked for one and none of
\* one that did not, whatever was refused, lost, rolled back and sent again, by any number
\* of retry sweeps at once (trigger_pm_work_order, _retry_pm_notification).
THEOREM NotifiedAsAskedHolds == Spec => []NotifiedAsAsked
BY Invariance, PTL DEF IInv

================================================================================
