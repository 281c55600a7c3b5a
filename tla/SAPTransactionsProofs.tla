------------------------- MODULE SAPTransactionsProofs -------------------------
(***************************************************************************)
(* Theorems about SAPTransactions, for every number of keys, requests and  *)
(* workers, every retry budget and every set of faults.                    *)
(***************************************************************************)
EXTENDS SAPTransactions, TLAPS

\* The program counters at which a process works on the row cur of copy mem.
RequestWorking == {"insert", "claim", "call", "respond"}
WorkerWorking == {"retrying", "started", "call", "result", "exhaust"}
Working == RequestWorking \cup WorkerWorking

\* Requests and workers stay in their own part of PC; a working process has a
\* key; a request inside the adapter holds its row.
Placed ==
  /\ \A r \in Request : pc[r] \in {"idle"} \cup RequestWorking
  /\ \A w \in Worker : pc[w] \in {"idle", "next"} \cup WorkerWorking
  /\ \A p \in Proc : pc[p] \in Working => cur[p] \in Key
  /\ \A r \in Request : pc[r] = "call" => lock[cur[r]] = r

\* What a working copy may say: it is a row, in the status its place requires,
\* with a real document number and a retry counter that calls account for.
CopySound(p) ==
  pc[p] \in Working =>
    /\ mem[p].status # "NONE"
    /\ mem[p].doc <= issued[cur[p]]
    /\ mem[p].doc # 0 => mem[p].status = "SUCCESS"
    /\ pc[p] \in {"insert", "call"} => mem[p].status = "IN_PROGRESS"
    /\ pc[p] \in {"claim", "retrying", "started"} => mem[p].status = "RETRYING"
    /\ pc[p] = "exhaust" => mem[p].status = "EXHAUSTED"
    /\ pc[p] \in {"insert", "claim", "call", "retrying", "started"}
         => mem[p].retry <= calls[cur[p]]
    /\ pc[p] \in {"respond", "result"} => mem[p].retry < calls[cur[p]]

CopiesAreSound == \A p \in Proc : CopySound(p)

\* A worker only works on a row that exists.
RowExists(w) == pc[w] \in WorkerWorking => db[cur[w]].status # "NONE"

RowsExist == \A w \in Worker : RowExists(w)

ListedExist == \A w \in Worker : \A k \in batch[w] : db[k].status # "NONE"

Sound ==
  /\ CopiesAreSound
  /\ RowsExist
  /\ ListedExist
  /\ NumbersAreReal
  /\ RetriesWereCalls

IInv == TypeOK /\ Placed /\ Sound

--------------------------------------------------------------------------------

LEMMA InitTypeOK == Init => TypeOK
BY SAPAssumption DEF Init, TypeOK, Row, NoRow, PC, SAPTransactionStatus

\* Every helper of the aggregate returns a row.
LEMMA RowHelpers ==
  ASSUME NEW row \in Row
  PROVE  /\ CanRetry(row) => PrepareRetry(row) \in Row
         /\ StartProgress(row) \in Row
         /\ Fail(row) \in Row
         /\ MarkExhausted(row) \in Row
         /\ NoRow \in Row
         /\ Fresh \in Row
         /\ \A n \in Nat : Succeed(row, n) \in Row
<1> USE SAPAssumption DEF Row, SAPTransactionStatus
<1>1. CanRetry(row) => PrepareRetry(row) \in Row
  <2> SUFFICES ASSUME CanRetry(row) PROVE PrepareRetry(row) \in Row
    OBVIOUS
  <2>1. row.retry + 1 \in 0 .. MaxRetries
    BY DEF CanRetry
  <2> QED
    BY <2>1 DEF PrepareRetry
<1>2. StartProgress(row) \in Row /\ Fail(row) \in Row /\ MarkExhausted(row) \in Row
  BY DEF StartProgress, Fail, MarkExhausted
<1>3. NoRow \in Row /\ Fresh \in Row
  BY DEF NoRow, Fresh
<1>4. \A n \in Nat : Succeed(row, n) \in Row
  BY DEF Succeed
<1> QED
  BY <1>1, <1>2, <1>3, <1>4

LEMMA NextTypeOK == TypeOK /\ Placed /\ [Next]_vars => TypeOK'
<1> SUFFICES ASSUME TypeOK, Placed, [Next]_vars PROVE TypeOK'
  OBVIOUS
<1>1. ASSUME NEW r \in Request, NEW k \in Key,
             ExecuteNew(r, k) \/ ExecuteResume(r, k) \/ ExecuteCached(r, k)
      PROVE  TypeOK'
  <2>1. PICK next \in PC, row \in Row : Begin(r, k, next, row)
    BY <1>1, RowHelpers DEF TypeOK, ExecuteNew, ExecuteResume, ExecuteCached, PC
  <2>2. r \in Proc
    BY DEF Proc
  <2> QED
    BY <2>1, <2>2, SAPAssumption DEF TypeOK, Begin
<1>2. ASSUME NEW r \in Request, NEW k \in Key, ExecuteRefused(r, k)
      PROVE  TypeOK'
  BY <1>2, SAPAssumption DEF TypeOK, ExecuteRefused
<1>3. ASSUME NEW r \in Request, InsertRow(r) \/ ClaimRow(r)
      PROVE  TypeOK'
  <2>1. r \in Proc /\ mem[r] \in Row /\ StartProgress(mem[r]) \in Row
    BY RowHelpers DEF Proc, TypeOK
  <2> QED
    BY <1>3, <2>1 DEF TypeOK, InsertRow, ClaimRow, TakeRow, PC
<1>4. ASSUME NEW r \in Request,
             InsertConflict(r) \/ RequestRollback(r) \/ RequestCommit(r)
      PROVE  TypeOK'
  <2>1. r \in Proc /\ mem[r] \in Row /\ NoRow \in Row /\ mem[r].doc \in Nat
    BY RowHelpers DEF Proc, TypeOK, Row
  <2> QED
    BY <1>4, <2>1 DEF TypeOK, InsertConflict, RequestRollback, RequestCommit, Finish, PC
<1>5. ASSUME NEW w \in Worker, SweepStart(w)
      PROVE  TypeOK'
  BY <1>5 DEF TypeOK, SweepStart, PC, Proc
<1>6. ASSUME NEW w \in Worker, SweepEnd(w) \/ WorkerCrash(w)
      PROVE  TypeOK'
  <2>1. w \in Proc /\ NoRow \in Row
    BY <1>6, RowHelpers DEF Proc, TypeOK
  <2> QED
    BY <1>6, <2>1 DEF TypeOK, SweepEnd, WorkerCrash, Finish, PC
<1>7. ASSUME NEW w \in Worker, NEW k \in Key,
             RetryAgain(w, k) \/ RetryExhaust(w, k)
      PROVE  TypeOK'
  <2>1. PICK next \in PC, row \in Row : RetryLoad(w, k, next, row)
    BY <1>7, RowHelpers DEF TypeOK, RetryAgain, RetryExhaust, PC
  <2> QED
    BY <2>1 DEF TypeOK, RetryLoad, Proc
<1>8. ASSUME NEW w \in Worker, NEW k \in Key, RetryIllegal(w, k)
      PROVE  TypeOK'
  <2>1. w \in Proc /\ NoRow \in Row
    BY RowHelpers DEF Proc, TypeOK
  <2> QED
    BY <1>8, <2>1 DEF TypeOK, RetryIllegal, Finish, PC
<1>9. ASSUME NEW w \in Worker,
             SaveRetrying(w) \/ SaveInProgress(w) \/ SaveResult(w) \/ SaveExhausted(w)
      PROVE  TypeOK'
  <2>1. w \in Proc /\ mem[w] \in Row /\ StartProgress(mem[w]) \in Row
    BY RowHelpers DEF Proc, TypeOK
  <2> QED
    BY <1>9, <2>1
    DEF TypeOK, SaveRetrying, SaveInProgress, SaveResult, SaveExhausted, WorkerSave, PC
<1>10. ASSUME NEW p \in Proc, CallStep(p)
       PROVE  TypeOK'
  <2>1. pc[p] = "call"
    BY <1>10 DEF CallStep, CallCreated, CallRefused, CallLost, CallEmpty, CallSAP
  <2>2. cur[p] \in Key /\ issued[cur[p]] + 1 \in Nat
    BY <2>1 DEF Placed, Working, RequestWorking, TypeOK
  <2>3. PICK docs \in {0, 1}, row \in Row : CallSAP(p, docs, row)
    <3>1. mem[p] \in Row
      BY DEF TypeOK
    <3>2. /\ Fail(mem[p]) \in Row
          /\ Succeed(mem[p], 0) \in Row
          /\ Succeed(mem[p], issued[cur[p]] + 1) \in Row
      BY <2>2, <3>1, RowHelpers
    <3>3. \/ CallSAP(p, 1, Succeed(mem[p], issued[cur[p]] + 1))
          \/ CallSAP(p, 0, Fail(mem[p]))
          \/ CallSAP(p, 1, Fail(mem[p]))
          \/ \E n \in {0, 1} : CallSAP(p, n, Succeed(mem[p], 0))
      BY <1>10 DEF CallStep, CallCreated, CallRefused, CallLost, CallEmpty
    <3> QED
      BY <3>2, <3>3
  <2>4. issued' \in [Key -> Nat] /\ calls' \in [Key -> Nat]
    <3>1. issued[cur[p]] + docs \in Nat /\ calls[cur[p]] + 1 \in Nat
      BY <2>2 DEF TypeOK
    <3> QED
      BY <2>2, <2>3, <3>1 DEF TypeOK, CallSAP
  <2> QED
    BY <2>3, <2>4 DEF TypeOK, CallSAP, PC
<1>11. CASE UNCHANGED vars
  BY <1>11 DEF TypeOK, vars
<1> QED
  BY <1>1, <1>2, <1>3, <1>4, <1>5, <1>6, <1>7, <1>8, <1>9, <1>10, <1>11
  DEF Next, RequestStep, WorkerStep

LEMMA NextPlaced == TypeOK /\ Placed /\ [Next]_vars => Placed'
<1> SUFFICES ASSUME TypeOK, Placed, [Next]_vars PROVE Placed'
  OBVIOUS
<1> USE SAPAssumption DEF TypeOK, Proc, Working, RequestWorking, WorkerWorking
<1>1. ASSUME NEW r \in Request, NEW k \in Key,
             ExecuteNew(r, k) \/ ExecuteResume(r, k) \/ ExecuteCached(r, k)
      PROVE  Placed'
  <2>1. PICK next \in {"insert", "claim", "respond"} :
          \E row : Begin(r, k, next, row)
    BY <1>1 DEF ExecuteNew, ExecuteResume, ExecuteCached
  <2> QED
    BY <2>1 DEF Placed, Begin
<1>2. ASSUME NEW r \in Request, NEW k \in Key, ExecuteRefused(r, k)
      PROVE  Placed'
  BY <1>2 DEF Placed, ExecuteRefused
<1>3. ASSUME NEW r \in Request, InsertRow(r) \/ ClaimRow(r)
      PROVE  Placed'
  BY <1>3 DEF Placed, InsertRow, ClaimRow, TakeRow
<1>4. ASSUME NEW r \in Request,
             InsertConflict(r) \/ RequestRollback(r) \/ RequestCommit(r)
      PROVE  Placed'
  BY <1>4 DEF Placed, InsertConflict, RequestRollback, RequestCommit, Finish
<1>5. ASSUME NEW w \in Worker, SweepStart(w) \/ SweepEnd(w) \/ WorkerCrash(w)
      PROVE  Placed'
  BY <1>5 DEF Placed, SweepStart, SweepEnd, WorkerCrash, Finish
<1>6. ASSUME NEW w \in Worker, NEW k \in Key,
             RetryAgain(w, k) \/ RetryExhaust(w, k)
      PROVE  Placed'
  <2>1. PICK next \in {"retrying", "exhaust"} :
          \E row : RetryLoad(w, k, next, row)
    BY <1>6 DEF RetryAgain, RetryExhaust
  <2> QED
    BY <2>1 DEF Placed, RetryLoad
<1>7. ASSUME NEW w \in Worker, NEW k \in Key, RetryIllegal(w, k)
      PROVE  Placed'
  BY <1>7 DEF Placed, RetryIllegal, Finish
<1>8. ASSUME NEW w \in Worker,
             SaveRetrying(w) \/ SaveInProgress(w) \/ SaveResult(w) \/ SaveExhausted(w)
      PROVE  Placed'
  BY <1>8
  DEF Placed, SaveRetrying, SaveInProgress, SaveResult, SaveExhausted, WorkerSave
<1>9. ASSUME NEW p \in Proc, CallStep(p)
      PROVE  Placed'
  <2>1. PICK docs, row : CallSAP(p, docs, row)
    BY <1>9 DEF CallStep, CallCreated, CallRefused, CallLost, CallEmpty
  <2> QED
    BY <2>1 DEF Placed, CallSAP
<1>10. CASE UNCHANGED vars
  BY <1>10 DEF Placed, vars
<1> QED
  BY <1>1, <1>2, <1>3, <1>4, <1>5, <1>6, <1>7, <1>8, <1>9, <1>10
  DEF Next, RequestStep, WorkerStep

\* The type invariant holds in every execution, with the placement of the
\* processes it needs: an adapter call always has a key to be made for.
THEOREM TypeCorrect == Spec => [](TypeOK /\ Placed)
<1>1. Init => TypeOK /\ Placed
  BY InitTypeOK DEF Init, Placed, Proc, Working, RequestWorking, WorkerWorking
<1>2. TypeOK /\ Placed /\ [Next]_vars => (TypeOK /\ Placed)'
  BY NextTypeOK, NextPlaced
<1> QED
  BY <1>1, <1>2, PTL DEF Spec

\* Two requests are never inside the adapter for the same key at once, however
\* many requests and sweeps run: each would hold the one lock of the row.
THEOREM ExclusiveCalls == Spec => []RequestsCallExclusively
<1>1. TypeOK /\ Placed => RequestsCallExclusively
  BY DEF Placed, RequestsCallExclusively
<1> QED
  BY <1>1, TypeCorrect, PTL

--------------------------------------------------------------------------------

LEMMA InitSound == Init => Sound
BY SAPAssumption
DEF Init, Sound, CopiesAreSound, CopySound, RowsExist, RowExists, ListedExist,
    NumbersAreReal, RetriesWereCalls, NoRow, Proc, Working, RequestWorking, WorkerWorking

\* What a step of process p must do to keep Sound: it leaves the copies of the
\* others alone and its own sound, the histories only grow, and a row it writes
\* is a sound one.
RowSound(row, docs, attempts) ==
  /\ row.status # "NONE"
  /\ row.doc <= docs
  /\ row.doc # 0 => row.status = "SUCCESS"
  /\ row.status \in {"SUCCESS", "FAILED"} => row.retry < attempts

Keeps(p) ==
  /\ \A q \in Proc : q # p => pc'[q] = pc[q] /\ cur'[q] = cur[q] /\ mem'[q] = mem[q]
  /\ CopySound(p)'
  /\ p \in Worker => RowExists(p)'
  /\ \A k \in Key : issued[k] <= issued'[k] /\ calls[k] <= calls'[k]
  /\ \A k \in Key : linked'[k] = linked[k] \/ linked'[k] <= issued'[k]
  /\ \A k \in Key : db'[k] = db[k] \/ RowSound(db'[k], issued'[k], calls'[k])
  /\ \A w \in Worker : \A k \in batch'[w] : k \in batch[w] \/ db'[k].status # "NONE"

LEMMA KeepsSound ==
  ASSUME TypeOK, TypeOK', Placed, Sound, NEW p \in Proc, Keeps(p)
  PROVE  Sound'
<1> USE DEF Keeps, Sound
<1>1. CopiesAreSound'
  <2> SUFFICES ASSUME NEW q \in Proc, q # p PROVE CopySound(q)'
    BY DEF CopiesAreSound
  <2>1. CopySound(q)
    BY DEF CopiesAreSound
  <2>2. CASE pc[q] \notin Working
    BY <2>2 DEF CopySound
  <2>3. CASE pc[q] \in Working
    <3>1. cur[q] \in Key
      BY <2>3 DEF Placed
    <3>2. /\ issued[cur[q]] \in Nat /\ issued'[cur[q]] \in Nat
          /\ calls[cur[q]] \in Nat /\ calls'[cur[q]] \in Nat
          /\ mem[q].doc \in Nat /\ mem[q].retry \in Nat
      BY <3>1 DEF TypeOK, Row
    <3>3. issued[cur[q]] <= issued'[cur[q]] /\ calls[cur[q]] <= calls'[cur[q]]
      BY <3>1
    <3> QED
      BY <2>1, <2>3, <3>2, <3>3 DEF CopySound
  <2> QED
    BY <2>2, <2>3
<1>2. \A k \in Key : db[k].status # "NONE" => db'[k].status # "NONE"
  BY DEF RowSound
<1>3. RowsExist'
  <2> SUFFICES ASSUME NEW w \in Worker, w # p PROVE RowExists(w)'
    BY DEF RowsExist
  <2>1. RowExists(w) /\ w \in Proc
    BY DEF RowsExist, Proc
  <2>2. pc[w] \in WorkerWorking => cur[w] \in Key
    BY <2>1 DEF Placed, Working
  <2> QED
    BY <1>2, <2>1, <2>2 DEF RowExists
<1>4. ListedExist'
  <2> SUFFICES ASSUME NEW w \in Worker, NEW k \in batch'[w] PROVE db'[k].status # "NONE"
    BY DEF ListedExist
  <2>1. k \in Key
    BY DEF TypeOK
  <2> QED
    BY <1>2, <2>1 DEF ListedExist
<1>5. NumbersAreReal' /\ RetriesWereCalls'
  <2> SUFFICES ASSUME NEW k \in Key
               PROVE  /\ db'[k].doc <= issued'[k]
                      /\ linked'[k] <= issued'[k]
                      /\ db'[k].doc # 0 => db'[k].status = "SUCCESS"
                      /\ db'[k].status \in {"SUCCESS", "FAILED"} => db'[k].retry < calls'[k]
    BY DEF NumbersAreReal, RetriesWereCalls
  <2>1. /\ issued[k] \in Nat /\ issued'[k] \in Nat /\ calls[k] \in Nat
        /\ calls'[k] \in Nat /\ linked[k] \in Nat /\ db[k].doc \in Nat
        /\ db[k].retry \in Nat
    BY DEF TypeOK, Row
  <2>2. issued[k] <= issued'[k] /\ calls[k] <= calls'[k]
    OBVIOUS
  <2>3. /\ db[k].doc <= issued[k] /\ linked[k] <= issued[k]
        /\ db[k].doc # 0 => db[k].status = "SUCCESS"
        /\ db[k].status \in {"SUCCESS", "FAILED"} => db[k].retry < calls[k]
    BY DEF NumbersAreReal, RetriesWereCalls
  <2>4. linked'[k] <= issued'[k]
    <3>1. linked'[k] = linked[k] \/ linked'[k] <= issued'[k]
      OBVIOUS
    <3> QED
      BY <2>1, <2>2, <2>3, <3>1
  <2>5. CASE db'[k] = db[k]
    BY <2>1, <2>2, <2>3, <2>4, <2>5
  <2>6. CASE RowSound(db'[k], issued'[k], calls'[k])
    BY <2>4, <2>6 DEF RowSound
  <2> QED
    BY <2>5, <2>6
<1> QED
  BY <1>1, <1>3, <1>4, <1>5

LEMMA NextSound == IInv /\ [Next]_vars => Sound'
<1> SUFFICES ASSUME IInv, [Next]_vars PROVE Sound'
  OBVIOUS
<1>0. TypeOK /\ TypeOK' /\ Placed /\ Placed' /\ Sound
  BY NextTypeOK, NextPlaced DEF IInv
<1>a. \A r \in Request : r \in Proc /\ r \notin Worker
  BY SAPAssumption DEF Proc
<1>b. \A w \in Worker : w \in Proc /\ w \notin Request
  BY SAPAssumption DEF Proc
\* The histories are numbers, and a copy and a row are sound before the step.
<1>n. /\ \A k \in Key : issued[k] \in Nat /\ calls[k] \in Nat
      /\ \A k \in Key : db[k].retry \in Nat /\ db[k].doc \in Nat
      /\ \A p \in Proc : mem[p].retry \in Nat /\ mem[p].doc \in Nat
  BY <1>0 DEF TypeOK, Row
<1>r. \A k \in Key :
        /\ db[k].doc <= issued[k]
        /\ db[k].doc # 0 => db[k].status = "SUCCESS"
        /\ db[k].status \in {"SUCCESS", "FAILED"} => db[k].retry < calls[k]
  BY <1>0 DEF Sound, NumbersAreReal, RetriesWereCalls
<1>c. \A p \in Proc : CopySound(p)
  BY <1>0 DEF Sound, CopiesAreSound
<1>k. \A p \in Proc : pc[p] \in Working => cur[p] \in Key
  BY <1>0 DEF Placed
<1>1. ASSUME NEW r \in Request, NEW k \in Key,
             ExecuteNew(r, k) \/ ExecuteResume(r, k) \/ ExecuteCached(r, k)
      PROVE  Sound'
  <2>1. PICK next \in {"insert", "claim", "respond"} : \E row :
           /\ Begin(r, k, next, row)
           /\ \/ next = "insert" /\ row = Fresh
              \/ next = "claim" /\ row = PrepareRetry(db[k]) /\ CanRetry(db[k])
              \/ next = "respond" /\ row = db[k] /\ db[k].status = "SUCCESS"
    BY <1>1 DEF ExecuteNew, ExecuteResume, ExecuteCached
  <2>2. PICK row :
           /\ Begin(r, k, next, row)
           /\ \/ next = "insert" /\ row = Fresh
              \/ next = "claim" /\ row = PrepareRetry(db[k]) /\ CanRetry(db[k])
              \/ next = "respond" /\ row = db[k] /\ db[k].status = "SUCCESS"
    BY <2>1
  <2>3. pc'[r] = next /\ cur'[r] = k /\ mem'[r] = row
    BY <1>0, <1>a, <2>2 DEF Begin, TypeOK
  <2>4. /\ row.status = IF next = "insert" THEN "IN_PROGRESS"
                        ELSE IF next = "claim" THEN "RETRYING" ELSE "SUCCESS"
        /\ row.doc <= issued[k]
        /\ row.doc # 0 => row.status = "SUCCESS"
        /\ next \in {"insert", "claim"} => row.retry <= calls[k]
        /\ next = "respond" => row.retry < calls[k]
    <3>1. db[k] \in Row /\ issued[k] \in Nat /\ calls[k] \in Nat
      BY <1>0 DEF TypeOK
    <3>2. CASE next = "insert" /\ row = Fresh
      BY <3>1, <3>2 DEF Fresh, NoRow
    <3>3. CASE next = "claim" /\ row = PrepareRetry(db[k]) /\ CanRetry(db[k])
      <4>1. db[k].status = "FAILED" /\ db[k].retry < calls[k] /\ db[k].doc = 0
        BY <1>r, <3>3 DEF CanRetry
      <4>2. row.status = "RETRYING" /\ row.retry = db[k].retry + 1 /\ row.doc = 0
        BY <3>1, <3>3, <4>1 DEF PrepareRetry, Row
      <4> QED
        BY <1>n, <3>1, <3>3, <4>1, <4>2
    <3>4. CASE next = "respond" /\ row = db[k] /\ db[k].status = "SUCCESS"
      BY <1>r, <3>4
    <3> QED
      BY <2>2, <3>2, <3>3, <3>4
  <2>5. CopySound(r)'
    BY <2>2, <2>3, <2>4 DEF CopySound, Working, RequestWorking, WorkerWorking, Begin
  <2>6. Keeps(r)
    BY <1>0, <1>a, <1>n, <2>2, <2>5 DEF Keeps, Begin, TypeOK
  <2> QED
    BY <1>0, <1>a, <2>6, KeepsSound
<1>2. ASSUME NEW r \in Request, NEW k \in Key, ExecuteRefused(r, k)
      PROVE  Sound'
  BY <1>0, <1>2
  DEF ExecuteRefused, Sound, CopiesAreSound, CopySound, RowsExist, RowExists,
      ListedExist, NumbersAreReal, RetriesWereCalls
<1>3. ASSUME NEW r \in Request, InsertRow(r) \/ ClaimRow(r)
      PROVE  Sound'
  <2>1. /\ pc[r] \in {"insert", "claim"} /\ pc'[r] = "call" /\ cur'[r] = cur[r]
        /\ mem'[r] = StartProgress(mem[r]) \/ (pc[r] = "insert" /\ mem'[r] = mem[r])
    BY <1>0, <1>3, <1>a DEF InsertRow, ClaimRow, TakeRow, TypeOK
  <2>2. CopySound(r) /\ mem[r] \in Row
    BY <1>0, <1>a, <1>c DEF TypeOK
  <2>3. CopySound(r)'
    BY <1>3, <2>1, <2>2
    DEF InsertRow, ClaimRow, TakeRow, CopySound, Working, RequestWorking, WorkerWorking,
        StartProgress, Row
  <2>4. Keeps(r)
    BY <1>0, <1>3, <1>a, <1>n, <2>3 DEF Keeps, InsertRow, ClaimRow, TakeRow, TypeOK
  <2> QED
    BY <1>0, <1>a, <2>4, KeepsSound
<1>4. ASSUME NEW p \in Proc, Finish(p), UNCHANGED <<db, issued, calls, linked>>,
             \A w \in Worker : batch'[w] \subseteq batch[w]
      PROVE  Sound'
  <2>1. pc'[p] = "idle"
    BY <1>0, <1>4 DEF Finish, TypeOK
  <2>2. CopySound(p)' /\ (p \in Worker => RowExists(p)')
    BY <2>1 DEF CopySound, RowExists, Working, RequestWorking, WorkerWorking
  <2>3. Keeps(p)
    BY <1>0, <1>4, <1>n, <2>2 DEF Keeps, Finish, TypeOK
  <2> QED
    BY <1>0, <2>3, KeepsSound
<1>5. ASSUME NEW r \in Request, RequestCommit(r)
      PROVE  Sound'
  <2>1. pc'[r] = "idle"
    BY <1>0, <1>5, <1>a DEF RequestCommit, Finish, TypeOK
  <2>2. CopySound(r)'
    BY <2>1 DEF CopySound, Working, RequestWorking, WorkerWorking
  <2>3. pc[r] = "respond" /\ cur[r] \in Key
    BY <1>5, <1>a, <1>k DEF RequestCommit, Working, RequestWorking
  <2>5. \A k \in Key : db'[k] = db[k] \/ RowSound(db'[k], issued'[k], calls'[k])
    <3>1. \A k \in Key : db'[k] = db[k] \/ (k = cur[r] /\ db'[k] = mem[r])
      BY <1>0, <1>5, <2>3 DEF RequestCommit, TypeOK
    <3>2. RowSound(mem[r], issued'[cur[r]], calls'[cur[r]])
      BY <1>5, <1>a, <1>c, <2>3
      DEF RequestCommit, CopySound, RowSound, Working, RequestWorking
    <3> QED
      BY <3>1, <3>2
  <2>6. \A k \in Key : linked'[k] = linked[k] \/ linked'[k] <= issued'[k]
    <3>1. \A k \in Key : linked'[k] = linked[k] \/ (k = cur[r] /\ linked'[k] = mem[r].doc)
      BY <1>0, <1>5, <2>3 DEF RequestCommit, TypeOK
    <3>2. mem[r].doc <= issued'[cur[r]]
      BY <1>5, <1>a, <1>c, <2>3
      DEF RequestCommit, CopySound, Working, RequestWorking
    <3> QED
      BY <3>1, <3>2
  <2>7. Keeps(r)
    <3>1. \A q \in Proc : q # r => pc'[q] = pc[q] /\ cur'[q] = cur[q] /\ mem'[q] = mem[q]
      BY <1>0, <1>5 DEF RequestCommit, Finish, TypeOK
    <3>2. UNCHANGED <<issued, calls, batch>>
      BY <1>5 DEF RequestCommit
    <3> QED
      BY <1>a, <1>n, <2>2, <2>5, <2>6, <3>1, <3>2 DEF Keeps
  <2> QED
    BY <1>0, <1>a, <2>7, KeepsSound
<1>6. ASSUME NEW w \in Worker, SweepStart(w)
      PROVE  Sound'
  <2>1. pc'[w] = "next"
    BY <1>0, <1>6, <1>b DEF SweepStart, TypeOK
  <2>2. CopySound(w)' /\ RowExists(w)'
    BY <2>1 DEF CopySound, RowExists, Working, RequestWorking, WorkerWorking
  <2>3. \A v \in Worker : \A k \in batch'[v] : k \in batch[v] \/ db'[k].status # "NONE"
    BY <1>0, <1>6 DEF SweepStart, CanRetry, TypeOK
  <2>4. Keeps(w)
    BY <1>0, <1>6, <1>n, <2>2, <2>3 DEF Keeps, SweepStart, TypeOK
  <2> QED
    BY <1>0, <1>b, <2>4, KeepsSound
<1>7. ASSUME NEW w \in Worker, NEW k \in Key,
             RetryAgain(w, k) \/ RetryExhaust(w, k)
      PROVE  Sound'
  <2>1. PICK next \in {"retrying", "exhaust"} : \E row :
           /\ RetryLoad(w, k, next, row)
           /\ \/ next = "retrying" /\ row = PrepareRetry(db[k]) /\ CanRetry(db[k])
              \/ next = "exhaust" /\ row = MarkExhausted(db[k]) /\ CanExhaust(db[k])
    BY <1>7 DEF RetryAgain, RetryExhaust
  <2>2. PICK row :
           /\ RetryLoad(w, k, next, row)
           /\ \/ next = "retrying" /\ row = PrepareRetry(db[k]) /\ CanRetry(db[k])
              \/ next = "exhaust" /\ row = MarkExhausted(db[k]) /\ CanExhaust(db[k])
    BY <2>1
  <2>3. pc'[w] = next /\ cur'[w] = k /\ mem'[w] = row
    BY <1>0, <1>b, <2>2 DEF RetryLoad, TypeOK
  <2>4. /\ row.status = IF next = "retrying" THEN "RETRYING" ELSE "EXHAUSTED"
        /\ row.doc <= issued[k]
        /\ row.doc = 0
        /\ next = "retrying" => row.retry <= calls[k]
        /\ db[k].status # "NONE"
    <3>1. db[k] \in Row /\ issued[k] \in Nat /\ calls[k] \in Nat
      BY <1>0 DEF TypeOK
    <3>2. CASE next = "retrying" /\ row = PrepareRetry(db[k]) /\ CanRetry(db[k])
      <4>1. db[k].status = "FAILED" /\ db[k].retry < calls[k] /\ db[k].doc = 0
        BY <1>r, <3>2 DEF CanRetry
      <4>2. row.status = "RETRYING" /\ row.retry = db[k].retry + 1 /\ row.doc = 0
        BY <3>1, <3>2, <4>1 DEF PrepareRetry, Row
      <4> QED
        BY <1>n, <3>1, <3>2, <4>1, <4>2
    <3>3. CASE next = "exhaust" /\ row = MarkExhausted(db[k]) /\ CanExhaust(db[k])
      <4>1. db[k].status \in {"FAILED", "RETRYING"} /\ db[k].doc = 0
        BY <1>r, <3>3 DEF CanExhaust
      <4>2. row.status = "EXHAUSTED" /\ row.doc = 0
        BY <3>1, <3>3, <4>1 DEF MarkExhausted, Row
      <4> QED
        BY <1>n, <3>1, <3>3, <4>1, <4>2
    <3> QED
      BY <2>2, <3>2, <3>3
  <2>5. CopySound(w)' /\ RowExists(w)'
    BY <2>2, <2>3, <2>4
    DEF CopySound, RowExists, Working, RequestWorking, WorkerWorking, RetryLoad
  <2>6. Keeps(w)
    BY <1>0, <1>b, <1>n, <2>2, <2>5 DEF Keeps, RetryLoad, TypeOK
  <2> QED
    BY <1>0, <1>b, <2>6, KeepsSound
<1>9. ASSUME NEW w \in Worker,
             SaveRetrying(w) \/ SaveInProgress(w) \/ SaveResult(w) \/ SaveExhausted(w)
      PROVE  Sound'
  <2>1. pc[w] \in WorkerWorking /\ cur[w] \in Key /\ mem[w] \in Row
    BY <1>0, <1>9, <1>b, <1>k
    DEF SaveRetrying, SaveInProgress, SaveResult, SaveExhausted, TypeOK,
        Working, WorkerWorking
  <2>2. PICK row \in {mem[w], StartProgress(mem[w])} :
          /\ WorkerSave(w, row)
          /\ row = StartProgress(mem[w]) => pc[w] = "started" \/ row = mem[w]
          /\ row = mem[w] => pc[w] \in {"retrying", "result", "exhaust"} \/ row = StartProgress(mem[w])
    BY <1>9 DEF SaveRetrying, SaveInProgress, SaveResult, SaveExhausted
  <2>3. RowSound(row, issued'[cur[w]], calls'[cur[w]])
    BY <1>9, <1>b, <1>c, <2>1, <2>2
    DEF SaveRetrying, SaveInProgress, SaveResult, SaveExhausted, WorkerSave, RowSound,
        CopySound, Working, WorkerWorking, StartProgress, Row
  <2>4. \A k \in Key : db'[k] = db[k] \/ RowSound(db'[k], issued'[k], calls'[k])
    <3>1. db' = [db EXCEPT ![cur[w]] = row]
      BY <2>2 DEF WorkerSave
    <3>2. db'[cur[w]] = row /\ \A k \in Key : k # cur[w] => db'[k] = db[k]
      BY <1>0, <2>1, <3>1 DEF TypeOK
    <3> QED
      BY <2>3, <3>2
  <2>5. CopySound(w)'
    <3>1. w \in Proc /\ CopySound(w) /\ UNCHANGED <<issued, calls, cur>>
      BY <1>9, <1>b, <1>c
      DEF SaveRetrying, SaveInProgress, SaveResult, SaveExhausted, WorkerSave
    <3>2. CASE SaveRetrying(w)
      <4>1. pc[w] = "retrying" /\ pc'[w] = "started" /\ mem'[w] = mem[w]
        BY <1>0, <3>1, <3>2 DEF SaveRetrying, TypeOK
      <4> QED
        BY <3>1, <4>1 DEF CopySound, Working, WorkerWorking
    <3>3. CASE SaveInProgress(w)
      <4>1. pc[w] = "started" /\ pc'[w] = "call" /\ mem'[w] = StartProgress(mem[w])
        BY <1>0, <3>1, <3>3 DEF SaveInProgress, TypeOK
      <4>2. /\ mem'[w].status = "IN_PROGRESS"
            /\ mem'[w].retry = mem[w].retry
            /\ mem'[w].doc = mem[w].doc
        BY <2>1, <4>1 DEF StartProgress, Row
      <4>3. mem[w].doc = 0
        BY <3>1, <4>1 DEF CopySound, Working, WorkerWorking
      <4> QED
        BY <3>1, <4>1, <4>2, <4>3 DEF CopySound, Working, WorkerWorking
    <3>4. CASE SaveResult(w) \/ SaveExhausted(w)
      <4>1. pc'[w] = "next"
        BY <1>0, <3>1, <3>4 DEF SaveResult, SaveExhausted, TypeOK
      <4> QED
        BY <4>1 DEF CopySound, Working, RequestWorking, WorkerWorking
    <3> QED
      BY <1>9, <3>2, <3>3, <3>4
  <2>6. RowExists(w)'
    <3>1. cur'[w] = cur[w]
      BY <1>9 DEF SaveRetrying, SaveInProgress, SaveResult, SaveExhausted
    <3>2. db[cur[w]].status # "NONE"
      BY <1>0, <2>1 DEF Sound, RowsExist, RowExists
    <3> QED
      BY <2>1, <2>4, <3>1, <3>2 DEF RowExists, RowSound
  <2>7. Keeps(w)
    <3>1. \A q \in Proc : q # w => pc'[q] = pc[q] /\ cur'[q] = cur[q] /\ mem'[q] = mem[q]
      BY <1>0, <1>9 DEF SaveRetrying, SaveInProgress, SaveResult, SaveExhausted, TypeOK
    <3>2. UNCHANGED <<issued, calls, batch, linked>>
      BY <2>2 DEF WorkerSave
    <3> QED
      BY <1>n, <2>4, <2>5, <2>6, <3>1, <3>2 DEF Keeps
  <2> QED
    BY <1>0, <1>b, <2>7, KeepsSound
<1>10. ASSUME NEW p \in Proc, CallStep(p)
       PROVE  Sound'
  <2>1. PICK docs \in {0, 1} : \E row :
          /\ CallSAP(p, docs, row)
          /\ \/ docs = 1 /\ row = Succeed(mem[p], issued[cur[p]] + 1)
             \/ row = Fail(mem[p])
             \/ row = Succeed(mem[p], 0)
    BY <1>10 DEF CallStep, CallCreated, CallRefused, CallLost, CallEmpty
  <2>2. PICK row :
          /\ CallSAP(p, docs, row)
          /\ \/ docs = 1 /\ row = Succeed(mem[p], issued[cur[p]] + 1)
             \/ row = Fail(mem[p])
             \/ row = Succeed(mem[p], 0)
    BY <2>1
  <2>3. pc[p] = "call" /\ cur[p] \in Key /\ mem[p] \in Row /\ CopySound(p)
    BY <1>0, <1>c, <1>k, <2>2 DEF CallSAP, TypeOK, Working, RequestWorking
  <2>4. /\ issued'[cur[p]] = issued[cur[p]] + docs
        /\ calls'[cur[p]] = calls[cur[p]] + 1
        /\ \A k \in Key : k # cur[p] => issued'[k] = issued[k] /\ calls'[k] = calls[k]
    BY <1>0, <2>2, <2>3 DEF CallSAP, TypeOK
  <2>5. \A k \in Key : issued[k] <= issued'[k] /\ calls[k] <= calls'[k]
    BY <1>n, <2>3, <2>4
  <2>6. /\ row.status \in {"SUCCESS", "FAILED"}
        /\ row.doc <= issued'[cur[p]]
        /\ row.doc # 0 => row.status = "SUCCESS"
        /\ row.retry < calls'[cur[p]]
    <3>1. /\ mem[p].status = "IN_PROGRESS" /\ mem[p].doc = 0
          /\ mem[p].retry <= calls[cur[p]]
      BY <2>3 DEF CopySound, Working, RequestWorking
    <3>2. /\ row.status \in {"SUCCESS", "FAILED"}
          /\ row.retry = mem[p].retry
          /\ row.doc = 0 \/ (row.doc = issued[cur[p]] + 1 /\ row.status = "SUCCESS" /\ docs = 1)
      BY <2>2, <2>3, <3>1 DEF Succeed, Fail, Row
    <3> QED
      BY <1>n, <2>3, <2>4, <3>1, <3>2
  <2>7. pc'[p] \in {"respond", "result"} /\ cur'[p] = cur[p] /\ mem'[p] = row
    BY <1>0, <2>2 DEF CallSAP, TypeOK
  <2>8. CopySound(p)'
    BY <2>6, <2>7 DEF CopySound
  <2>9. p \in Worker => RowExists(p)'
    BY <1>0, <2>2, <2>3, <2>7
    DEF CallSAP, Sound, RowsExist, RowExists, WorkerWorking
  <2>10. Keeps(p)
    <3>1. \A q \in Proc : q # p => pc'[q] = pc[q] /\ cur'[q] = cur[q] /\ mem'[q] = mem[q]
      BY <1>0, <2>2 DEF CallSAP, TypeOK
    <3>2. UNCHANGED <<db, batch, linked>>
      BY <2>2 DEF CallSAP
    <3> QED
      BY <2>5, <2>8, <2>9, <3>1, <3>2 DEF Keeps
  <2> QED
    BY <1>0, <2>10, KeepsSound
<1>11. CASE UNCHANGED vars
  BY <1>0, <1>11
  DEF vars, Sound, CopiesAreSound, CopySound, RowsExist, RowExists,
      ListedExist, NumbersAreReal, RetriesWereCalls
<1>12. ASSUME NEW r \in Request, InsertConflict(r) \/ RequestRollback(r)
       PROVE  Sound'
  BY <1>4, <1>12, <1>a DEF InsertConflict, RequestRollback
<1>13. ASSUME NEW w \in Worker, SweepEnd(w) \/ WorkerCrash(w)
       PROVE  Sound'
  <2>1. Finish(w) /\ UNCHANGED <<db, issued, calls, linked>>
    BY <1>13 DEF SweepEnd, WorkerCrash
  <2>2. \A v \in Worker : batch'[v] \subseteq batch[v]
    BY <1>0, <1>13 DEF SweepEnd, WorkerCrash, TypeOK
  <2> QED
    BY <1>4, <1>b, <2>1, <2>2
<1>14. ASSUME NEW w \in Worker, NEW k \in Key, RetryIllegal(w, k)
       PROVE  Sound'
  <2>1. \A v \in Worker : batch'[v] \subseteq batch[v]
    BY <1>0, <1>14 DEF RetryIllegal, TypeOK
  <2> QED
    BY <1>4, <1>14, <1>b, <2>1 DEF RetryIllegal
<1> QED
  BY <1>1, <1>2, <1>3, <1>5, <1>6, <1>7, <1>9, <1>10, <1>11, <1>12, <1>13, <1>14
  DEF Next, RequestStep, WorkerStep

\* The inductive invariant holds in every execution.
THEOREM IInvHolds == Spec => []IInv
<1>1. Init => IInv
  BY InitTypeOK, InitSound
  DEF Init, IInv, Placed, Proc, Working, RequestWorking, WorkerWorking
<1>2. IInv /\ [Next]_vars => IInv'
  BY NextTypeOK, NextPlaced, NextSound DEF IInv
<1> QED
  BY <1>1, <1>2, PTL DEF Spec

\* No document number is invented: whatever overlaps, dies or is rolled back, a
\* number on a row or a business object is one SAP gave out for the key.
THEOREM NumbersNeverInvented == Spec => []NumbersAreReal
<1>1. IInv => NumbersAreReal
  BY DEF IInv, Sound
<1> QED
  BY <1>1, IInvHolds, PTL

\* The retry counter of a finished attempt never exceeds the calls made.
THEOREM BudgetAccounted == Spec => []RetriesWereCalls
<1>1. IInv => RetriesWereCalls
  BY DEF IInv, Sound
<1> QED
  BY <1>1, IInvHolds, PTL

\* Every adapter call is made under a journal entry that says IN_PROGRESS.
THEOREM JournaledCalls == Spec => []CallsAreJournaled
<1>1. IInv => CallsAreJournaled
  <2> SUFFICES ASSUME IInv, NEW p \in Proc, pc[p] = "call"
               PROVE  /\ mem[p].status = "IN_PROGRESS"
                      /\ p \in Request => lock[cur[p]] = p
                      /\ p \in Worker => db[cur[p]].status # "NONE"
    BY DEF CallsAreJournaled
  <2>1. CopySound(p) /\ (p \in Worker => RowExists(p))
    BY DEF IInv, Sound, CopiesAreSound, RowsExist
  <2> QED
    BY <2>1
    DEF IInv, Placed, CopySound, RowExists, Working, RequestWorking, WorkerWorking
<1> QED
  BY <1>1, IInvHolds, PTL

--------------------------------------------------------------------------------
(* Executions in which no request is rolled back: documents are journaled.   *)

\* A document is on a committed row, or on the row that the open transaction of a
\* request is about to commit.
Recorded ==
  \A k \in Key : issued[k] > 0 =>
    \/ db[k].status # "NONE"
    \/ \E r \in Request : lock[k] = r /\ cur[r] = k /\ pc[r] \in {"call", "respond"}

\* A step that writes a row leaves one with a status.
LEMMA RowsStay ==
  ASSUME IInv, [Next]_vars, NEW k \in Key, db[k].status # "NONE"
  PROVE  db'[k].status # "NONE"
<1>1. \A p \in Proc : CopySound(p) /\ (pc[p] \in Working => cur[p] \in Key)
  BY DEF IInv, Sound, CopiesAreSound, Placed
<1>2. ASSUME NEW r \in Request, RequestCommit(r) PROVE db'[k].status # "NONE"
  BY <1>1, <1>2
  DEF RequestCommit, IInv, TypeOK, CopySound, Proc, Working, RequestWorking
<1>3. ASSUME NEW w \in Worker,
             SaveRetrying(w) \/ SaveInProgress(w) \/ SaveResult(w) \/ SaveExhausted(w)
      PROVE  db'[k].status # "NONE"
  <2>1. w \in Proc /\ cur[w] \in Key /\ mem[w] \in Row /\ mem[w].status # "NONE"
    BY <1>1, <1>3
    DEF SaveRetrying, SaveInProgress, SaveResult, SaveExhausted, IInv, TypeOK, CopySound,
        Proc, Working, WorkerWorking
  <2>2. StartProgress(mem[w]).status # "NONE"
    BY <2>1 DEF StartProgress, Row
  <2>3. db' = [db EXCEPT ![cur[w]] = mem[w]] \/ db' = [db EXCEPT ![cur[w]] = StartProgress(mem[w])]
    BY <1>3 DEF SaveRetrying, SaveInProgress, SaveResult, SaveExhausted, WorkerSave
  <2> QED
    BY <2>1, <2>2, <2>3 DEF IInv, TypeOK
<1>4. CASE UNCHANGED db
  BY <1>4
<1> QED
  BY <1>2, <1>3, <1>4
  DEF Next, vars, RequestStep, WorkerStep, CallStep, ExecuteNew, ExecuteResume,
      ExecuteCached, ExecuteRefused, Begin, InsertRow, InsertConflict, ClaimRow, TakeRow,
      RequestRollback, SweepStart, SweepEnd, WorkerCrash, RetryAgain, RetryExhaust,
      RetryIllegal, RetryLoad, CallCreated, CallRefused, CallLost, CallEmpty, CallSAP

\* A request that has reached SAP stays where it is until it commits its row.
LEMMA HolderStays ==
  ASSUME IInv, [Next]_vars, "rollback" \notin Faults,
         NEW k \in Key, NEW r \in Request,
         lock[k] = r, cur[r] = k, pc[r] \in {"call", "respond"}
  PROVE  \/ db'[k].status # "NONE"
         \/ lock'[k] = r /\ cur'[r] = k /\ pc'[r] \in {"call", "respond"}
<1> USE SAPAssumption DEF IInv, TypeOK, Proc
<1>1. r \in Proc /\ r \notin Worker
  OBVIOUS
<1>2. ASSUME NEW s \in Request, RequestCommit(s)
      PROVE  \/ lock'[k] = r /\ cur'[r] = k /\ pc'[r] \in {"call", "respond"}
             \/ db'[k].status # "NONE"
  <2>1. CASE s = r
    BY <1>1, <1>2, <2>1
    DEF RequestCommit, Sound, CopiesAreSound, CopySound, Working, RequestWorking
  <2>2. CASE s # r
    BY <1>2, <2>2 DEF RequestCommit, Finish
  <2> QED
    BY <2>1, <2>2
<1>3. ASSUME NEW s \in Request, RequestStep(s), ~RequestCommit(s)
      PROVE  lock'[k] = r /\ cur'[r] = k /\ pc'[r] \in {"call", "respond"}
  <2>1. s # r
    BY <1>3
    DEF RequestStep, ExecuteNew, ExecuteResume, ExecuteCached, ExecuteRefused, Begin,
        MayBegin, InsertRow, InsertConflict, ClaimRow, RequestRollback
  <2>2. pc'[r] = pc[r] /\ cur'[r] = cur[r]
    BY <1>3, <2>1
    DEF RequestStep, ExecuteNew, ExecuteResume, ExecuteCached, ExecuteRefused, Begin,
        InsertRow, InsertConflict, ClaimRow, RequestRollback, TakeRow, Finish
  <2>3. lock'[k] = lock[k]
    BY <1>3, <2>1
    DEF RequestStep, ExecuteNew, ExecuteResume, ExecuteCached, ExecuteRefused, Begin,
        InsertRow, InsertConflict, ClaimRow, RequestRollback, TakeRow
  <2> QED
    BY <2>2, <2>3
<1>4. ASSUME NEW w \in Worker, WorkerStep(w)
      PROVE  lock'[k] = r /\ cur'[r] = k /\ pc'[r] \in {"call", "respond"}
  BY <1>1, <1>4
  DEF WorkerStep, SweepStart, SweepEnd, WorkerCrash, RetryAgain, RetryExhaust, RetryIllegal,
      RetryLoad, SaveRetrying, SaveInProgress, SaveResult, SaveExhausted, WorkerSave, Finish
<1>5. ASSUME NEW p \in Proc, CallStep(p)
      PROVE  lock'[k] = r /\ cur'[r] = k /\ pc'[r] \in {"call", "respond"}
  BY <1>1, <1>5 DEF CallStep, CallCreated, CallRefused, CallLost, CallEmpty, CallSAP
<1>6. CASE UNCHANGED vars
  BY <1>6 DEF vars
<1> QED
  BY <1>2, <1>3, <1>4, <1>5, <1>6 DEF Next

\* A document that SAP has just created is on the row of the process that asked.
LEMMA CreatedIsRecorded ==
  ASSUME IInv, IInv', NEW p \in Proc, CallStep(p), NEW k \in Key, issued'[k] # issued[k]
  PROVE  \/ db'[k].status # "NONE"
         \/ \E r \in Request : lock'[k] = r /\ cur'[r] = k /\ pc'[r] \in {"call", "respond"}
<1>1. PICK docs, row : CallSAP(p, docs, row)
  BY DEF CallStep, CallCreated, CallRefused, CallLost, CallEmpty
<1>2. cur[p] = k /\ pc[p] = "call"
  BY <1>1 DEF CallSAP, IInv, TypeOK
<1>3. CASE p \in Request
  BY <1>1, <1>2, <1>3 DEF CallSAP, IInv, TypeOK, Placed
<1>4. CASE p \in Worker
  BY <1>1, <1>2, <1>4
  DEF CallSAP, IInv, Sound, RowsExist, RowExists, WorkerWorking
<1> QED
  BY <1>3, <1>4 DEF Proc

LEMMA NextRecorded ==
  ASSUME IInv, IInv', [Next]_vars, "rollback" \notin Faults, Recorded
  PROVE  Recorded'
<1> SUFFICES ASSUME NEW k \in Key, issued'[k] > 0
             PROVE  \/ db'[k].status # "NONE"
                    \/ \E r \in Request : /\ lock'[k] = r /\ cur'[r] = k
                                          /\ pc'[r] \in {"call", "respond"}
  BY DEF Recorded
<1>1. CASE issued'[k] = issued[k]
  BY <1>1, RowsStay, HolderStays DEF Recorded
<1>2. CASE issued'[k] # issued[k]
  <2>1. \E p \in Proc : CallStep(p)
    BY <1>2
    DEF Next, vars, RequestStep, WorkerStep, ExecuteNew, ExecuteResume,
        ExecuteCached, ExecuteRefused, Begin, InsertRow, InsertConflict, ClaimRow, TakeRow,
        RequestRollback, RequestCommit, SweepStart, SweepEnd, WorkerCrash, RetryAgain,
        RetryExhaust, RetryIllegal, RetryLoad, SaveRetrying, SaveInProgress, SaveResult,
        SaveExhausted, WorkerSave
  <2> QED
    BY <1>2, <2>1, CreatedIsRecorded
<1> QED
  BY <1>1, <1>2

\* Where requests are not rolled back every document has its journal row as soon as
\* nobody is at work on its key, whatever else overlaps, crashes or is lost.
THEOREM EveryDocumentJournaledHolds ==
  ASSUME "rollback" \notin Faults
  PROVE  Spec => []EveryDocumentJournaled
<1>1. Init => Recorded
  BY DEF Init, Recorded
<1>2. IInv /\ IInv' /\ Recorded /\ [Next]_vars => Recorded'
  BY NextRecorded
<1>3. Recorded => EveryDocumentJournaled
  BY DEF Recorded, EveryDocumentJournaled, Proc
<1> QED
  BY <1>1, <1>2, <1>3, IInvHolds, PTL DEF Spec

--------------------------------------------------------------------------------
(* Executions in which requests and sweeps do not overlap.                   *)

Alone == \A p, q \in Proc : pc[p] # "idle" /\ pc[q] # "idle" => p = q

\* Whoever holds a row is at work on it.
LocksAreHeld ==
  \A k \in Key : lock[k] # None =>
    pc[lock[k]] \in {"call", "respond"} /\ cur[lock[k]] = k

\* A request that holds its row has not written it, a worker writes as it goes.
Holds(p) == p \in Request /\ lock[cur[p]] = p

\* What the committed row says while a process works on a copy of it.
RowAt(p) ==
  /\ pc[p] = "insert" => db[cur[p]].status = "NONE"
  /\ pc[p] \in {"claim", "retrying"} => db[cur[p]].status = "FAILED"
  /\ pc[p] \in {"call", "respond"} /\ Holds(p) => db[cur[p]].status \in {"NONE", "FAILED"}
  /\ pc[p] = "started" => db[cur[p]].status = "RETRYING"
  /\ pc[p] \in {"call", "result"} /\ p \in Worker => db[cur[p]].status = "IN_PROGRESS"
  /\ pc[p] = "exhaust" => db[cur[p]].status \in {"FAILED", "RETRYING"}

SerialInv == Alone /\ LocksAreHeld /\ \A p \in Proc : RowAt(p)

\* Nothing else is at work before and after the step of a process.
AloneAt(p) == \A q \in Proc : q # p => pc[q] = "idle"

LEMMA RequestAlone ==
  ASSUME TypeOK, Serial, Alone, NEW r \in Request, RequestStep(r)
  PROVE  AloneAt(r) /\ AloneAt(r)'
<1>1. r \in Proc
  BY DEF Proc
<1>2. pc[r] # "idle" \/ MayBegin(r)
  BY DEF RequestStep, ExecuteNew, ExecuteResume, ExecuteCached, ExecuteRefused, Begin,
         InsertRow, InsertConflict, ClaimRow, RequestCommit, RequestRollback
<1>3. AloneAt(r)
  BY <1>1, <1>2 DEF Alone, AloneAt, MayBegin
<1>4. \A q \in Proc : q # r => pc'[q] = pc[q]
  BY DEF TypeOK, RequestStep, ExecuteNew, ExecuteResume, ExecuteCached, ExecuteRefused, Begin,
         InsertRow, InsertConflict, ClaimRow, TakeRow, RequestCommit, RequestRollback, Finish
<1> QED
  BY <1>3, <1>4 DEF AloneAt

LEMMA WorkerAlone ==
  ASSUME TypeOK, Serial, Alone, NEW w \in Worker, WorkerStep(w)
  PROVE  AloneAt(w) /\ AloneAt(w)'
<1>1. w \in Proc
  BY DEF Proc
<1>2. pc[w] # "idle" \/ MayBegin(w)
  BY DEF WorkerStep, SweepStart, SweepEnd, WorkerCrash, RetryAgain, RetryExhaust,
         RetryIllegal, RetryLoad, SaveRetrying, SaveInProgress, SaveResult, SaveExhausted
<1>3. AloneAt(w)
  BY <1>1, <1>2 DEF Alone, AloneAt, MayBegin
<1>4. \A q \in Proc : q # w => pc'[q] = pc[q]
  BY DEF TypeOK, WorkerStep, SweepStart, SweepEnd, WorkerCrash, RetryAgain, RetryExhaust,
         RetryIllegal, RetryLoad, SaveRetrying, SaveInProgress, SaveResult, SaveExhausted,
         Finish
<1> QED
  BY <1>3, <1>4 DEF AloneAt

LEMMA CallAlone ==
  ASSUME TypeOK, Serial, Alone, NEW p \in Proc, CallStep(p)
  PROVE  AloneAt(p) /\ AloneAt(p)'
<1>1. PICK docs, row : CallSAP(p, docs, row)
  BY DEF CallStep, CallCreated, CallRefused, CallLost, CallEmpty
<1> QED
  BY <1>1 DEF CallSAP, Alone, AloneAt, TypeOK

\* When one process is alone the invariant has to be shown of that process only.
LEMMA SerialFromOne ==
  ASSUME NEW p \in Proc, AloneAt(p)', LocksAreHeld', RowAt(p)'
  PROVE  SerialInv'
<1>1. \A q \in Proc : q # p => RowAt(q)'
  BY DEF AloneAt, RowAt
<1> QED
  BY <1>1 DEF SerialInv, Alone, AloneAt

LEMMA RequestSerial ==
  ASSUME IInv, Serial, SerialInv, NEW r \in Request, RequestStep(r)
  PROVE  SerialInv'
<1> USE SAPAssumption DEF IInv, TypeOK, Proc
<1>0. r \in Proc /\ r \notin Worker /\ AloneAt(r) /\ AloneAt(r)'
  BY RequestAlone DEF SerialInv
<1>1. LocksAreHeld /\ RowAt(r) /\ (pc[r] \in Working => cur[r] \in Key)
  BY <1>0 DEF SerialInv, Placed
<1>2. ASSUME NEW k \in Key, ExecuteNew(r, k) \/ ExecuteResume(r, k) \/ ExecuteCached(r, k)
      PROVE  LocksAreHeld' /\ RowAt(r)'
  <2>1. \A j \in Key : lock[j] = None
    BY <1>0, <1>1, <1>2
    DEF LocksAreHeld, AloneAt, ExecuteNew, ExecuteResume, ExecuteCached, Begin, MayBegin
  <2>2. LocksAreHeld'
    BY <1>2, <2>1
    DEF LocksAreHeld, ExecuteNew, ExecuteResume, ExecuteCached, Begin
  <2>3. RowAt(r)'
    BY <1>0, <1>2, <2>1
    DEF RowAt, Holds, ExecuteNew, ExecuteResume, ExecuteCached, Begin, CanRetry
  <2> QED
    BY <2>2, <2>3
<1>3. ASSUME NEW k \in Key, ExecuteRefused(r, k)
      PROVE  LocksAreHeld' /\ RowAt(r)'
  BY <1>1, <1>3 DEF LocksAreHeld, RowAt, Holds, ExecuteRefused
<1>4. ASSUME InsertRow(r) \/ ClaimRow(r)
      PROVE  LocksAreHeld' /\ RowAt(r)'
  <2>1. pc[r] \in {"insert", "claim"} /\ cur[r] \in Key /\ TakeRow(r)
    BY <1>1, <1>4 DEF InsertRow, ClaimRow, Working, RequestWorking
  <2>2. LocksAreHeld'
    BY <1>0, <1>1, <2>1 DEF LocksAreHeld, TakeRow
  <2>3. RowAt(r)'
    BY <1>0, <1>1, <2>1 DEF RowAt, TakeRow, Holds
  <2> QED
    BY <2>2, <2>3
<1>5. ASSUME Finish(r), lock' = IF lock[cur[r]] = r THEN [lock EXCEPT ![cur[r]] = None] ELSE lock
      PROVE  LocksAreHeld' /\ RowAt(r)'
  <2>1. pc' = [pc EXCEPT ![r] = "idle"] /\ pc'[r] = "idle"
    BY <1>0, <1>5 DEF Finish
  <2>2. RowAt(r)'
    BY <2>1 DEF RowAt
  <2>3. ASSUME NEW k \in Key, lock'[k] # None
        PROVE  pc'[lock'[k]] \in {"call", "respond"} /\ cur'[lock'[k]] = k
    <3>1. lock'[k] = lock[k] /\ lock[k] # r
      BY <1>1, <1>5, <2>3 DEF LocksAreHeld
    <3> QED
      BY <1>1, <1>5, <2>3, <3>1 DEF LocksAreHeld, Finish
  <2> QED
    BY <2>2, <2>3 DEF LocksAreHeld
<1>6. ASSUME InsertConflict(r)
      PROVE  LocksAreHeld' /\ RowAt(r)'
  <2>1. lock[cur[r]] # r
    BY <1>0, <1>6 DEF InsertConflict
  <2> QED
    BY <1>5, <1>6, <2>1 DEF InsertConflict
<1>7. LocksAreHeld' /\ RowAt(r)'
  BY <1>2, <1>3, <1>4, <1>5, <1>6 DEF RequestStep, RequestCommit, RequestRollback
<1> QED
  BY <1>0, <1>7, SerialFromOne

LEMMA WorkerSerial ==
  ASSUME IInv, Serial, SerialInv, NEW w \in Worker, WorkerStep(w)
  PROVE  SerialInv'
<1> USE SAPAssumption DEF IInv, TypeOK, Proc
<1>0. w \in Proc /\ w \notin Request /\ AloneAt(w) /\ AloneAt(w)'
  BY WorkerAlone DEF SerialInv
<1>1. LocksAreHeld /\ RowAt(w) /\ (pc[w] \in Working => cur[w] \in Key)
  BY <1>0 DEF SerialInv, Placed
\* The others are idle, so nobody holds a row, and a worker never does.
<1>2. \A k \in Key : lock[k] = None
  BY <1>0, <1>1 DEF LocksAreHeld, AloneAt
<1>3. UNCHANGED lock
  BY DEF WorkerStep, SweepStart, SweepEnd, WorkerCrash, RetryAgain, RetryExhaust,
         RetryIllegal, RetryLoad, SaveRetrying, SaveInProgress, SaveResult, SaveExhausted,
         WorkerSave
<1>4. LocksAreHeld'
  BY <1>2, <1>3 DEF LocksAreHeld
<1>5. ASSUME SweepStart(w) \/ SweepEnd(w) \/ WorkerCrash(w) \/ SaveResult(w) \/ SaveExhausted(w)
      PROVE  RowAt(w)'
  <2>1. pc'[w] \in {"next", "idle"}
    BY <1>0, <1>5 DEF SweepStart, SweepEnd, WorkerCrash, SaveResult, SaveExhausted, Finish
  <2> QED
    BY <2>1 DEF RowAt
<1>6. ASSUME NEW k \in Key, RetryAgain(w, k) \/ RetryExhaust(w, k) \/ RetryIllegal(w, k)
      PROVE  RowAt(w)'
  BY <1>0, <1>6
  DEF RowAt, Holds, RetryAgain, RetryExhaust, RetryIllegal, RetryLoad, CanRetry, CanExhaust,
      Finish
<1>7. ASSUME SaveRetrying(w)
      PROVE  RowAt(w)'
  <2>1. pc[w] = "retrying" /\ pc'[w] = "started" /\ cur' = cur /\ cur[w] \in Key
        /\ db'[cur[w]] = mem[w]
    BY <1>0, <1>1, <1>7 DEF SaveRetrying, WorkerSave, Working, WorkerWorking
  <2>2. mem[w].status = "RETRYING"
    BY <1>0, <2>1 DEF Sound, CopiesAreSound, CopySound, Working, WorkerWorking
  <2> QED
    BY <2>1, <2>2 DEF RowAt
<1>8. ASSUME SaveInProgress(w)
      PROVE  RowAt(w)'
  <2>1. pc[w] = "started" /\ pc'[w] = "call" /\ cur' = cur /\ cur[w] \in Key
        /\ db'[cur[w]] = StartProgress(mem[w]) /\ mem[w] \in Row
    BY <1>0, <1>1, <1>8 DEF SaveInProgress, WorkerSave, Working, WorkerWorking
  <2>2. StartProgress(mem[w]).status = "IN_PROGRESS"
    BY <2>1 DEF StartProgress, Row
  <2> QED
    BY <1>0, <2>1, <2>2 DEF RowAt, Holds
<1>9. RowAt(w)'
  BY <1>5, <1>6, <1>7, <1>8 DEF WorkerStep
<1> QED
  BY <1>0, <1>4, <1>9, SerialFromOne

LEMMA NextSerial ==
  ASSUME IInv, Serial, SerialInv, [Next]_vars
  PROVE  SerialInv'
<1>1. ASSUME NEW p \in Proc, CallStep(p)
      PROVE  SerialInv'
  <2>1. PICK docs, row : CallSAP(p, docs, row)
    BY <1>1 DEF CallStep, CallCreated, CallRefused, CallLost, CallEmpty
  <2>2. AloneAt(p)'
    BY <1>1, CallAlone DEF SerialInv, IInv
  <2>3. /\ pc[p] = "call" /\ cur' = cur /\ lock' = lock /\ db' = db
        /\ pc' = [pc EXCEPT ![p] = IF p \in Request THEN "respond" ELSE "result"]
    BY <2>1 DEF CallSAP
  <2>4. LocksAreHeld'
    BY <2>3, SAPAssumption DEF SerialInv, LocksAreHeld, IInv, TypeOK, Proc
  <2>5. RowAt(p)'
    BY <2>3, SAPAssumption DEF SerialInv, RowAt, Holds, IInv, TypeOK, Proc
  <2> QED
    BY <2>2, <2>4, <2>5, SerialFromOne
<1>2. CASE UNCHANGED vars
  BY <1>2 DEF vars, SerialInv, Alone, LocksAreHeld, RowAt, Holds
<1> QED
  BY <1>1, <1>2, RequestSerial, WorkerSerial DEF Next

LEMMA InitSerial == Init => SerialInv
BY SAPAssumption DEF Init, SerialInv, Alone, LocksAreHeld, RowAt

\* A row that is done for is not the one a process alone at work writes to.
LEMMA TerminalStays ==
  ASSUME IInv, SerialInv, [Next]_vars, NEW k \in Key, db[k].status \in {"SUCCESS", "EXHAUSTED"}
  PROVE  db'[k] = db[k]
<1> USE SAPAssumption DEF IInv, TypeOK, Proc
<1>1. ASSUME NEW r \in Request, RequestCommit(r) PROVE db'[k] = db[k]
  BY <1>1 DEF RequestCommit, SerialInv, RowAt, Holds
<1>2. ASSUME NEW w \in Worker,
             SaveRetrying(w) \/ SaveInProgress(w) \/ SaveResult(w) \/ SaveExhausted(w)
      PROVE  db'[k] = db[k]
  BY <1>2
  DEF SaveRetrying, SaveInProgress, SaveResult, SaveExhausted, WorkerSave, SerialInv, RowAt
<1>3. CASE UNCHANGED db
  BY <1>3
<1> QED
  BY <1>1, <1>2, <1>3
  DEF Next, vars, RequestStep, WorkerStep, CallStep, ExecuteNew, ExecuteResume,
      ExecuteCached, ExecuteRefused, Begin, InsertRow, InsertConflict, ClaimRow, TakeRow,
      RequestRollback, SweepStart, SweepEnd, WorkerCrash, RetryAgain, RetryExhaust,
      RetryIllegal, RetryLoad, CallCreated, CallRefused, CallLost, CallEmpty, CallSAP

\* Where requests and sweeps do not overlap a row in SUCCESS or EXHAUSTED keeps its
\* status for ever, whatever is rolled back, dies or is lost.
THEOREM TerminalIsFinalHolds ==
  ASSUME Serial
  PROVE  Spec => TerminalIsFinal
<1>1. IInv /\ SerialInv /\ [Next]_vars => SerialInv'
  BY NextSerial
<1>2. IInv /\ SerialInv /\ [Next]_vars
        => [\A k \in Key : db[k].status \in {"SUCCESS", "EXHAUSTED"}
                             => db'[k].status = db[k].status]_vars
  BY TerminalStays
<1> QED
  BY <1>1, <1>2, InitSerial, IInvHolds, PTL DEF Spec, TerminalIsFinal

\* An attempt is only begun while SAP has no document, and within the budget.
Charged(p) ==
  /\ pc[p] \in {"insert", "claim", "call", "retrying", "started"} =>
       issued[cur[p]] = 0 /\ calls[cur[p]] <= mem[p].retry
  /\ pc[p] \in {"respond", "result"} /\ mem[p].status = "FAILED" =>
       issued[cur[p]] = 0 /\ calls[cur[p]] <= mem[p].retry + 1

\* A row from which an attempt may be begun, or none, has no document in SAP.
Settled(k) ==
  lock[k] = None /\ db[k].status \in {"NONE", "FAILED"} =>
    /\ issued[k] = 0
    /\ calls[k] <= IF db[k].status = "NONE" THEN 0 ELSE db[k].retry + 1

OrderlyInv ==
  /\ \A p \in Proc : Charged(p)
  /\ \A k \in Key : Settled(k) /\ issued[k] <= 1

LEMMA InitOrderly == Init => OrderlyInv
BY SAPAssumption DEF Init, OrderlyInv, Charged, Settled, NoRow

LEMMA OrderlyFromOne ==
  ASSUME NEW p \in Proc, AloneAt(p)', Charged(p)', \A k \in Key : Settled(k)' /\ issued'[k] <= 1
  PROVE  OrderlyInv'
<1>1. \A q \in Proc : q # p => Charged(q)'
  BY DEF AloneAt, Charged
<1> QED
  BY <1>1 DEF OrderlyInv

LEMMA RequestOrderly ==
  ASSUME IInv, Orderly, SerialInv, OrderlyInv, NEW r \in Request, RequestStep(r)
  PROVE  OrderlyInv'
<1> USE SAPAssumption DEF IInv, TypeOK, Proc
<1>0. r \in Proc /\ r \notin Worker /\ AloneAt(r) /\ AloneAt(r)'
  BY RequestAlone DEF SerialInv, Orderly
<1>1. /\ LocksAreHeld /\ RowAt(r) /\ Charged(r) /\ CopySound(r)
      /\ pc[r] \in Working => cur[r] \in Key
      /\ \A k \in Key : Settled(k) /\ issued[k] <= 1
  BY <1>0 DEF SerialInv, OrderlyInv, Placed, Sound, CopiesAreSound
<1>2. UNCHANGED <<issued, calls>>
  BY DEF RequestStep, ExecuteNew, ExecuteResume, ExecuteCached, ExecuteRefused, Begin,
         InsertRow, InsertConflict, ClaimRow, TakeRow, RequestCommit, RequestRollback
<1>3. ASSUME NEW k \in Key, ExecuteNew(r, k) \/ ExecuteResume(r, k) \/ ExecuteCached(r, k)
      PROVE  Charged(r)' /\ \A j \in Key : Settled(j)'
  <2>1. Settled(k) /\ lock[k] = None
    BY <1>0, <1>1, <1>3
    DEF LocksAreHeld, AloneAt, ExecuteNew, ExecuteResume, ExecuteCached, Begin, MayBegin
  <2>2. \A j \in Key : Settled(j)'
    BY <1>1, <1>2, <1>3 DEF Settled, ExecuteNew, ExecuteResume, ExecuteCached, Begin
  <2>3. CASE ExecuteNew(r, k)
    <3>1. /\ pc'[r] = "insert" /\ cur'[r] = k /\ mem'[r] = Fresh
          /\ issued[k] = 0 /\ calls[k] <= 0
      BY <1>0, <2>1, <2>3 DEF ExecuteNew, Begin, Settled
    <3>2. Fresh.retry = 0
      BY DEF Fresh, NoRow
    <3> QED
      BY <1>2, <2>2, <3>1, <3>2 DEF Charged
  <2>4. CASE ExecuteResume(r, k)
    <3>1. /\ pc'[r] = "claim" /\ cur'[r] = k /\ mem'[r] = PrepareRetry(db[k])
          /\ issued[k] = 0 /\ calls[k] <= db[k].retry + 1
      BY <1>0, <2>1, <2>4 DEF ExecuteResume, Begin, Settled, CanRetry
    <3>2. PrepareRetry(db[k]).retry = db[k].retry + 1
      BY DEF PrepareRetry, Row
    <3> QED
      BY <1>2, <2>2, <3>1, <3>2 DEF Charged
  <2>5. CASE ExecuteCached(r, k)
    <3>1. pc'[r] = "respond" /\ mem'[r].status = "SUCCESS"
      BY <1>0, <2>5 DEF ExecuteCached, Begin
    <3> QED
      BY <2>2, <3>1 DEF Charged
  <2> QED
    BY <1>3, <2>3, <2>4, <2>5
<1>4. ASSUME NEW k \in Key, ExecuteRefused(r, k)
      PROVE  Charged(r)' /\ \A j \in Key : Settled(j)'
  BY <1>1, <1>2, <1>4 DEF ExecuteRefused, Charged, Settled
<1>5. ASSUME InsertRow(r) \/ ClaimRow(r)
      PROVE  Charged(r)' /\ \A j \in Key : Settled(j)'
  <2>1. /\ pc[r] \in {"insert", "claim"} /\ pc'[r] = "call" /\ cur' = cur /\ cur[r] \in Key
        /\ lock' = [lock EXCEPT ![cur[r]] = r] /\ db' = db
        /\ mem'[r] = mem[r] \/ mem'[r] = StartProgress(mem[r])
    BY <1>0, <1>1, <1>5 DEF InsertRow, ClaimRow, TakeRow, Working, RequestWorking
  <2>2. mem'[r].retry = mem[r].retry
    BY <1>0, <2>1 DEF StartProgress, Row
  <2>3. Charged(r)'
    BY <1>1, <1>2, <2>1, <2>2 DEF Charged
  <2>4. \A j \in Key : Settled(j)'
    BY <1>1, <1>2, <2>1 DEF Settled
  <2> QED
    BY <2>3, <2>4
<1>6. ASSUME Finish(r)
      PROVE  Charged(r)'
  <2>1. pc'[r] = "idle"
    BY <1>0, <1>6 DEF Finish
  <2> QED
    BY <2>1 DEF Charged
<1>7. ASSUME InsertConflict(r)
      PROVE  Charged(r)' /\ \A j \in Key : Settled(j)'
  BY <1>1, <1>2, <1>6, <1>7 DEF InsertConflict, Settled
<1>8. ASSUME RequestCommit(r)
      PROVE  Charged(r)' /\ \A j \in Key : Settled(j)'
  <2>1. pc[r] = "respond" /\ cur[r] \in Key
    BY <1>1, <1>8 DEF RequestCommit, Working, RequestWorking
  <2>2. /\ mem[r].status # "NONE"
        /\ mem[r].status = "FAILED" => issued[cur[r]] = 0 /\ calls[cur[r]] <= mem[r].retry + 1
    BY <1>1, <2>1 DEF CopySound, Charged, Working, RequestWorking
  <2>3. ASSUME NEW j \in Key PROVE Settled(j)'
    <3>1. CASE lock[cur[r]] = r /\ j = cur[r]
      <4>1. db'[j] = mem[r]
        BY <1>8, <3>1 DEF RequestCommit
      <4> QED
        BY <1>2, <2>2, <3>1, <4>1 DEF Settled
    <3>2. CASE ~(lock[cur[r]] = r /\ j = cur[r])
      <4>1. db'[j] = db[j] /\ lock'[j] = lock[j]
        BY <1>8, <3>2 DEF RequestCommit
      <4> QED
        BY <1>1, <1>2, <4>1 DEF Settled
    <3> QED
      BY <3>1, <3>2
  <2> QED
    BY <1>6, <1>8, <2>3 DEF RequestCommit
<1>9. ~RequestRollback(r)
  BY DEF Orderly, RequestRollback
<1>10. Charged(r)' /\ \A j \in Key : Settled(j)'
  BY <1>3, <1>4, <1>5, <1>7, <1>8, <1>9 DEF RequestStep
<1> QED
  BY <1>0, <1>1, <1>2, <1>10, OrderlyFromOne

LEMMA WorkerOrderly ==
  ASSUME IInv, Orderly, SerialInv, OrderlyInv, NEW w \in Worker, WorkerStep(w)
  PROVE  OrderlyInv'
<1> USE SAPAssumption DEF IInv, TypeOK, Proc
<1>0. w \in Proc /\ w \notin Request /\ AloneAt(w) /\ AloneAt(w)'
  BY WorkerAlone DEF SerialInv, Orderly
<1>1. /\ LocksAreHeld /\ RowAt(w) /\ Charged(w) /\ CopySound(w)
      /\ pc[w] \in Working => cur[w] \in Key
      /\ \A k \in Key : Settled(k) /\ issued[k] <= 1
  BY <1>0 DEF SerialInv, OrderlyInv, Placed, Sound, CopiesAreSound
<1>2. UNCHANGED <<issued, calls, lock>>
  BY DEF WorkerStep, SweepStart, SweepEnd, WorkerCrash, RetryAgain, RetryExhaust,
         RetryIllegal, RetryLoad, SaveRetrying, SaveInProgress, SaveResult, SaveExhausted,
         WorkerSave
<1>3. ASSUME SweepStart(w) \/ SweepEnd(w) \/ WorkerCrash(w)
      PROVE  Charged(w)' /\ \A j \in Key : Settled(j)'
  <2>1. pc'[w] \in {"next", "idle"} /\ db' = db
    BY <1>0, <1>3 DEF SweepStart, SweepEnd, WorkerCrash, Finish
  <2> QED
    BY <1>1, <1>2, <2>1 DEF Charged, Settled
<1>4. ASSUME NEW k \in Key, RetryAgain(w, k)
      PROVE  Charged(w)' /\ \A j \in Key : Settled(j)'
  <2>1. lock[k] = None
    BY <1>0, <1>1, <1>4 DEF LocksAreHeld, AloneAt
  <2>2. /\ pc'[w] = "retrying" /\ cur'[w] = k /\ mem'[w] = PrepareRetry(db[k]) /\ db' = db
        /\ issued[k] = 0 /\ calls[k] <= db[k].retry + 1
    BY <1>0, <1>1, <1>4, <2>1 DEF RetryAgain, RetryLoad, Settled, CanRetry
  <2>3. PrepareRetry(db[k]).retry = db[k].retry + 1
    BY DEF PrepareRetry, Row
  <2> QED
    BY <1>1, <1>2, <2>2, <2>3 DEF Charged, Settled
<1>5. ASSUME NEW k \in Key, RetryExhaust(w, k) \/ RetryIllegal(w, k)
      PROVE  Charged(w)' /\ \A j \in Key : Settled(j)'
  <2>1. pc'[w] \in {"exhaust", "idle"} /\ db' = db
    BY <1>0, <1>5 DEF RetryExhaust, RetryIllegal, RetryLoad, Finish
  <2> QED
    BY <1>1, <1>2, <2>1 DEF Charged, Settled
<1>6. ASSUME SaveRetrying(w) \/ SaveInProgress(w) \/ SaveResult(w) \/ SaveExhausted(w)
      PROVE  Charged(w)' /\ \A j \in Key : Settled(j)'
  <2>1. pc[w] \in WorkerWorking /\ cur[w] \in Key /\ cur' = cur /\ mem[w] \in Row
    BY <1>0, <1>1, <1>6
    DEF SaveRetrying, SaveInProgress, SaveResult, SaveExhausted, Working, WorkerWorking
  <2>2. StartProgress(mem[w]).status = "IN_PROGRESS" /\ StartProgress(mem[w]).retry = mem[w].retry
    BY <2>1 DEF StartProgress, Row
  <2>3. PICK row : /\ db' = [db EXCEPT ![cur[w]] = row]
                   /\ row.status # "NONE"
                   /\ row.status = "FAILED" =>
                        issued[cur[w]] = 0 /\ calls[cur[w]] <= row.retry + 1
    <3>1. CASE SaveRetrying(w) \/ SaveResult(w) \/ SaveExhausted(w)
      BY <1>1, <3>1
      DEF SaveRetrying, SaveResult, SaveExhausted, WorkerSave, CopySound, Charged, Working,
          WorkerWorking
    <3>2. CASE SaveInProgress(w)
      BY <2>2, <3>2 DEF SaveInProgress, WorkerSave
    <3> QED
      BY <1>6, <3>1, <3>2
  <2>4. ASSUME NEW j \in Key PROVE Settled(j)'
    BY <1>1, <1>2, <2>1, <2>3 DEF Settled
  <2>5. Charged(w)'
    <3>1. CASE SaveRetrying(w)
      BY <1>0, <1>1, <1>2, <2>1, <3>1 DEF SaveRetrying, Charged
    <3>2. CASE SaveInProgress(w)
      BY <1>0, <1>1, <1>2, <2>1, <2>2, <3>2 DEF SaveInProgress, Charged
    <3>3. CASE SaveResult(w) \/ SaveExhausted(w)
      BY <1>0, <3>3 DEF SaveResult, SaveExhausted, Charged
    <3> QED
      BY <1>6, <3>1, <3>2, <3>3
  <2> QED
    BY <2>4, <2>5
<1>7. Charged(w)' /\ \A j \in Key : Settled(j)'
  BY <1>3, <1>4, <1>5, <1>6 DEF WorkerStep
<1> QED
  BY <1>0, <1>1, <1>2, <1>7, OrderlyFromOne

\* The call itself: what it adds to SAP and how the copy comes out of it.
LEMMA OrderlyCall ==
  ASSUME IInv, Orderly, SerialInv, OrderlyInv, NEW p \in Proc, CallStep(p)
  PROVE  /\ pc[p] = "call" /\ cur[p] \in Key /\ cur' = cur
         /\ issued[cur[p]] = 0 /\ calls[cur[p]] <= mem[p].retry
         /\ calls' = [calls EXCEPT ![cur[p]] = @ + 1]
         /\ \E created \in {0, 1} : issued' = [issued EXCEPT ![cur[p]] = created]
         /\ pc'[p] \in {"respond", "result"} /\ mem'[p].retry = mem[p].retry
         /\ mem'[p].status = "FAILED" => issued' = issued
         /\ UNCHANGED <<db, lock, linked>>
<1> USE SAPAssumption DEF IInv, TypeOK
<1>1. pc[p] = "call"
  BY DEF CallStep, CallCreated, CallRefused, CallLost, CallEmpty, CallSAP
<1>2. cur[p] \in Key /\ mem[p] \in Row
  BY <1>1 DEF Placed, Working, RequestWorking
<1>3. issued[cur[p]] = 0 /\ calls[cur[p]] <= mem[p].retry
  BY <1>1 DEF OrderlyInv, Charged
<1>4. PICK docs, row :
        /\ docs \in {0, 1}
        /\ CallSAP(p, docs, row)
        /\ row.retry = mem[p].retry
        /\ row.status = "FAILED" => docs = 0
  <2>1. ~CallLost(p)
    BY DEF Orderly, CallLost
  <2>2. CASE CallCreated(p)
    <3>1. /\ CallSAP(p, 1, Succeed(mem[p], issued[cur[p]] + 1))
          /\ Succeed(mem[p], issued[cur[p]] + 1).retry = mem[p].retry
          /\ Succeed(mem[p], issued[cur[p]] + 1).status = "SUCCESS"
      BY <1>2, <2>2 DEF CallCreated, Succeed, Row
    <3> QED
      BY <3>1
  <2>3. CASE CallRefused(p)
    <3>1. CallSAP(p, 0, Fail(mem[p])) /\ Fail(mem[p]).retry = mem[p].retry
      BY <1>2, <2>3 DEF CallRefused, Fail, Row
    <3> QED
      BY <3>1
  <2>4. CASE CallEmpty(p)
    <3>1. /\ \E docs \in {0, 1} : CallSAP(p, docs, Succeed(mem[p], 0))
          /\ Succeed(mem[p], 0).retry = mem[p].retry
          /\ Succeed(mem[p], 0).status = "SUCCESS"
      BY <1>2, <2>4 DEF CallEmpty, Succeed, Row
    <3> QED
      BY <3>1
  <2> QED
    BY <2>1, <2>2, <2>3, <2>4 DEF CallStep
<1>5. mem'[p] = row /\ pc'[p] \in {"respond", "result"} /\ UNCHANGED <<cur, db, lock, linked>>
  BY <1>4 DEF CallSAP
<1>6. /\ calls' = [calls EXCEPT ![cur[p]] = @ + 1]
      /\ issued' = [issued EXCEPT ![cur[p]] = docs]
  BY <1>2, <1>3, <1>4 DEF CallSAP
<1>7. row.status = "FAILED" => issued' = issued
  BY <1>2, <1>3, <1>4, <1>6
<1> QED
  BY <1>1, <1>2, <1>3, <1>4, <1>5, <1>6, <1>7

LEMMA NextOrderly ==
  ASSUME IInv, IInv', Orderly, SerialInv, SerialInv', OrderlyInv, [Next]_vars
  PROVE  OrderlyInv'
<1>1. ASSUME NEW p \in Proc, CallStep(p)
      PROVE  OrderlyInv'
  <2> USE SAPAssumption DEF IInv, TypeOK
  <2>1. AloneAt(p)'
    BY <1>1, CallAlone DEF SerialInv, Orderly
  <2>2. /\ pc[p] = "call" /\ cur[p] \in Key /\ cur'[p] = cur[p]
        /\ issued[cur[p]] = 0 /\ calls[cur[p]] <= mem[p].retry
        /\ calls' = [calls EXCEPT ![cur[p]] = @ + 1]
        /\ \E created \in {0, 1} : issued' = [issued EXCEPT ![cur[p]] = created]
        /\ pc'[p] \in {"respond", "result"} /\ mem'[p].retry = mem[p].retry
        /\ mem'[p].status = "FAILED" => issued' = issued
        /\ UNCHANGED <<db, lock>>
    BY <1>1, OrderlyCall
  <2>3. calls'[cur[p]] = calls[cur[p]] + 1 /\ calls[cur[p]] \in Nat /\ mem[p].retry \in Nat
    BY <2>2 DEF Row
  <2>4. Charged(p)'
    BY <2>2, <2>3 DEF Charged
  <2>5. \A k \in Key : issued'[k] <= 1
    BY <2>2 DEF OrderlyInv
  <2>6. ASSUME NEW k \in Key PROVE Settled(k)'
    <3>1. CASE k = cur[p]
      <4>1. lock[k] # None \/ db[k].status = "IN_PROGRESS"
        BY <2>2, <3>1 DEF SerialInv, RowAt, Placed, Proc
      <4> QED
        BY <2>2, <4>1 DEF Settled
    <3>2. CASE k # cur[p]
      BY <2>2, <3>2 DEF OrderlyInv, Settled
    <3> QED
      BY <3>1, <3>2
  <2> QED
    BY <2>1, <2>4, <2>5, <2>6, OrderlyFromOne
<1>2. CASE UNCHANGED vars
  BY <1>2 DEF vars, OrderlyInv, Charged, Settled
<1> QED
  BY <1>1, <1>2, RequestOrderly, WorkerOrderly DEF Next

\* The initial state is one of the promise.
LEMMA InitPromise == Init => Promise!PromiseInit
BY DEF Init, Promise!PromiseInit

\* Every step keeps the promise: a call is an attempt, the commit of a request that
\* learnt a number is the promise's Learn, and nothing else is seen.
LEMMA StepPromise ==
  ASSUME IInv, Orderly, SerialInv, OrderlyInv, [Next]_vars
  PROVE  [Promise!PromiseNext]_(Promise!promiseVars)
<1> USE SAPAssumption DEF IInv, TypeOK, Promise!promiseVars
<1>1. ASSUME NEW p \in Proc, CallStep(p)
      PROVE  Promise!PromiseNext
  <2>1. /\ cur[p] \in Key /\ issued[cur[p]] = 0 /\ calls[cur[p]] <= mem[p].retry
        /\ calls' = [calls EXCEPT ![cur[p]] = @ + 1]
        /\ \E created \in {0, 1} : issued' = [issued EXCEPT ![cur[p]] = created]
        /\ UNCHANGED linked
    BY <1>1, OrderlyCall
  <2>2. calls[cur[p]] <= MaxRetries
    <3>1. mem[p].retry \in 0 .. MaxRetries /\ calls[cur[p]] \in Nat
      BY <2>1 DEF Row
    <3> QED
      BY <2>1, <3>1
  <2>3. Promise!Attempt(cur[p])
    BY <2>1, <2>2 DEF Promise!Attempt
  <2> QED
    BY <2>1, <2>3 DEF Promise!PromiseNext
<1>2. ASSUME NEW r \in Request, RequestCommit(r)
      PROVE  [Promise!PromiseNext]_(Promise!promiseVars)
  <2>1. r \in Proc /\ pc[r] = "respond" /\ UNCHANGED <<issued, calls>>
    BY <1>2 DEF RequestCommit, Proc
  <2>2. cur[r] \in Key /\ mem[r].doc <= issued[cur[r]] /\ issued[cur[r]] <= 1
    BY <2>1
    DEF Placed, Sound, CopiesAreSound, CopySound, OrderlyInv, Working, RequestWorking
  <2>3. CASE mem[r].status = "SUCCESS" /\ mem[r].doc # 0
    <3>1. mem[r].doc = 1 /\ issued[cur[r]] = 1
      <4>1. mem[r].doc \in Nat /\ issued[cur[r]] \in Nat
        BY <2>1, <2>2 DEF Row
      <4> QED
        BY <2>2, <2>3, <4>1
    <3>2. linked' = [linked EXCEPT ![cur[r]] = 1]
      BY <1>2, <2>3, <3>1 DEF RequestCommit
    <3>3. Promise!Learn(cur[r])
      BY <2>1, <3>1, <3>2 DEF Promise!Learn
    <3> QED
      BY <2>2, <3>3 DEF Promise!PromiseNext
  <2>4. CASE ~(mem[r].status = "SUCCESS" /\ mem[r].doc # 0)
    BY <1>2, <2>1, <2>4 DEF RequestCommit
  <2> QED
    BY <2>3, <2>4
<1>3. ASSUME UNCHANGED <<issued, calls, linked>>
      PROVE  [Promise!PromiseNext]_(Promise!promiseVars)
  BY <1>3
<1>4. ASSUME NEW r \in Request, RequestStep(r), ~RequestCommit(r)
      PROVE  UNCHANGED <<issued, calls, linked>>
  BY <1>4
  DEF RequestStep, ExecuteNew, ExecuteResume, ExecuteCached, ExecuteRefused, Begin,
      InsertRow, InsertConflict, ClaimRow, TakeRow, RequestRollback
<1>5. ASSUME NEW w \in Worker, WorkerStep(w)
      PROVE  UNCHANGED <<issued, calls, linked>>
  BY <1>5
  DEF WorkerStep, SweepStart, SweepEnd, WorkerCrash, RetryAgain, RetryExhaust,
      RetryIllegal, RetryLoad, SaveRetrying, SaveInProgress, SaveResult, SaveExhausted,
      WorkerSave
<1> QED
  BY <1>1, <1>2, <1>3, <1>4, <1>5 DEF Next, vars

\* In orderly executions the gateway implements what ADR-004 promises: at most one
\* document for a key, called for again only within the budget, and no other number
\* ever linked, through crashes of the worker and answers without a number.
THEOREM PromiseKeptHolds ==
  ASSUME Orderly
  PROVE  Spec => PromiseKept
<1>1. IInv /\ SerialInv /\ [Next]_vars => SerialInv'
  BY NextSerial DEF Orderly
<1>2. IInv /\ IInv' /\ SerialInv /\ SerialInv' /\ OrderlyInv /\ [Next]_vars => OrderlyInv'
  BY NextOrderly
<1>3. IInv /\ SerialInv /\ OrderlyInv /\ [Next]_vars
        => [Promise!PromiseNext]_(Promise!promiseVars)
  BY StepPromise
<1> QED
  BY <1>1, <1>2, <1>3, InitSerial, InitOrderly, InitPromise, IInvHolds, PTL
  DEF Spec, PromiseKept, Promise!PromiseSpec

\* ADR-004's sentence, where it does hold: in orderly executions SAP never has two
\* documents of one idempotency key (it fails as soon as two processes overlap).
THEOREM OneDocumentWhenOrderly ==
  ASSUME Orderly
  PROVE  Spec => []AtMostOneDocument
<1>1. IInv /\ SerialInv /\ [Next]_vars => SerialInv'
  BY NextSerial DEF Orderly
<1>2. IInv /\ IInv' /\ SerialInv /\ SerialInv' /\ OrderlyInv /\ [Next]_vars => OrderlyInv'
  BY NextOrderly
<1>3. OrderlyInv => AtMostOneDocument
  BY DEF OrderlyInv, AtMostOneDocument
<1> QED
  BY <1>1, <1>2, <1>3, InitSerial, InitOrderly, IInvHolds, PTL DEF Spec
================================================================================
