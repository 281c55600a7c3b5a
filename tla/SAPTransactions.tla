---------------------------- MODULE SAPTransactions ----------------------------
(***************************************************************************)
(* The SAP write gateway: SAPTransactionManager.execute / retry /          *)
(* retry_all_pending over the sap_transaction table.                       *)
(*                                                                         *)
(* Two kinds of process use it.  An HTTP request calls execute() inside    *)
(* the one database transaction ATOMIC_REQUESTS gives it: what it saves is *)
(* private until it commits, but a row it has saved stays locked           *)
(* (update_or_create selects the row FOR UPDATE, the unique key makes a    *)
(* second insert wait).  A Celery worker sweeps FAILED rows in autocommit: *)
(* every save() it makes is visible at once.  Both work on a copy of the   *)
(* row read earlier, and save() writes every field of that copy back.      *)
(*                                                                         *)
(* The adapter below is taken at its word: a number it returns counts as a *)
(* document of SAP.  SAPCalls says of which answers that is true.          *)
(***************************************************************************)
EXTENDS Naturals

CONSTANTS
  Key,         \* idempotency keys; a key has at most one row
  Request,     \* HTTP requests, each inside its own database transaction
  Worker,      \* Celery workers that run the retry sweep
  MaxRetries,  \* MAX_RETRY_ATTEMPTS
  MaxSubmits,  \* bound: how many execute() calls the environment makes
  Faults,      \* the faults of the environment that may happen
  Serial,      \* TRUE when requests and sweeps are run one after the other
  None         \* no process, no key

Proc == Request \cup Worker

ASSUME SAPAssumption ==
  /\ MaxRetries \in Nat
  /\ MaxSubmits \in Nat
  /\ Faults \subseteq {"rollback", "crash", "lost", "empty"}
  /\ Serial \in BOOLEAN
  /\ Request \cap Worker = {}
  /\ None \notin Proc
  /\ None \notin Key

VARIABLES
  db,        \* the committed row of every key
  lock,      \* the request whose open transaction has written the row
  pc,        \* where every process stands
  cur,       \* the key it works on
  mem,       \* its in-memory SAPTransaction aggregate
  batch,     \* what is left of the list a sweep read when it started
  issued,    \* how many documents SAP has created for the key
  calls,     \* history: how often the adapter was called for the key
  linked,    \* the document number stored on the business object, 0 if none
  submits    \* execute() calls so far

vars == <<db, lock, pc, cur, mem, batch, issued, calls, linked, submits>>

SAPTransactionStatus ==
  {"NONE", "PENDING", "IN_PROGRESS", "SUCCESS", "FAILED", "RETRYING", "EXHAUSTED"}

\* A row of sap_transaction; status NONE stands for "no row with this key" and
\* doc = n for the n-th document SAP created for the key (0: no number).
Row == [status : SAPTransactionStatus, retry : 0 .. MaxRetries, doc : Nat]

NoRow == [status |-> "NONE", retry |-> 0, doc |-> 0]

PC == {"idle", "insert", "claim", "call", "respond",
       "next", "retrying", "started", "result", "exhaust"}

TypeOK ==
  /\ db \in [Key -> Row]
  /\ lock \in [Key -> Request \cup {None}]
  /\ pc \in [Proc -> PC]
  /\ cur \in [Proc -> Key \cup {None}]
  /\ mem \in [Proc -> Row]
  /\ batch \in [Worker -> SUBSET Key]
  /\ issued \in [Key -> Nat]
  /\ calls \in [Key -> Nat]
  /\ linked \in [Key -> Nat]
  /\ submits \in 0 .. MaxSubmits

Init ==
  /\ db = [k \in Key |-> NoRow]
  /\ lock = [k \in Key |-> None]
  /\ pc = [p \in Proc |-> "idle"]
  /\ cur = [p \in Proc |-> None]
  /\ mem = [p \in Proc |-> NoRow]
  /\ batch = [w \in Worker |-> {}]
  /\ issued = [k \in Key |-> 0]
  /\ calls = [k \in Key |-> 0]
  /\ linked = [k \in Key |-> 0]
  /\ submits = 0

--------------------------------------------------------------------------------
(* The aggregate: what its methods do to a row. *)

\* Mutated forms of the methods below, for checking that the properties can fail.
CanRetryOffByOne(row) == row.status = "FAILED" /\ row.retry <= MaxRetries
CanRetrySuccess(row) == row.status \in {"FAILED", "SUCCESS"} /\ row.retry < MaxRetries
PrepareRetryUncounted(row) == [row EXCEPT !.status = "RETRYING"]
FailCounted(row) == [row EXCEPT !.status = "FAILED", !.retry = row.retry + 1]

CanRetry(row) == row.status = "FAILED" /\ row.retry < MaxRetries

InFlight == {"PENDING", "IN_PROGRESS", "RETRYING"}

Fresh == [NoRow EXCEPT !.status = "IN_PROGRESS"]

PrepareRetry(row) == [row EXCEPT !.status = "RETRYING", !.retry = row.retry + 1]

StartProgress(row) == [row EXCEPT !.status = "IN_PROGRESS"]

Succeed(row, doc) == [row EXCEPT !.status = "SUCCESS", !.doc = doc]

Fail(row) == [row EXCEPT !.status = "FAILED"]

MarkExhausted(row) == [row EXCEPT !.status = "EXHAUSTED"]

\* _ALLOWED_TRANSITIONS: the statuses mark_exhausted() is legal from.
CanExhaust(row) == row.status \in {"FAILED", "RETRYING"}

\* A request or a sweep may begin: at any time, or only when nothing else runs.
MayBegin(p) == pc[p] = "idle" /\ (Serial => \A q \in Proc : pc[q] = "idle")

Finish(p) ==
  /\ pc' = [pc EXCEPT ![p] = "idle"]
  /\ cur' = [cur EXCEPT ![p] = None]
  /\ mem' = [mem EXCEPT ![p] = NoRow]

--------------------------------------------------------------------------------
(* Mutated forms of the actions below. *)

\* save() without SELECT ... FOR UPDATE: nobody waits for the row.
TakeRowUnlocked(r) ==
  /\ lock' = [lock EXCEPT ![cur[r]] = r]
  /\ pc' = [pc EXCEPT ![r] = "call"]
  /\ UNCHANGED <<db, cur, batch, issued, calls, linked, submits>>

\* The adapter is called before the new transaction is saved.
InsertRowUnsaved(r) ==
  /\ pc[r] = "insert"
  /\ db[cur[r]].status = "NONE"
  /\ pc' = [pc EXCEPT ![r] = "call"]
  /\ UNCHANGED <<db, lock, cur, mem, batch, issued, calls, linked, submits>>

\* _invoke without start().
ClaimRowNotStarted(r) ==
  /\ pc[r] = "claim"
  /\ lock[cur[r]] = None
  /\ lock' = [lock EXCEPT ![cur[r]] = r]
  /\ pc' = [pc EXCEPT ![r] = "call"]
  /\ UNCHANGED <<db, cur, mem, batch, issued, calls, linked, submits>>

\* The rollback leaves the row locked.
RequestRollbackLocked(r) ==
  /\ "rollback" \in Faults
  /\ pc[r] \in {"insert", "claim", "call", "respond"}
  /\ Finish(r)
  /\ UNCHANGED <<db, lock, batch, issued, calls, linked, submits>>

\* list_pending_for_retry leaves out the rows with one attempt left.
SweepStartOffByOne(w) ==
  /\ MayBegin(w)
  /\ \E k \in Key : CanRetry(db[k]) /\ db[k].retry + 1 < MaxRetries
  /\ batch' = [batch EXCEPT ![w] = {k \in Key : CanRetry(db[k]) /\ db[k].retry + 1 < MaxRetries}]
  /\ pc' = [pc EXCEPT ![w] = "next"]
  /\ UNCHANGED <<db, lock, cur, mem, issued, calls, linked, submits>>

--------------------------------------------------------------------------------
(* execute(), called by the handler of an HTTP request. *)

\* The look-up by key finds a usable case and the copy is prepared in memory.
Begin(r, k, next, row) ==
  /\ MayBegin(r)
  /\ submits < MaxSubmits
  /\ submits' = submits + 1
  /\ pc' = [pc EXCEPT ![r] = next]
  /\ cur' = [cur EXCEPT ![r] = k]
  /\ mem' = [mem EXCEPT ![r] = row]
  /\ UNCHANGED <<db, lock, batch, issued, calls, linked>>

ExecuteNew(r, k) == db[k].status = "NONE" /\ Begin(r, k, "insert", Fresh)

ExecuteResume(r, k) == CanRetry(db[k]) /\ Begin(r, k, "claim", PrepareRetry(db[k]))

ExecuteCached(r, k) == db[k].status = "SUCCESS" /\ Begin(r, k, "respond", db[k])

\* SAPIdempotencyError or SAPRetryExhaustedError: refused, nothing written.
ExecuteRefused(r, k) ==
  /\ db[k].status \in InFlight \cup {"FAILED", "EXHAUSTED"} /\ ~CanRetry(db[k])
  /\ MayBegin(r)
  /\ submits < MaxSubmits
  /\ submits' = submits + 1
  /\ UNCHANGED <<db, lock, pc, cur, mem, batch, issued, calls, linked>>

\* The first save of the request: it waits for the row, then holds it.  The
\* saves that follow in the same transaction cannot wait and stay private.
TakeRow(r) ==
  /\ lock[cur[r]] = None
  /\ lock' = [lock EXCEPT ![cur[r]] = r]
  /\ pc' = [pc EXCEPT ![r] = "call"]
  /\ UNCHANGED <<db, cur, batch, issued, calls, linked, submits>>

\* _create_and_start: PENDING and IN_PROGRESS in one uncommitted insert.
InsertRow(r) ==
  /\ pc[r] = "insert"
  /\ db[cur[r]].status = "NONE"
  /\ TakeRow(r)
  /\ UNCHANGED mem

\* The insert waited for another request that committed the key: IntegrityError.
InsertConflict(r) ==
  /\ pc[r] = "insert"
  /\ lock[cur[r]] = None
  /\ db[cur[r]].status # "NONE"
  /\ Finish(r)
  /\ UNCHANGED <<db, lock, batch, issued, calls, linked, submits>>

\* _handle_existing and _invoke: RETRYING, then IN_PROGRESS, from the old copy.
ClaimRow(r) ==
  /\ pc[r] = "claim"
  /\ TakeRow(r)
  /\ mem' = [mem EXCEPT ![r] = StartProgress(@)]

\* The handler returns: the transaction commits, on success with the document
\* number on the business object, and on a mapped SAP failure as well.
RequestCommit(r) ==
  LET k == cur[r] IN
  /\ pc[r] = "respond"
  /\ db' = IF lock[k] = r THEN [db EXCEPT ![k] = mem[r]] ELSE db
  /\ lock' = IF lock[k] = r THEN [lock EXCEPT ![k] = None] ELSE lock
  /\ linked' = IF mem[r].status = "SUCCESS" /\ mem[r].doc # 0
                 THEN [linked EXCEPT ![k] = mem[r].doc] ELSE linked
  /\ Finish(r)
  /\ UNCHANGED <<batch, issued, calls, submits>>

\* An unmapped error after the first save, or the death of the server process.
RequestRollback(r) ==
  LET k == cur[r] IN
  /\ "rollback" \in Faults
  /\ pc[r] \in {"insert", "claim", "call", "respond"}
  /\ lock' = IF lock[k] = r THEN [lock EXCEPT ![k] = None] ELSE lock
  /\ Finish(r)
  /\ UNCHANGED <<db, batch, issued, calls, linked, submits>>

--------------------------------------------------------------------------------
(* retry_all_pending() and retry(), run by a Celery worker. *)

SweepStart(w) ==
  /\ MayBegin(w)
  /\ \E k \in Key : CanRetry(db[k])
  /\ batch' = [batch EXCEPT ![w] = {k \in Key : CanRetry(db[k])}]
  /\ pc' = [pc EXCEPT ![w] = "next"]
  /\ UNCHANGED <<db, lock, cur, mem, issued, calls, linked, submits>>

\* retry(): the row is read again; what the list said about it may be stale.
RetryLoad(w, k, next, row) ==
  /\ pc[w] = "next"
  /\ k \in batch[w]
  /\ batch' = [batch EXCEPT ![w] = @ \ {k}]
  /\ pc' = [pc EXCEPT ![w] = next]
  /\ cur' = [cur EXCEPT ![w] = k]
  /\ mem' = [mem EXCEPT ![w] = row]
  /\ UNCHANGED <<db, lock, issued, calls, linked, submits>>

RetryAgain(w, k) == CanRetry(db[k]) /\ RetryLoad(w, k, "retrying", PrepareRetry(db[k]))

RetryExhaust(w, k) ==
  /\ ~CanRetry(db[k])
  /\ CanExhaust(db[k])
  /\ RetryLoad(w, k, "exhaust", MarkExhausted(db[k]))

\* mark_exhausted() raises ValueError, which the sweep does not catch.
RetryIllegal(w, k) ==
  /\ pc[w] = "next"
  /\ k \in batch[w]
  /\ ~CanRetry(db[k])
  /\ ~CanExhaust(db[k])
  /\ Finish(w)
  /\ batch' = [batch EXCEPT ![w] = {}]
  /\ UNCHANGED <<db, lock, issued, calls, linked, submits>>

\* One save() of a worker: it waits for the row lock, then is committed at once.
WorkerSave(w, row) ==
  /\ lock[cur[w]] = None
  /\ db' = [db EXCEPT ![cur[w]] = row]
  /\ UNCHANGED <<lock, batch, issued, calls, linked, submits>>

SaveRetrying(w) ==
  /\ pc[w] = "retrying"
  /\ WorkerSave(w, mem[w])
  /\ pc' = [pc EXCEPT ![w] = "started"]
  /\ UNCHANGED <<cur, mem>>

SaveInProgress(w) ==
  /\ pc[w] = "started"
  /\ WorkerSave(w, StartProgress(mem[w]))
  /\ mem' = [mem EXCEPT ![w] = StartProgress(@)]
  /\ pc' = [pc EXCEPT ![w] = "call"]
  /\ UNCHANGED cur

SaveResult(w) ==
  /\ pc[w] = "result"
  /\ WorkerSave(w, mem[w])
  /\ pc' = [pc EXCEPT ![w] = "next"]
  /\ UNCHANGED <<cur, mem>>

SaveExhausted(w) ==
  /\ pc[w] = "exhaust"
  /\ WorkerSave(w, mem[w])
  /\ pc' = [pc EXCEPT ![w] = "next"]
  /\ UNCHANGED <<cur, mem>>

SweepEnd(w) ==
  /\ pc[w] = "next"
  /\ batch[w] = {}
  /\ Finish(w)
  /\ UNCHANGED <<db, lock, batch, issued, calls, linked, submits>>

\* The worker dies, or the adapter raises something other than
\* SAPIntegrationError: the task ends and the rows stay as last saved.
WorkerCrash(w) ==
  /\ "crash" \in Faults
  /\ pc[w] # "idle"
  /\ Finish(w)
  /\ batch' = [batch EXCEPT ![w] = {}]
  /\ UNCHANGED <<db, lock, issued, calls, linked, submits>>

--------------------------------------------------------------------------------
(* The adapter call of _invoke, with the succeed() or fail() that follows it. *)

CallSAP(p, docs, row) ==
  LET k == cur[p] IN
  /\ pc[p] = "call"
  /\ calls' = [calls EXCEPT ![k] = @ + 1]
  /\ issued' = [issued EXCEPT ![k] = @ + docs]
  /\ mem' = [mem EXCEPT ![p] = row]
  /\ pc' = [pc EXCEPT ![p] = IF p \in Request THEN "respond" ELSE "result"]
  /\ UNCHANGED <<db, lock, cur, batch, linked, submits>>

CallCreated(p) == CallSAP(p, 1, Succeed(mem[p], issued[cur[p]] + 1))

CallRefused(p) == CallSAP(p, 0, Fail(mem[p]))

\* SAP created the document but the answer was lost: a timeout is reported.
CallLost(p) == "lost" \in Faults /\ CallSAP(p, 1, Fail(mem[p]))

\* The answer has no document number, whether there is a document or not: it is
\* recorded as SUCCESS with none.
CallEmpty(p) ==
  "empty" \in Faults /\ \E docs \in {0, 1} : CallSAP(p, docs, Succeed(mem[p], 0))

--------------------------------------------------------------------------------

RequestStep(r) ==
  \/ \E k \in Key : ExecuteNew(r, k) \/ ExecuteResume(r, k)
                    \/ ExecuteCached(r, k) \/ ExecuteRefused(r, k)
  \/ InsertRow(r) \/ InsertConflict(r) \/ ClaimRow(r)
  \/ RequestCommit(r) \/ RequestRollback(r)

WorkerStep(w) ==
  \/ SweepStart(w) \/ SweepEnd(w) \/ WorkerCrash(w)
  \/ \E k \in Key : RetryAgain(w, k) \/ RetryExhaust(w, k) \/ RetryIllegal(w, k)
  \/ SaveRetrying(w) \/ SaveInProgress(w) \/ SaveResult(w) \/ SaveExhausted(w)

CallStep(p) == CallCreated(p) \/ CallRefused(p) \/ CallLost(p) \/ CallEmpty(p)

Next ==
  \/ \E r \in Request : RequestStep(r)
  \/ \E w \in Worker : WorkerStep(w)
  \/ \E p \in Proc : CallStep(p)

Spec == Init /\ [][Next]_vars

(***************************************************************************)
(* Fairness.  Beat starts a sweep every 15 minutes and a live process goes *)
(* on (weak); the adapter has a timeout, so a call ends; PostgreSQL queues *)
(* the waiters of a row lock, so a waiter gets the row (strong).  Nothing  *)
(* is assumed about clients submitting, faults, or what SAP answers.       *)
(***************************************************************************)
Fairness ==
  /\ \A p \in Proc : WF_vars(CallStep(p))
  /\ \A r \in Request :
       /\ SF_vars(InsertRow(r) \/ InsertConflict(r) \/ ClaimRow(r))
       /\ WF_vars(RequestCommit(r))
  /\ \A w \in Worker :
       /\ WF_vars(SweepStart(w) \/ SweepEnd(w))
       /\ WF_vars(\E k \in Key : RetryAgain(w, k) \/ RetryExhaust(w, k) \/ RetryIllegal(w, k))
       /\ SF_vars(SaveRetrying(w) \/ SaveInProgress(w) \/ SaveResult(w) \/ SaveExhausted(w))

FairSpec == Spec /\ Fairness

--------------------------------------------------------------------------------
(* Properties of every execution, whatever overlaps and whatever fails. *)

\* A document number is never invented: each number on a committed row or on a
\* business object is one SAP gave out for the key, and a row carries one only in
\* SUCCESS, although stale copies of a row are written back whole by requests and
\* sweeps that overlap (repositories.save, entities.prepare_retry).
NumbersAreReal ==
  \A k \in Key :
    /\ db[k].doc <= issued[k]
    /\ linked[k] <= issued[k]
    /\ db[k].doc # 0 => db[k].status = "SUCCESS"

\* A row that is FAILED or SUCCESS with retry counter c stands for at least c + 1
\* adapter calls: however attempts overlap or die, no retry is charged to the
\* budget without a call of its own having been made (entities.prepare_retry).
RetriesWereCalls ==
  \A k \in Key : db[k].status \in {"SUCCESS", "FAILED"} => db[k].retry < calls[k]

\* Two requests are never inside the adapter for the same key at once: the row
\* lock, or the unique key, of the open transaction excludes the second one
\* (ATOMIC_REQUESTS with update_or_create in repositories.save).
RequestsCallExclusively ==
  \A r, s \in Request :
    (pc[r] = "call" /\ pc[s] = "call" /\ cur[r] = cur[s]) => r = s

\* The adapter is only called once the attempt is in the journal, as IN_PROGRESS:
\* the request's own open transaction holds the row, or a worker works on a row
\* that is committed (_create_and_start, _invoke).
CallsAreJournaled ==
  \A p \in Proc : pc[p] = "call" =>
    /\ mem[p].status = "IN_PROGRESS"
    /\ p \in Request => lock[cur[p]] = p
    /\ p \in Worker => db[cur[p]].status # "NONE"

--------------------------------------------------------------------------------
(* Properties that documents of the repository promise without condition. *)

\* ADR-004: the idempotency key prevents duplicate SAP documents.
AtMostOneDocument == \A k \in Key : issued[k] <= 1

\* All SAP writes must create SAPTransaction records: when no request or sweep
\* is at work on a key, a document for it exists only if a row does.
EveryDocumentJournaled ==
  \A k \in Key :
    issued[k] > 0 /\ (\A p \in Proc : cur[p] # k) => db[k].status # "NONE"

\* SUCCESS and EXHAUSTED have no successor in _ALLOWED_TRANSITIONS.
TerminalIsFinal ==
  [][\A k \in Key : db[k].status \in {"SUCCESS", "EXHAUSTED"}
                      => db'[k].status = db[k].status]_vars

--------------------------------------------------------------------------------
(* The promise of ADR-004, as an abstract specification. *)

Promise == INSTANCE SAPWritePromise
             WITH docs <- issued, attempts <- calls, known <- linked

\* Executions in which requests and sweeps do not overlap, no request is rolled
\* back after it reached SAP and no answer of SAP is lost.
Orderly == Serial /\ Faults \subseteq {"crash", "empty"}

\* In orderly executions the gateway implements its promise, through crashes of
\* the worker and answers without a number: at most one document, called again
\* only within the budget, and only its number linked (execute, retry, _invoke).
PromiseKept == Promise!PromiseSpec

--------------------------------------------------------------------------------
(* Liveness. *)

\* A failed write with budget left is eventually retried or resumed, although
\* requests lock its row and other sweeps work on it (retry_all_pending).
RetryableIsTaken == \A k \in Key : CanRetry(db[k]) ~> ~CanRetry(db[k])

\* Nobody waits for a row for ever: every request is answered and every sweep
\* comes to its end, so processes holding and awaiting rows never deadlock.
EveryoneFinishes == \A p \in Proc : pc[p] # "idle" ~> pc[p] = "idle"
================================================================================
