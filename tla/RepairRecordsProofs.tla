-------------------------- MODULE RepairRecordsProofs --------------------------
(***************************************************************************)
(* Theorems about RepairRecords, for any users, roles, identifiers, bounds *)
(* and overlaps: an order is not ended, and its components not recorded,   *)
(* more often than overlapping handlers explain; and as long as none have  *)
(* overlapped, what is recorded is what the order says.                    *)
(***************************************************************************)
EXTENDS RepairRecords, FiniteSetTheorems, TLAPS

--------------------------------------------------------------------------------
(* The inductive invariant. *)

\* The handlers that work on a copy of the order, and those of them whose checks
\* say that the order is not complete.
CopyOps ==
  {"lines", "complete", "accept", "reject", "finalApprove", "finalReject",
   "approveInvoice", "close"}

Savers == CopyOps \ {"accept", "reject"}

UniqueParts(row) == \A p, q \in row.parts : p.id = q.id => p = q

Materials(rv) == {x.material : x \in rv.parts}

\* What is so of a handler's copy as long as the handler has it.
CopyOK(s) ==
  /\ s.op \in CopyOps => UniqueParts(s.copy)
  /\ s.op \in Savers => s.copy.status # "COMPLETED"
  /\ s.op = "close" => Materials(s.review) \subseteq {p.line.material : p \in s.copy.parts}

\* What is so of it as long as nobody else has worked meanwhile.
CopyFresh(s) ==
  /\ s.op \in CopyOps => s.copy.status = order.status
  /\ s.op \in CopyOps \ {"lines", "close"} => s.copy = order
  /\ s.op = "review" => order.status # "COMPLETED"

CopiesOK == UniqueParts(order) /\ \A r \in Request : CopyOK(req[r])

\* The handlers that may bring the order back from its end, or end it again.
OpenCopies == {r \in Request : req[r].op \in CopyOps /\ req[r].copy.status # "COMPLETED"}

\* An order that is open, or copies that are, may be ended once more each; every
\* one but the first came by an overlap.
EndsAccounted ==
  /\ IsFiniteSet(OpenCopies)
  /\ completions + Cardinality(OpenCopies) <= 1 + overlaps
  /\ order.status # "COMPLETED" => completions + 1 <= 1 + overlaps
  /\ completions <= 1 + overlaps
  /\ \A h \in history : h.by <= completions

\* One at a time, the handlers see the order as it is.
OneAtATime ==
  overlaps = 0 =>
    /\ \A r, q \in Busy : r = q
    /\ \A r \in Request : CopyFresh(req[r])

IInv ==
  /\ TypeOK
  /\ CopiesOK
  /\ EndsAccounted
  /\ OneAtATime
  /\ HistoryIsOfTheOrder
  /\ ClosedIsWhole

--------------------------------------------------------------------------------

LEMMA BoundTypes == MaxQuantity \in Nat /\ MaxQuantity >= 1 /\ MaxEnds \in Nat /\ MaxEnds >= 1
                    /\ MaxOverlaps \in Nat
BY RecordsAssumption

LEMMA NewTypes ==
  ASSUME NEW status \in OrderStatus, NEW type \in {"INTERNAL", "EXTERNAL", "NONE"}
  PROVE  /\ New(status, type) \in OrderRow
         /\ New(status, type).status = status /\ New(status, type).parts = {}
BY DEF New, OrderRow

LEMMA IdleTypes ==
  /\ Idle \in RequestState /\ Idle.op = "idle" /\ NoReview \in ReviewRow
<1>1. NoReview \in ReviewRow
  BY DEF NoReview, ReviewRow
<1>2. New("IN_PROGRESS", "NONE") \in OrderRow
  BY NewTypes DEF OrderStatus
<1> QED
  BY <1>1, <1>2 DEF Idle, RequestState

LEMMA InitIInv == Init => IInv
<1> SUFFICES ASSUME Init PROVE IInv
  OBVIOUS
<1>1. order \in OrderRow /\ order.parts = {} /\ order.status # "COMPLETED"
  BY NewTypes DEF Init, OrderStatus
<1>2. \A r \in Request : req[r] = Idle
  BY DEF Init
<1>3. TypeOK
  BY <1>1, IdleTypes, BoundTypes DEF Init, TypeOK
<1>4. CopiesOK
  BY <1>1, <1>2, IdleTypes DEF CopiesOK, UniqueParts, CopyOK, CopyOps, Savers
<1>5. EndsAccounted
  <2>1. OpenCopies = {}
    BY <1>2, IdleTypes DEF OpenCopies, CopyOps
  <2>2. IsFiniteSet(OpenCopies) /\ Cardinality(OpenCopies) = 0
    BY <2>1, FS_EmptySet
  <2> QED
    BY <2>2 DEF EndsAccounted, Init
<1>6. OneAtATime
  BY <1>2, IdleTypes DEF OneAtATime, Busy, CopyFresh, CopyOps
<1>7. HistoryIsOfTheOrder /\ ClosedIsWhole
  BY DEF Init, HistoryIsOfTheOrder, ClosedIsWhole
<1> QED
  BY <1>3, <1>4, <1>5, <1>6, <1>7 DEF IInv

--------------------------------------------------------------------------------
(* A handler begins. *)

Tables == <<order, received, vehicle, fault, handover, followUps, external, history, completions>>

Loads(r, s) == Enter(r, s) /\ UNCHANGED Tables

\* What a handler has loaded when its checks have passed.
LoadedOK(s) == s \in RequestState /\ CopyOK(s) /\ CopyFresh(s)

\* Nobody's copy but that of r changes.
LEMMA OthersStay ==
  ASSUME TypeOK, NEW r \in Request, NEW s, req' = [req EXCEPT ![r] = s]
  PROVE  req'[r] = s /\ \A q \in Request \ {r} : req'[q] = req[q]
BY DEF TypeOK

LEMMA CopiesStep ==
  ASSUME TypeOK, CopiesOK, NEW r \in Request, NEW s, req' = [req EXCEPT ![r] = s],
         CopyOK(s), UniqueParts(order')
  PROVE  CopiesOK'
BY OthersStay DEF CopiesOK, CopyOK, UniqueParts, Materials

\* The copies that are open, when r begins or ends.
LEMMA OpenCopiesStep ==
  ASSUME TypeOK, IsFiniteSet(OpenCopies), NEW r \in Request, NEW s, req' = [req EXCEPT ![r] = s]
  PROVE  /\ IsFiniteSet(OpenCopies')
         /\ OpenCopies' \subseteq OpenCopies \cup {r}
         /\ Cardinality(OpenCopies') \in Nat /\ Cardinality(OpenCopies) \in Nat
         /\ Cardinality(OpenCopies') <= Cardinality(OpenCopies) + 1
         /\ s.op \notin CopyOps \/ s.copy.status = "COMPLETED" =>
              Cardinality(OpenCopies') <= Cardinality(OpenCopies)
         /\ s.op = "idle" /\ r \in OpenCopies =>
              Cardinality(OpenCopies') = Cardinality(OpenCopies) - 1
         /\ r \in OpenCopies => Cardinality(OpenCopies) >= 1
<1>1. OpenCopies' \subseteq OpenCopies \cup {r}
  BY OthersStay DEF OpenCopies
<1>2. /\ IsFiniteSet(OpenCopies \cup {r}) /\ Cardinality(OpenCopies) \in Nat
      /\ Cardinality(OpenCopies \cup {r}) <= Cardinality(OpenCopies) + 1
  <2>1. Cardinality(OpenCopies) \in Nat
    BY FS_CardinalityType
  <2>2. /\ IsFiniteSet(OpenCopies \cup {r})
        /\ Cardinality(OpenCopies \cup {r}) =
             IF r \in OpenCopies THEN Cardinality(OpenCopies) ELSE Cardinality(OpenCopies) + 1
    BY FS_AddElement
  <2> QED
    BY <2>1, <2>2
<1>3. /\ IsFiniteSet(OpenCopies') /\ Cardinality(OpenCopies') <= Cardinality(OpenCopies \cup {r})
      /\ Cardinality(OpenCopies') \in Nat
  BY <1>1, <1>2, FS_Subset, FS_CardinalityType
<1>4. ASSUME s.op \notin CopyOps \/ s.copy.status = "COMPLETED"
      PROVE  Cardinality(OpenCopies') <= Cardinality(OpenCopies)
  <2>1. OpenCopies' \subseteq OpenCopies
    BY <1>4, OthersStay DEF OpenCopies
  <2> QED
    BY <2>1, FS_Subset
<1>5. ASSUME s.op = "idle", r \in OpenCopies
      PROVE  Cardinality(OpenCopies') = Cardinality(OpenCopies) - 1
  <2>1. r \notin OpenCopies'
    BY <1>5, OthersStay DEF OpenCopies, CopyOps
  <2>2. \A q \in Request \ {r} : q \in OpenCopies' <=> q \in OpenCopies
    BY OthersStay DEF OpenCopies
  <2>3. OpenCopies \subseteq Request /\ OpenCopies' \subseteq Request
    BY DEF OpenCopies
  <2>4. OpenCopies' = OpenCopies \ {r}
    BY <2>1, <2>2, <2>3
  <2>5. Cardinality(OpenCopies \ {r}) =
          IF r \in OpenCopies THEN Cardinality(OpenCopies) - 1 ELSE Cardinality(OpenCopies)
    BY FS_RemoveElement
  <2> QED
    BY <1>5, <2>4, <2>5
<1>6. r \in OpenCopies => Cardinality(OpenCopies) >= 1
  BY <1>2, FS_EmptySet
<1>7. Cardinality(OpenCopies') <= Cardinality(OpenCopies) + 1
  BY <1>2, <1>3, FS_CardinalityType
<1> QED
  BY <1>1, <1>2, <1>3, <1>4, <1>5, <1>6, <1>7

LEMMA LoadsKeeps ==
  ASSUME IInv, NEW r \in Request, NEW s, LoadedOK(s), Loads(r, s)
  PROVE  IInv'
<1>1. req' = [req EXCEPT ![r] = s] /\ UNCHANGED Tables
  BY DEF Loads, Enter
<1>2. overlaps \in Nat /\ overlaps' \in 0 .. MaxOverlaps
      /\ overlaps' = overlaps + (IF Busy = {} THEN 0 ELSE 1)
  BY BoundTypes DEF Loads, Enter, IInv, TypeOK
<1>3. TypeOK'
  BY <1>1, <1>2 DEF IInv, TypeOK, Tables, external, LoadedOK
<1>4. CopiesOK'
  BY <1>1, CopiesStep DEF IInv, CopiesOK, LoadedOK, Tables
<1>5. EndsAccounted'
  <2>1. completions' = completions /\ history' = history /\ order' = order /\ completions \in Nat
    BY <1>1 DEF Tables, IInv, TypeOK
  <2>2. /\ IsFiniteSet(OpenCopies') /\ Cardinality(OpenCopies') \in Nat
        /\ Cardinality(OpenCopies) \in Nat
        /\ Cardinality(OpenCopies') <= Cardinality(OpenCopies) + 1
        /\ s.op \notin CopyOps \/ s.copy.status = "COMPLETED" =>
             Cardinality(OpenCopies') <= Cardinality(OpenCopies)
    BY <1>1, OpenCopiesStep DEF IInv, EndsAccounted
  <2>3. completions + Cardinality(OpenCopies') <= 1 + overlaps'
    <3>1. CASE Busy # {}
      BY <1>2, <2>1, <2>2, <3>1 DEF IInv, EndsAccounted
    <3>2. CASE Busy = {} /\ (s.op \notin CopyOps \/ s.copy.status = "COMPLETED")
      BY <1>2, <2>1, <2>2, <3>2 DEF IInv, EndsAccounted
    <3>3. CASE Busy = {} /\ s.op \in CopyOps /\ s.copy.status # "COMPLETED"
      <4>1. order.status # "COMPLETED"
        BY <3>3 DEF LoadedOK, CopyFresh
      <4>2. OpenCopies = {}
        BY <3>3 DEF Busy, OpenCopies, CopyOps
      <4>3. Cardinality(OpenCopies) = 0
        BY <4>2, FS_EmptySet
      <4> QED
        BY <1>2, <2>1, <2>2, <3>3, <4>1, <4>3 DEF IInv, EndsAccounted
    <3> QED
      BY <3>1, <3>2, <3>3
  <2> QED
    BY <1>2, <2>1, <2>2, <2>3 DEF IInv, EndsAccounted
<1>6. OneAtATime'
  <2> SUFFICES ASSUME overlaps' = 0
               PROVE  /\ \A p, q \in Busy' : p = q
                      /\ \A q \in Request : CopyFresh(req[q])'
    BY DEF OneAtATime
  <2>1. Busy = {} /\ overlaps = 0
    BY <1>2
  <2>2. \A q \in Request \ {r} : req'[q] = req[q] /\ req[q].op = "idle"
    BY <1>1, <2>1, OthersStay DEF IInv, Busy
  <2>3. req'[r] = s /\ order' = order
    BY <1>1, OthersStay DEF IInv, Tables
  <2>4. \A p, q \in Busy' : p = q
    BY <2>2 DEF Busy
  <2>5. \A q \in Request : CopyFresh(req[q])'
    BY <2>2, <2>3 DEF LoadedOK, CopyFresh, CopyOps
  <2> QED
    BY <2>4, <2>5
<1>7. HistoryIsOfTheOrder' /\ ClosedIsWhole'
  <2>1. overlaps' = 0 => overlaps = 0
    BY <1>2
  <2> QED
    BY <1>1, <2>1 DEF IInv, Tables, external, HistoryIsOfTheOrder, ClosedIsWhole
<1> QED
  BY <1>3, <1>4, <1>5, <1>6, <1>7 DEF IInv

--------------------------------------------------------------------------------
(* What handlers load. *)

WithCopy(op, row) == [Idle EXCEPT !.op = op, !.copy = row]

LEMMA WithCopyTypes ==
  ASSUME NEW op \in CopyOps, NEW row \in OrderRow
  PROVE  /\ WithCopy(op, row) \in RequestState
         /\ WithCopy(op, row).op = op /\ WithCopy(op, row).copy = row
BY IdleTypes DEF WithCopy, RequestState, CopyOps, Idle

\* The order as it is, loaded by a handler that does not edit lines.
LEMMA CopyOfOrder ==
  ASSUME IInv, NEW r \in Request,
         NEW op \in {"complete", "accept", "reject", "finalApprove", "finalReject"},
         op \in Savers => order.status # "COMPLETED",
         Loads(r, WithCopy(op, order))
  PROVE  IInv'
<1>1. op \in CopyOps /\ op \notin {"lines", "close"} /\ op # "review"
  BY DEF CopyOps
<1>2. order \in OrderRow
  BY DEF IInv, TypeOK
<1> DEFINE s == WithCopy(op, order)
<1>3. s \in RequestState /\ s.op = op /\ s.copy = order
  BY <1>1, <1>2, WithCopyTypes
<1>4. Loads(r, s)
  OBVIOUS
<1> HIDE DEF s
<1>5. CopyOK(s) /\ CopyFresh(s)
  BY <1>1, <1>3 DEF CopyOK, CopyFresh, IInv, CopiesOK
<1> QED
  BY <1>3, <1>4, <1>5, LoadsKeeps DEF LoadedOK

\* The lines of an order that may be edited, edited so that parts keep their ids.
LEMMA EditLinesKeeps ==
  ASSUME IInv, NEW r \in Request, NEW edited \in OrderRow, EditLines(r, edited),
         edited.status = order.status, UniqueParts(edited)
  PROVE  IInv'
<1> DEFINE s == WithCopy("lines", edited)
<1>1. s \in RequestState /\ s.op = "lines" /\ s.copy = edited
  BY WithCopyTypes DEF CopyOps
<1>2. Loads(r, s)
  BY DEF EditLines, Loads, Tables, WithCopy
<1>3. order.status # "COMPLETED"
  BY DEF EditLines, Mutable
<1> HIDE DEF s
<1>4. CopyOK(s) /\ CopyFresh(s)
  BY <1>1, <1>3 DEF CopyOK, CopyFresh
<1> QED
  BY <1>1, <1>2, <1>4, LoadsKeeps DEF LoadedOK

\* Edited rows.
LEMMA EditedTypes ==
  ASSUME NEW row \in OrderRow
  PROVE  /\ \A a \in Activity, e \in {"NONE", "FIRST", "EDITED"} :
              /\ [row EXCEPT !.activities[a] = e] \in OrderRow
              /\ [row EXCEPT !.activities[a] = e].status = row.status
              /\ [row EXCEPT !.activities[a] = e].parts = row.parts
         /\ \A parts \in SUBSET [id : Part, line : Line] :
              /\ [row EXCEPT !.parts = parts] \in OrderRow
              /\ [row EXCEPT !.parts = parts].status = row.status
              /\ [row EXCEPT !.parts = parts].parts = parts
         /\ \A st \in OrderStatus :
              /\ [row EXCEPT !.status = st] \in OrderRow
              /\ [row EXCEPT !.status = st].status = st
              /\ [row EXCEPT !.status = st].parts = row.parts
<1>1. \A a \in Activity, e \in {"NONE", "FIRST", "EDITED"} :
              /\ [row EXCEPT !.activities[a] = e] \in OrderRow
              /\ [row EXCEPT !.activities[a] = e].status = row.status
              /\ [row EXCEPT !.activities[a] = e].parts = row.parts
  BY DEF OrderRow
<1>2. \A parts \in SUBSET [id : Part, line : Line] :
              /\ [row EXCEPT !.parts = parts] \in OrderRow
              /\ [row EXCEPT !.parts = parts].status = row.status
              /\ [row EXCEPT !.parts = parts].parts = parts
  BY DEF OrderRow
<1>3. \A st \in OrderStatus :
              /\ [row EXCEPT !.status = st] \in OrderRow
              /\ [row EXCEPT !.status = st].status = st
              /\ [row EXCEPT !.status = st].parts = row.parts
  BY DEF OrderRow
<1> QED
  BY <1>1, <1>2, <1>3

LEMMA ActivityKeeps ==
  ASSUME IInv, NEW r \in Request, NEW a \in Activity,
         LoadAddActivity(r, a) \/ LoadUpdateActivity(r, a) \/ LoadDeleteActivity(r, a)
  PROVE  IInv'
<1>1. PICK e \in {"NONE", "FIRST", "EDITED"} : EditLines(r, [order EXCEPT !.activities[a] = e])
  BY DEF LoadAddActivity, LoadUpdateActivity, LoadDeleteActivity
<1>2. order \in OrderRow /\ UniqueParts(order)
  BY DEF IInv, TypeOK, CopiesOK
<1> DEFINE edited == [order EXCEPT !.activities[a] = e]
<1>3. edited \in OrderRow /\ edited.status = order.status /\ edited.parts = order.parts
  BY <1>2, EditedTypes
<1>4. EditLines(r, edited)
  BY <1>1
<1> HIDE DEF edited
<1>5. UniqueParts(edited)
  BY <1>2, <1>3 DEF UniqueParts
<1> QED
  BY <1>3, <1>4, <1>5, EditLinesKeeps

LEMMA PartsKeeps ==
  ASSUME IInv, NEW r \in Request, NEW parts \in SUBSET [id : Part, line : Line],
         EditLines(r, [order EXCEPT !.parts = parts]),
         \A p, q \in parts : p.id = q.id => p = q
  PROVE  IInv'
<1> DEFINE edited == [order EXCEPT !.parts = parts]
<1>1. edited \in OrderRow /\ edited.status = order.status /\ edited.parts = parts
  BY EditedTypes DEF IInv, TypeOK
<1>2. EditLines(r, edited)
  OBVIOUS
<1> HIDE DEF edited
<1>3. UniqueParts(edited)
  BY <1>1 DEF UniqueParts
<1> QED
  BY <1>1, <1>2, <1>3, EditLinesKeeps

LEMMA PartKeeps ==
  ASSUME IInv, NEW r \in Request, NEW line \in Line,
         \/ \E p \in Part : LoadAddPart(r, p, line)
         \/ \E part \in order.parts : LoadUpdatePart(r, part, line)
         \/ \E part \in order.parts : LoadDeletePart(r, part)
  PROVE  IInv'
<1>1. order.parts \in SUBSET [id : Part, line : Line] /\ UniqueParts(order)
  BY DEF IInv, TypeOK, OrderRow, CopiesOK
<1>2. ASSUME NEW p \in Part, LoadAddPart(r, p, line) PROVE IInv'
  <2> DEFINE new == [id |-> p, line |-> line]
             parts == order.parts \cup {new}
  <2>1. \A x \in order.parts : x.id # p
    BY <1>2 DEF LoadAddPart, FreshPart, PartIds
  <2>2. new.id = p /\ new \in [id : Part, line : Line]
    OBVIOUS
  <2>3. EditLines(r, [order EXCEPT !.parts = parts])
    BY <1>2 DEF LoadAddPart
  <2> HIDE DEF new
  <2>4. parts \in SUBSET [id : Part, line : Line]
    BY <1>1, <2>2
  <2>5. \A x, y \in parts : x.id = y.id => x = y
    BY <1>1, <2>1, <2>2 DEF UniqueParts
  <2> HIDE DEF parts
  <2> QED
    BY <2>3, <2>4, <2>5, PartsKeeps
<1>3. ASSUME NEW part \in order.parts, LoadUpdatePart(r, part, line) PROVE IInv'
  <2> DEFINE new == [id |-> part.id, line |-> line]
             parts == (order.parts \ {part}) \cup {new}
  <2>1. \A x \in order.parts \ {part} : x.id # part.id
    BY <1>1 DEF UniqueParts
  <2>2. new.id = part.id /\ new \in [id : Part, line : Line]
    BY <1>1
  <2>3. EditLines(r, [order EXCEPT !.parts = parts])
    BY <1>3 DEF LoadUpdatePart
  <2> HIDE DEF new
  <2>4. parts \in SUBSET [id : Part, line : Line]
    BY <1>1, <2>2
  <2>5. \A x, y \in parts : x.id = y.id => x = y
    BY <1>1, <2>1, <2>2 DEF UniqueParts
  <2> HIDE DEF parts
  <2> QED
    BY <2>3, <2>4, <2>5, PartsKeeps
<1>4. ASSUME NEW part \in order.parts, LoadDeletePart(r, part) PROVE IInv'
  <2> DEFINE parts == order.parts \ {part}
  <2>1. EditLines(r, [order EXCEPT !.parts = parts])
    BY <1>4 DEF LoadDeletePart
  <2>2. parts \in SUBSET [id : Part, line : Line] /\ \A x, y \in parts : x.id = y.id => x = y
    BY <1>1 DEF UniqueParts
  <2> HIDE DEF parts
  <2> QED
    BY <2>1, <2>2, PartsKeeps
<1> QED
  BY <1>2, <1>3, <1>4

LEMMA LoadEndKeeps ==
  ASSUME IInv, NEW r \in Request,
         \/ \E noParts \in BOOLEAN : LoadComplete(r, noParts)
         \/ \E op \in {"accept", "reject"} : LoadDecision(r, op)
         \/ \E op \in {"finalApprove", "finalReject"} : LoadFinal(r, op)
  PROVE  IInv'
<1>1. ASSUME NEW noParts \in BOOLEAN, LoadComplete(r, noParts) PROVE IInv'
  <2>1. Loads(r, WithCopy("complete", order)) /\ order.status # "COMPLETED"
    BY <1>1 DEF LoadComplete, Loads, Tables, WithCopy
  <2> QED
    BY <2>1, CopyOfOrder
<1>2. ASSUME NEW op \in {"accept", "reject"}, LoadDecision(r, op) PROVE IInv'
  <2>1. Loads(r, WithCopy(op, order)) /\ op \notin Savers
    BY <1>2 DEF LoadDecision, Loads, Tables, WithCopy, Savers
  <2> QED
    BY <2>1, CopyOfOrder
<1>3. ASSUME NEW op \in {"finalApprove", "finalReject"}, LoadFinal(r, op) PROVE IInv'
  <2>1. Loads(r, WithCopy(op, order)) /\ order.status # "COMPLETED"
    BY <1>3 DEF LoadFinal, CanFinish, Loads, Tables, WithCopy
  <2> QED
    BY <2>1, CopyOfOrder
<1> QED
  BY <1>1, <1>2, <1>3

LEMMA LoadMoneyKeeps ==
  ASSUME IInv, NEW r \in Request,
         LoadCost(r) \/ \E i \in Invoice : LoadUpload(r, i) \/ LoadApproveInvoice(r, i)
  PROVE  IInv'
<1>1. CASE LoadCost(r)
  <2> DEFINE s == [Idle EXCEPT !.op = "cost"]
  <2>1. s \in RequestState /\ s.op = "cost"
    BY IdleTypes DEF RequestState
  <2>2. Loads(r, s)
    BY <1>1 DEF LoadCost, Loads, Tables
  <2> HIDE DEF s
  <2>3. CopyOK(s) /\ CopyFresh(s)
    BY <2>1 DEF CopyOK, CopyFresh, CopyOps, Savers
  <2> QED
    BY <2>1, <2>2, <2>3, LoadsKeeps DEF LoadedOK
<1>2. ASSUME NEW i \in Invoice, LoadUpload(r, i) PROVE IInv'
  <2> DEFINE s == [Idle EXCEPT !.op = "upload", !.invoice = {i}]
  <2>1. s \in RequestState /\ s.op = "upload"
    BY IdleTypes DEF RequestState
  <2>2. Loads(r, s)
    BY <1>2 DEF LoadUpload, Loads, Tables
  <2> HIDE DEF s
  <2>3. CopyOK(s) /\ CopyFresh(s)
    BY <2>1 DEF CopyOK, CopyFresh, CopyOps, Savers
  <2> QED
    BY <2>1, <2>2, <2>3, LoadsKeeps DEF LoadedOK
<1>3. ASSUME NEW i \in Invoice, LoadApproveInvoice(r, i) PROVE IInv'
  <2> DEFINE s == [Idle EXCEPT !.op = "approveInvoice", !.copy = order, !.invoice = {i}]
  <2>1. order \in OrderRow /\ UniqueParts(order) /\ order.status # "COMPLETED"
    BY <1>3 DEF LoadApproveInvoice, InvoiceAllowed, IInv, TypeOK, CopiesOK
  <2>2. s \in RequestState /\ s.op = "approveInvoice" /\ s.copy = order
    BY <2>1, IdleTypes DEF RequestState, Idle
  <2>3. Loads(r, s)
    BY <1>3 DEF LoadApproveInvoice, Loads, Tables
  <2> HIDE DEF s
  <2>4. CopyOK(s) /\ CopyFresh(s)
    BY <2>1, <2>2 DEF CopyOK, CopyFresh
  <2> QED
    BY <2>2, <2>3, <2>4, LoadsKeeps DEF LoadedOK
<1> QED
  BY <1>1, <1>2, <1>3

LEMMA LoadReviewKeeps ==
  ASSUME IInv, NEW r \in Request, NEW priced \in BOOLEAN, NEW parts \in SUBSET Line,
         LoadReview(r, priced, parts)
  PROVE  IInv'
<1> DEFINE rv == [status |-> "DRAFT", priced |-> priced, parts |-> parts]
           s == [Idle EXCEPT !.op = "review", !.review = rv]
<1>1. rv \in ReviewRow
  BY DEF ReviewRow
<1>2. Loads(r, s) /\ order.status # "COMPLETED"
  BY DEF LoadReview, Loads, Tables
<1> HIDE DEF rv
<1>3. s \in RequestState /\ s.op = "review"
  BY <1>1, IdleTypes DEF RequestState
<1> HIDE DEF s
<1>4. CopyOK(s) /\ CopyFresh(s)
  BY <1>2, <1>3 DEF CopyOK, CopyFresh, CopyOps, Savers
<1> QED
  BY <1>2, <1>3, <1>4, LoadsKeeps DEF LoadedOK

\* The parts of the order with those of the review: typed, told apart by their ids,
\* and no material of the review is missing.
LEMMA Merging ==
  ASSUME NEW row \in OrderRow, UniqueParts(row), NEW rv \in ReviewRow,
         NEW Fresh \in SUBSET Part, NEW id \in [Materials(rv) -> Fresh],
         Fresh \cap PartIds(row) = {},
         \A x, y \in rv.parts : x # y => id[x.material] # id[y.material]
  PROVE  /\ MergedParts(row, rv, id) \in SUBSET [id : Part, line : Line]
         /\ \A p, q \in MergedParts(row, rv, id) : p.id = q.id => p = q
         /\ Materials(rv) \subseteq {p.line.material : p \in MergedParts(row, rv, id)}
<1> DEFINE new == {x \in rv.parts : \A p \in row.parts : p.line.material # x.material}
           Part1(x) == [id |-> id[x.material],
                        line |-> [material |-> x.material, quantity |-> 1]]
           merged == row.parts \cup {Part1(x) : x \in new}
<1>1. MergedParts(row, rv, id) = merged
  BY DEF MergedParts, MergedQuantity
<1>2. rv.parts \in SUBSET Line /\ row.parts \in SUBSET [id : Part, line : Line]
  BY DEF ReviewRow, OrderRow
<1>3. ASSUME NEW x \in new
      PROVE  /\ Part1(x) \in [id : Part, line : Line]
             /\ Part1(x).id = id[x.material] /\ Part1(x).line.material = x.material
             /\ Part1(x).id \in Fresh
  <2>1. x \in Line /\ x.material \in Materials(rv)
    BY <1>2 DEF Materials
  <2>2. id[x.material] \in Fresh /\ id[x.material] \in Part
    BY <2>1
  <2>3. [material |-> x.material, quantity |-> 1] \in Line
    BY <2>1, BoundTypes DEF Line
  <2> QED
    BY <2>2, <2>3
<1>4. new \subseteq rv.parts
  OBVIOUS
<1>5. \A x \in rv.parts : x \in new \/ \E p \in row.parts : p.line.material = x.material
  OBVIOUS
<1>6. \A p \in merged : p \in row.parts \/ \E x \in new : p = Part1(x)
  OBVIOUS
<1>7. \A x \in new : Part1(x) \in merged
  OBVIOUS
<1>8. row.parts \subseteq merged
  OBVIOUS
<1>9. \A x \in new : /\ Part1(x) \in [id : Part, line : Line]
                     /\ Part1(x).id = id[x.material] /\ Part1(x).line.material = x.material
                     /\ Part1(x).id \in Fresh
  BY <1>3
<1> HIDE DEF Part1, merged, new
<1>10. merged \in SUBSET [id : Part, line : Line]
  BY <1>2, <1>6, <1>9
<1>11. \A p, q \in merged : p.id = q.id => p = q
  <2> SUFFICES ASSUME NEW p \in merged, NEW q \in merged, p.id = q.id PROVE p = q
    OBVIOUS
  <2>1. \A x \in row.parts : x.id \notin Fresh
    BY DEF PartIds
  <2>2. CASE p \in row.parts /\ q \in row.parts
    BY <2>2 DEF UniqueParts
  <2>3. CASE p \notin row.parts /\ q \notin row.parts
    <3>1. PICK x \in new : p = Part1(x)
      BY <1>6, <2>3
    <3>2. PICK y \in new : q = Part1(y)
      BY <1>6, <2>3
    <3>3. id[x.material] = id[y.material] /\ x \in rv.parts /\ y \in rv.parts
      BY <1>4, <1>9, <3>1, <3>2
    <3>4. x = y
      BY <3>3
    <3> QED
      BY <3>1, <3>2, <3>4
  <2>4. CASE p \in row.parts /\ q \notin row.parts
    BY <1>6, <1>9, <2>1, <2>4
  <2>5. CASE p \notin row.parts /\ q \in row.parts
    BY <1>6, <1>9, <2>1, <2>5
  <2> QED
    BY <2>2, <2>3, <2>4, <2>5
<1>12. ASSUME NEW x \in rv.parts PROVE \E p \in merged : p.line.material = x.material
  BY <1>5, <1>7, <1>8, <1>9
<1>13. Materials(rv) \subseteq {p.line.material : p \in merged}
  BY <1>12 DEF Materials
<1> QED
  BY <1>1, <1>10, <1>11, <1>13

LEMMA LoadCloseKeeps ==
  ASSUME IInv, NEW r \in Request, LoadClose(r) PROVE IInv'
<1> DEFINE Fresh == {p \in Part : FreshPart(p)}
<1>1. PICK id \in [Materials(review) -> Fresh] :
        LET merged == MergedParts(order, review, id) IN
        /\ \A x, y \in review.parts : x # y => id[x.material] # id[y.material]
        /\ Enter(r, [Idle EXCEPT !.op = "close", !.review = review,
                                 !.copy = [order EXCEPT !.parts = merged]])
  BY DEF LoadClose, Materials
<1> DEFINE merged == MergedParts(order, review, id)
           row == [order EXCEPT !.parts = merged]
           s == [Idle EXCEPT !.op = "close", !.review = review, !.copy = row]
<1>2. /\ \A x, y \in review.parts : x # y => id[x.material] # id[y.material]
      /\ Enter(r, s)
  BY <1>1
<1>3. UNCHANGED Tables /\ order.status # "COMPLETED"
  BY DEF LoadClose, Tables
<1>4. order \in OrderRow /\ UniqueParts(order) /\ review \in ReviewRow
  BY DEF IInv, TypeOK, CopiesOK
<1>5. Fresh \in SUBSET Part /\ Fresh \cap PartIds(order) = {}
  BY DEF FreshPart
<1> HIDE DEF Fresh
<1>6. /\ merged \in SUBSET [id : Part, line : Line]
      /\ \A p, q \in merged : p.id = q.id => p = q
      /\ Materials(review) \subseteq {p.line.material : p \in merged}
  BY <1>2, <1>4, <1>5, Merging
<1> HIDE DEF merged
<1>7. row \in OrderRow /\ row.status = order.status /\ row.parts = merged
  BY <1>4, <1>6, EditedTypes
<1> HIDE DEF row
<1>8. s \in RequestState /\ s.op = "close" /\ s.copy = row /\ s.review = review
  BY <1>4, <1>7, IdleTypes DEF RequestState, Idle
<1> HIDE DEF s
<1>9. CopyOK(s) /\ CopyFresh(s)
  BY <1>3, <1>6, <1>7, <1>8 DEF CopyOK, CopyFresh, UniqueParts
<1>10. Loads(r, s)
  BY <1>2, <1>3 DEF Loads
<1> QED
  BY <1>8, <1>9, <1>10, LoadsKeeps DEF LoadedOK

--------------------------------------------------------------------------------
(* A handler ends. *)

\* What every answer has in common, and what each adds: the types, and what it does
\* to the end of the order.
LEMMA ServedKeeps ==
  ASSUME IInv, TypeOK', NEW r \in Request, req[r].op # "idle", Serving(r, req[r].op),
         UNCHANGED overlaps, UniqueParts(order'),
         \/ UNCHANGED <<order, completions, history>>
         \/ r \in OpenCopies /\ UNCHANGED <<completions, history>>
         \/ /\ r \in OpenCopies /\ completions' = completions + 1 /\ order'.status = "COMPLETED"
            /\ \A h \in history' : h \in history \/ h.by = completions',
         overlaps = 0 => HistoryIsOfTheOrder' /\ ClosedIsWhole'
  PROVE  IInv'
<1>1. req' = [req EXCEPT ![r] = Idle]
  BY DEF Serving
<1>2. CopyOK(Idle) /\ Idle.op = "idle" /\ Idle.op \notin CopyOps
  BY IdleTypes DEF CopyOK, CopyOps, Savers
<1>3. CopiesOK'
  BY <1>1, <1>2, CopiesStep DEF IInv
<1>4. EndsAccounted'
  <2>1. /\ completions \in Nat /\ overlaps \in Nat /\ \A h \in history : h.by \in Nat
        /\ IsFiniteSet(OpenCopies)
        /\ completions + Cardinality(OpenCopies) <= 1 + overlaps
        /\ order.status # "COMPLETED" => completions + 1 <= 1 + overlaps
        /\ completions <= 1 + overlaps
        /\ \A h \in history : h.by <= completions
    BY BoundTypes DEF IInv, TypeOK, HistoryRow, EndsAccounted
  <2>2. /\ IsFiniteSet(OpenCopies')
        /\ Cardinality(OpenCopies') \in Nat /\ Cardinality(OpenCopies) \in Nat
        /\ Cardinality(OpenCopies') <= Cardinality(OpenCopies)
        /\ r \in OpenCopies => Cardinality(OpenCopies') = Cardinality(OpenCopies) - 1
        /\ r \in OpenCopies => Cardinality(OpenCopies) >= 1
    BY <1>1, <1>2, <2>1, OpenCopiesStep DEF IInv
  <2>3. CASE UNCHANGED <<order, completions, history>>
    BY <2>1, <2>2, <2>3 DEF EndsAccounted
  <2>4. CASE r \in OpenCopies /\ UNCHANGED <<completions, history>>
    BY <2>1, <2>2, <2>4 DEF EndsAccounted
  <2>5. CASE /\ r \in OpenCopies /\ completions' = completions + 1 /\ order'.status = "COMPLETED"
             /\ \A h \in history' : h \in history \/ h.by = completions'
    <3>1. completions' + Cardinality(OpenCopies') <= 1 + overlaps' /\ completions' <= 1 + overlaps'
      BY <2>1, <2>2, <2>5
    <3>2. \A h \in history' : h.by <= completions'
      BY <2>1, <2>5
    <3> QED
      BY <2>2, <2>5, <3>1, <3>2 DEF EndsAccounted
  <2> QED
    BY <2>3, <2>4, <2>5
<1>5. OneAtATime'
  <2> SUFFICES ASSUME overlaps' = 0
               PROVE  /\ \A p, q \in Busy' : p = q
                      /\ \A q \in Request : CopyFresh(req[q])'
    BY DEF OneAtATime
  <2>1. \A q \in Request : req'[q].op = "idle"
    <3>1. \A q \in Request \ {r} : req[q].op = "idle"
      BY DEF IInv, OneAtATime, Busy
    <3>2. TypeOK
      BY DEF IInv
    <3>3. req'[r] = Idle /\ \A q \in Request \ {r} : req'[q] = req[q]
      BY <1>1, <3>2, OthersStay
    <3> QED
      BY <1>2, <3>1, <3>3
  <2> QED
    BY <2>1 DEF Busy, CopyFresh, CopyOps
<1>6. HistoryIsOfTheOrder' /\ ClosedIsWhole'
  BY DEF HistoryIsOfTheOrder, ClosedIsWhole
<1> QED
  BY <1>3, <1>4, <1>5, <1>6 DEF IInv

LEMMA ServedTypes ==
  ASSUME TypeOK, NEW r \in Request, NEW op, Serving(r, op)
  PROVE  req' \in [Request -> RequestState] /\ req[r].op = op /\ Serving(r, req[r].op)
BY IdleTypes DEF TypeOK, Serving

LEMMA CopyTypes ==
  ASSUME TypeOK, NEW r \in Request
  PROVE  req[r].copy \in OrderRow /\ req[r].review \in ReviewRow /\ req[r].invoice \in SUBSET Invoice
<1>1. req[r] \in RequestState
  BY DEF TypeOK
<1> QED
  BY <1>1 DEF RequestState

\* An answer that leaves the order and its components alone.
LEMMA OrderStays ==
  ASSUME IInv, TypeOK', NEW r \in Request, req[r].op # "idle", Serving(r, req[r].op),
         UNCHANGED <<overlaps, order, completions, history, assignment, fault>>,
         review' = review \/ req[r].op = "review"
  PROVE  IInv'
<1>1. UniqueParts(order')
  BY DEF IInv, CopiesOK
<1>2. overlaps = 0 => HistoryIsOfTheOrder'
  BY DEF IInv, HistoryIsOfTheOrder
<1>3. overlaps = 0 => ClosedIsWhole'
  <2>1. overlaps = 0 /\ req[r].op = "review" => order.status # "COMPLETED"
    BY DEF IInv, OneAtATime, CopyFresh
  <2> QED
    BY <2>1 DEF IInv, ClosedIsWhole
<1> QED
  BY <1>1, <1>2, <1>3, ServedKeeps

\* The copy of an open order, saved: one at a time, nothing had been recorded.
LEMMA OpenCopySaved ==
  ASSUME IInv, NEW r \in Request, req[r].op \in CopyOps, req[r].copy.status # "COMPLETED"
  PROVE  /\ r \in OpenCopies /\ UniqueParts(req[r].copy) /\ req[r].op # "idle"
         /\ overlaps = 0 => order.status # "COMPLETED" /\ history = {} /\ assignment # "COMPLETED"
<1>1. r \in OpenCopies /\ UniqueParts(req[r].copy) /\ req[r].op # "idle"
  BY DEF OpenCopies, IInv, CopiesOK, CopyOK, CopyOps
<1>2. overlaps = 0 => order.status # "COMPLETED"
  BY DEF IInv, OneAtATime, CopyFresh
<1> QED
  BY <1>1, <1>2 DEF IInv, HistoryIsOfTheOrder, ClosedIsWhole

LEMMA SavesOpen ==
  ASSUME IInv, TypeOK', NEW r \in Request, req[r].op \in CopyOps,
         req[r].copy.status # "COMPLETED", Serving(r, req[r].op),
         UNCHANGED <<overlaps, completions, history, assignment>>,
         order'.parts = req[r].copy.parts
  PROVE  IInv'
<1>1. UniqueParts(order')
  BY OpenCopySaved DEF UniqueParts
<1>2. overlaps = 0 => HistoryIsOfTheOrder' /\ ClosedIsWhole'
  BY OpenCopySaved DEF HistoryIsOfTheOrder, ClosedIsWhole
<1> QED
  BY <1>1, <1>2, OpenCopySaved, ServedKeeps

\* The end of the order, with the components recorded from the copy.
LEMMA SavesEnd ==
  ASSUME IInv, TypeOK', NEW r \in Request, req[r].op \in CopyOps,
         req[r].copy.status # "COMPLETED", Serving(r, req[r].op), UNCHANGED overlaps,
         Saved(r, "COMPLETED"), RecordHistory(req[r].copy), fault' = "CLOSED",
         \/ UNCHANGED <<assignment, review>>
         \/ review'.status = "COMPLETED" /\ Materials(review') \subseteq
              {p.line.material : p \in req[r].copy.parts}
  PROVE  IInv'
<1> DEFINE parts == req[r].copy.parts
           Row(p) == [part |-> p.id, line |-> p.line, by |-> completions + 1]
<1>1. order'.status = "COMPLETED" /\ order'.parts = parts
  BY CopyTypes, EditedTypes DEF Saved, OrderStatus, IInv
<1>2. UniqueParts(order')
  BY <1>1, OpenCopySaved DEF UniqueParts
<1>3. completions' = completions + 1 /\ history' = history \cup {Row(p) : p \in parts}
  BY DEF RecordHistory, Recorded
<1>4. \A p : Row(p).part = p.id /\ Row(p).line = p.line /\ Row(p).by = completions + 1
  OBVIOUS
<1>5. /\ \A h \in history' : h \in history \/ \E p \in parts : h = Row(p)
      /\ \A p \in parts : Row(p) \in history'
  BY <1>3
<1>6. \A h \in history' : h \in history \/ h.by = completions'
  BY <1>3, <1>4, <1>5
<1> HIDE DEF Row, parts
<1>7. overlaps = 0 => HistoryIsOfTheOrder'
  <2> SUFFICES ASSUME overlaps = 0
               PROVE  /\ order'.status = "COMPLETED"
                      /\ {<<h.part, h.line>> : h \in history'} = {<<p.id, p.line>> : p \in parts}
                      /\ \A g, h \in history' : g.part = h.part => g = h
    BY <1>1 DEF HistoryIsOfTheOrder
  <2>1. history = {}
    BY OpenCopySaved
  <2>2. \A h \in history' : \E p \in parts : h = Row(p)
    BY <1>5, <2>1
  <2>3. \A h \in history' : \E p \in parts : <<h.part, h.line>> = <<p.id, p.line>>
    BY <1>4, <2>2
  <2>4. \A p \in parts : \E h \in history' : <<h.part, h.line>> = <<p.id, p.line>>
    BY <1>4, <1>5
  <2>5. {<<h.part, h.line>> : h \in history'} = {<<p.id, p.line>> : p \in parts}
    BY <2>3, <2>4
  <2>6. ASSUME NEW g \in history', NEW h \in history', g.part = h.part PROVE g = h
    <3>1. PICK p \in parts : g = Row(p)
      BY <2>2
    <3>2. PICK q \in parts : h = Row(q)
      BY <2>2
    <3>3. p.id = q.id
      BY <1>4, <2>6, <3>1, <3>2
    <3>4. p = q
      BY <1>1, <1>2, <3>3 DEF UniqueParts
    <3> QED
      BY <3>1, <3>2, <3>4
  <2> QED
    BY <1>1, <2>5, <2>6
<1>8. overlaps = 0 => ClosedIsWhole'
  <2> SUFFICES ASSUME overlaps = 0, assignment' = "COMPLETED"
               PROVE  /\ order'.status = "COMPLETED" /\ review'.status = "COMPLETED"
                      /\ fault' = "CLOSED"
                      /\ {x.material : x \in review'.parts} \subseteq
                           {p.line.material : p \in order'.parts}
                      /\ {p.id : p \in order'.parts} \subseteq {h.part : h \in history'}
    BY DEF ClosedIsWhole
  <2>1. assignment # "COMPLETED"
    BY OpenCopySaved
  <2>2. /\ review'.status = "COMPLETED"
        /\ Materials(review)' \subseteq {p.line.material : p \in parts}
    BY <2>1 DEF parts
  <2>3. \A p \in parts : \E h \in history' : h.part = p.id
    BY <1>4, <1>5
  <2> QED
    BY <1>1, <2>2, <2>3 DEF Materials
<1>9. r \in OpenCopies /\ req[r].op # "idle"
  BY OpenCopySaved
<1> QED
  BY <1>1, <1>2, <1>3, <1>6, <1>7, <1>8, <1>9, ServedKeeps
LEMMA SavedTypes ==
  ASSUME TypeOK, NEW r \in Request, NEW st \in OrderStatus, Saved(r, st)
  PROVE  order' \in OrderRow /\ order'.status = st /\ order'.parts = req[r].copy.parts
BY CopyTypes, EditedTypes DEF Saved

LEMMA RecordTypes ==
  ASSUME TypeOK, NEW row \in OrderRow, RecordHistory(row)
  PROVE  completions' \in 0 .. MaxEnds /\ history' \subseteq HistoryRow
<1>1. completions' = completions + 1 /\ completions' \in 1 .. MaxEnds
  BY BoundTypes DEF RecordHistory, TypeOK
<1>2. row.parts \in SUBSET [id : Part, line : Line]
  BY DEF OrderRow
<1>3. \A p \in row.parts : [part |-> p.id, line |-> p.line, by |-> completions'] \in HistoryRow
  BY <1>1, <1>2 DEF HistoryRow
<1> QED
  BY <1>1, <1>3, BoundTypes DEF RecordHistory, Recorded, TypeOK

\* A copy saved while the order is open.
LEMMA SaveLinesKeeps == ASSUME IInv, NEW r \in Request, SaveLines(r) PROVE IInv'
<1>1. Serving(r, "lines") /\ order' = req[r].copy /\ req[r].op = "lines"
  BY DEF SaveLines, Serving
<1>2. TypeOK'
  BY <1>1, ServedTypes, CopyTypes DEF IInv, TypeOK, SaveLines, external
<1>3. req[r].op \in CopyOps /\ req[r].copy.status # "COMPLETED"
  BY <1>1 DEF IInv, CopiesOK, CopyOK, Savers, CopyOps
<1>4. UNCHANGED <<overlaps, completions, history, assignment>>
  BY DEF SaveLines, external
<1> QED
  BY <1>1, <1>2, <1>3, <1>4, SavesOpen

LEMMA CompleteRepairKeeps == ASSUME IInv, NEW r \in Request, CompleteRepair(r) PROVE IInv'
<1>1. Serving(r, "complete") /\ req[r].op = "complete"
  BY DEF CompleteRepair, Serving
<1>2. order' \in OrderRow /\ order'.parts = req[r].copy.parts
  BY SavedTypes DEF CompleteRepair, IInv, OrderStatus
<1>3. req' \in [Request -> RequestState]
  BY <1>1, ServedTypes DEF IInv
<1>4. TypeOK'
  BY <1>2, <1>3 DEF IInv, TypeOK, CompleteRepair, external
<1>5. req[r].op \in CopyOps /\ req[r].copy.status # "COMPLETED"
  BY <1>1 DEF IInv, CopiesOK, CopyOK, Savers, CopyOps
<1>6. UNCHANGED <<overlaps, completions, history, assignment>>
  BY DEF CompleteRepair, external
<1> QED
  BY <1>1, <1>2, <1>4, <1>5, <1>6, SavesOpen

LEMMA DriverDecidesKeeps ==
  ASSUME IInv, NEW r \in Request, DriverAcceptsOther(r) \/ DriverRejects(r) PROVE IInv'
<1>1. PICK op \in {"accept", "reject"} : Serving(r, op) /\ req[r].op = op
  BY DEF DriverAcceptsOther, DriverRejects, Serving
<1>2. PICK st \in OrderStatus : Saved(r, st)
  BY DEF DriverAcceptsOther, DriverRejects, OrderStatus
<1>3. order' \in OrderRow /\ order'.parts = req[r].copy.parts
  BY <1>2, SavedTypes DEF IInv
<1>4. req' \in [Request -> RequestState]
  BY <1>1, ServedTypes DEF IInv
<1>5. followUps' \in 0 .. MaxEnds
  BY BoundTypes DEF DriverAcceptsOther, DriverRejects, IInv, TypeOK
<1>6. TypeOK'
  BY <1>3, <1>4, <1>5 DEF IInv, TypeOK, DriverAcceptsOther, DriverRejects, external
<1>7. req[r].op \in CopyOps /\ req[r].copy.status # "COMPLETED"
  BY <1>1 DEF DriverAcceptsOther, DriverRejects, CopyOps
<1>8. UNCHANGED <<overlaps, completions, history, assignment>>
  BY DEF DriverAcceptsOther, DriverRejects, external
<1> QED
  BY <1>1, <1>3, <1>6, <1>7, <1>8, SavesOpen

LEMMA FinalRejectKeeps == ASSUME IInv, NEW r \in Request, FinalReject(r) PROVE IInv'
<1>1. Serving(r, "finalReject") /\ req[r].op = "finalReject"
  BY DEF FinalReject, Serving
<1>2. order' \in OrderRow /\ order'.parts = req[r].copy.parts
  BY SavedTypes DEF FinalReject, IInv, OrderStatus
<1>3. req' \in [Request -> RequestState]
  BY <1>1, ServedTypes DEF IInv
<1>4. followUps' \in 0 .. MaxEnds
  BY BoundTypes DEF FinalReject, IInv, TypeOK
<1>5. TypeOK'
  BY <1>2, <1>3, <1>4 DEF IInv, TypeOK, FinalReject, external
<1>6. req[r].op \in CopyOps /\ req[r].copy.status # "COMPLETED"
  BY <1>1 DEF IInv, CopiesOK, CopyOK, Savers, CopyOps
<1>7. UNCHANGED <<overlaps, completions, history, assignment>>
  BY DEF FinalReject, external
<1> QED
  BY <1>1, <1>2, <1>5, <1>6, <1>7, SavesOpen

LEMMA ApproveInvoiceKeeps == ASSUME IInv, NEW r \in Request, ApproveInvoice(r) PROVE IInv'
<1>1. Serving(r, "approveInvoice") /\ req[r].op = "approveInvoice"
  BY DEF ApproveInvoice, Serving
<1>2. order' \in OrderRow /\ order'.parts = req[r].copy.parts
  BY SavedTypes DEF ApproveInvoice, IInv, OrderStatus
<1>3. req' \in [Request -> RequestState]
  BY <1>1, ServedTypes DEF IInv
<1>4. invoices' \in [Invoice -> {"NONE", "UPLOADED", "APPROVED"}]
  BY DEF ApproveInvoice, IInv, TypeOK
<1>5. TypeOK'
  BY <1>2, <1>3, <1>4 DEF IInv, TypeOK, ApproveInvoice
<1>6. req[r].op \in CopyOps /\ req[r].copy.status # "COMPLETED"
  BY <1>1 DEF IInv, CopiesOK, CopyOK, Savers, CopyOps
<1>7. UNCHANGED <<overlaps, completions, history, assignment>>
  BY DEF ApproveInvoice
<1> QED
  BY <1>1, <1>2, <1>5, <1>6, <1>7, SavesOpen

\* The three ends that record the components.
LEMMA DriverAcceptsInternalKeeps ==
  ASSUME IInv, NEW r \in Request, DriverAcceptsInternal(r) PROVE IInv'
<1>1. Serving(r, "accept") /\ req[r].op = "accept"
  BY DEF DriverAcceptsInternal, Serving
<1>2. order' \in OrderRow
  BY SavedTypes DEF DriverAcceptsInternal, IInv, OrderStatus
<1>3. req' \in [Request -> RequestState]
  BY <1>1, ServedTypes DEF IInv
<1>4. completions' \in 0 .. MaxEnds /\ history' \subseteq HistoryRow
  BY CopyTypes, RecordTypes DEF DriverAcceptsInternal, IInv
<1>5. TypeOK'
  BY <1>2, <1>3, <1>4 DEF IInv, TypeOK, DriverAcceptsInternal, external
<1>6. req[r].op \in CopyOps /\ req[r].copy.status # "COMPLETED"
  BY <1>1 DEF DriverAcceptsInternal, CopyOps
<1>7. /\ UNCHANGED <<overlaps, assignment, review>> /\ fault' = "CLOSED"
      /\ Saved(r, "COMPLETED") /\ RecordHistory(req[r].copy)
  BY DEF DriverAcceptsInternal, external
<1> QED
  BY <1>1, <1>5, <1>6, <1>7, SavesEnd

LEMMA FinalApproveKeeps == ASSUME IInv, NEW r \in Request, FinalApprove(r) PROVE IInv'
<1>1. Serving(r, "finalApprove") /\ req[r].op = "finalApprove"
  BY DEF FinalApprove, Serving
<1>2. order' \in OrderRow
  BY SavedTypes DEF FinalApprove, IInv, OrderStatus
<1>3. req' \in [Request -> RequestState]
  BY <1>1, ServedTypes DEF IInv
<1>4. completions' \in 0 .. MaxEnds /\ history' \subseteq HistoryRow
  BY CopyTypes, RecordTypes DEF FinalApprove, IInv
<1>5. TypeOK'
  BY <1>2, <1>3, <1>4 DEF IInv, TypeOK, FinalApprove, external
<1>6. req[r].op \in CopyOps /\ req[r].copy.status # "COMPLETED"
  BY <1>1 DEF IInv, CopiesOK, CopyOK, Savers, CopyOps
<1>7. /\ UNCHANGED <<overlaps, assignment, review>> /\ fault' = "CLOSED"
      /\ Saved(r, "COMPLETED") /\ RecordHistory(req[r].copy)
  BY DEF FinalApprove, external
<1> QED
  BY <1>1, <1>5, <1>6, <1>7, SavesEnd

LEMMA CloseExternalKeeps == ASSUME IInv, NEW r \in Request, CloseExternal(r) PROVE IInv'
<1>1. Serving(r, "close") /\ req[r].op = "close"
  BY DEF CloseExternal, Serving
<1>2. order' \in OrderRow
  BY SavedTypes DEF CloseExternal, IInv, OrderStatus
<1>3. req' \in [Request -> RequestState]
  BY <1>1, ServedTypes DEF IInv
<1>4. completions' \in 0 .. MaxEnds /\ history' \subseteq HistoryRow
  BY CopyTypes, RecordTypes DEF CloseExternal, IInv
<1>5. /\ review' \in ReviewRow /\ review'.status = "COMPLETED"
      /\ review'.parts = req[r].review.parts
  <2>1. req[r].review \in ReviewRow
    BY CopyTypes DEF IInv
  <2> QED
    BY <2>1 DEF CloseExternal, ReviewRow
<1>6. TypeOK'
  BY <1>2, <1>3, <1>4, <1>5 DEF IInv, TypeOK, CloseExternal
<1>7. req[r].op \in CopyOps /\ req[r].copy.status # "COMPLETED"
  BY <1>1 DEF IInv, CopiesOK, CopyOK, Savers, CopyOps
<1>8. Materials(review') \subseteq {p.line.material : p \in req[r].copy.parts}
  BY <1>1, <1>5 DEF IInv, CopiesOK, CopyOK, Materials
<1>9. /\ UNCHANGED overlaps /\ fault' = "CLOSED"
      /\ Saved(r, "COMPLETED") /\ RecordHistory(req[r].copy)
  BY DEF CloseExternal
<1> QED
  BY <1>1, <1>5, <1>6, <1>7, <1>8, <1>9, SavesEnd

\* The answers that leave the order alone.
LEMMA OrderLeftKeeps ==
  ASSUME IInv, NEW r \in Request,
         DriverDecidesLate(r) \/ RegisterCost(r) \/ UploadInvoice(r) \/ SaveReview(r) \/ RollBack(r)
  PROVE  IInv'
<1>1. PICK op : Serving(r, op) /\ req[r].op = op /\ op # "idle"
  BY DEF DriverDecidesLate, RegisterCost, UploadInvoice, SaveReview, RollBack, Serving
<1>2. req' \in [Request -> RequestState]
  BY <1>1, ServedTypes DEF IInv
<1>3. costs' \in Nat /\ invoices' \in [Invoice -> {"NONE", "UPLOADED", "APPROVED"}]
  BY DEF DriverDecidesLate, RegisterCost, UploadInvoice, SaveReview, RollBack, external, IInv,
         TypeOK
<1>4. review' \in ReviewRow
  <2>1. review \in ReviewRow /\ req[r].review \in ReviewRow
    BY CopyTypes DEF IInv, TypeOK
  <2> QED
    BY <2>1 DEF DriverDecidesLate, RegisterCost, UploadInvoice, SaveReview, RollBack, external
<1>5. handover' \in {"NONE", "WAITING", "ACCEPTED", "REJECTED"}
  BY DEF DriverDecidesLate, RegisterCost, UploadInvoice, SaveReview, RollBack, IInv, TypeOK
<1>6. UNCHANGED <<overlaps, order, completions, history, assignment, fault, received, vehicle,
                  followUps>>
  BY DEF DriverDecidesLate, RegisterCost, UploadInvoice, SaveReview, RollBack, external
<1>7. TypeOK'
  BY <1>2, <1>3, <1>4, <1>5, <1>6 DEF IInv, TypeOK
<1>8. review' = review \/ req[r].op = "review"
  BY DEF DriverDecidesLate, RegisterCost, UploadInvoice, SaveReview, RollBack, external, Serving
<1> QED
  BY <1>1, <1>6, <1>7, <1>8, OrderStays

--------------------------------------------------------------------------------
(* Every step. *)

LEMMA LineStepKeeps == ASSUME IInv, NEW r \in Request, LineStep(r) PROVE IInv'
<1>1. \A l \in ClientLine : l \in Line
  BY DEF ClientLine
<1>2. ASSUME NEW part \in order.parts, LoadDeletePart(r, part) PROVE IInv'
  <2>1. part.line \in Line
    BY DEF IInv, TypeOK, OrderRow
  <2> QED
    BY <1>2, <2>1, PartKeeps
<1> QED
  BY <1>1, <1>2, ActivityKeeps, PartKeeps, SaveLinesKeeps DEF LineStep

LEMMA EndStepKeeps == ASSUME IInv, NEW r \in Request, EndStep(r) PROVE IInv'
BY LoadEndKeeps, CompleteRepairKeeps, DriverAcceptsInternalKeeps, DriverDecidesKeeps,
   OrderLeftKeeps, FinalApproveKeeps, FinalRejectKeeps DEF EndStep

LEMMA MoneyStepKeeps == ASSUME IInv, NEW r \in Request, MoneyStep(r) PROVE IInv'
<1>1. \A parts \in Replaced : parts \in SUBSET Line
  BY DEF Replaced
<1> QED
  BY <1>1, LoadMoneyKeeps, LoadReviewKeeps, LoadCloseKeeps, OrderLeftKeeps, ApproveInvoiceKeeps,
     CloseExternalKeeps DEF MoneyStep

LEMMA StutterKeeps == ASSUME IInv, UNCHANGED vars PROVE IInv'
<1>1. TypeOK'
  BY DEF IInv, TypeOK, vars, external
<1>2. CopiesOK'
  BY DEF IInv, CopiesOK, CopyOK, UniqueParts, Materials, vars
<1>3. EndsAccounted'
  BY DEF IInv, EndsAccounted, OpenCopies, vars
<1>4. OneAtATime'
  BY DEF IInv, OneAtATime, Busy, CopyFresh, vars
<1>5. HistoryIsOfTheOrder' /\ ClosedIsWhole'
  BY DEF IInv, HistoryIsOfTheOrder, ClosedIsWhole, vars, external
<1> QED
  BY <1>1, <1>2, <1>3, <1>4, <1>5 DEF IInv

LEMMA NextIInv == IInv /\ [Next]_vars => IInv'
BY LineStepKeeps, EndStepKeeps, MoneyStepKeeps, OrderLeftKeeps, StutterKeeps DEF Next

\* The inductive invariant is one.
THEOREM Invariance == Spec => []IInv
BY InitIInv, NextIInv, PTL DEF Spec

\* Every variable keeps to its type.
THEOREM TypeCorrect == Spec => []TypeOK
<1>1. IInv => TypeOK
  BY DEF IInv
<1> QED
  BY <1>1, Invariance, PTL

\* The components of an order are recorded again only for a handler that overlapped
\* another, whatever the roles, the requests and their order.
THEOREM RecordedAgainByOverlapHolds == Spec => []RecordedAgainByOverlap
<1>1. IInv => RecordedAgainByOverlap
  <2> SUFFICES ASSUME IInv PROVE RecordedAgainByOverlap
    OBVIOUS
  <2>1. completions \in Nat /\ overlaps \in Nat /\ \A h \in history : h.by \in Nat
    BY BoundTypes DEF IInv, TypeOK, HistoryRow
  <2> QED
    BY <2>1 DEF IInv, EndsAccounted, RecordedAgainByOverlap
<1> QED
  BY <1>1, Invariance, PTL

\* Without overlaps the component history is that of the order, row by row.
THEOREM HistoryIsOfTheOrderHolds == Spec => []HistoryIsOfTheOrder
<1>1. IInv => HistoryIsOfTheOrder
  BY DEF IInv
<1> QED
  BY <1>1, Invariance, PTL

\* Without overlaps a closed external assignment leaves nothing behind.
THEOREM ClosedIsWholeHolds == Spec => []ClosedIsWhole
<1>1. IInv => ClosedIsWhole
  BY DEF IInv
<1> QED
  BY <1>1, Invariance, PTL

================================================================================
