-------------------------- MODULE MaterialFlowProofs --------------------------
(***************************************************************************)
(* Theorems about MaterialFlow, for any requests, lines, numbers, bounds   *)
(* and overlaps: issued parts are on record, nothing is received that SAP  *)
(* does not hold, and only a stale save of the order leaves it waiting for *)
(* parts that have arrived.  For executions without overlaps: SAP holds no *)
(* more of a requisition than it lists, and what is to be bought is on one *)
(* requisition.                                                            *)
(***************************************************************************)
EXTENDS MaterialFlow, FiniteSetTheorems, TLAPS

--------------------------------------------------------------------------------
(* The inductive invariant. *)

\* A request is made with items.
ItemsAsked == \A m \in MR : mrs[m].status # "NONE" => mrs[m].items # {}

\* A requisition has a number, a purchase order or a succeeded write only if SAP
\* holds it.
NumberedIsHeld ==
  \A p \in PR :
    /\ prs[p].number => sap[p] # {}
    /\ pos[p] > 0 => sap[p] # {}
    /\ \A key \in Key : tx[<<p, key>>].status = "SUCCESS" => sap[p] # {}

\* A copy some handler has loaded is no better than the tables, however old it is:
\* what a save may write back from it is still covered by what has happened.
MRCopyOK(s) ==
  /\ s.op \in {"decide", "approve", "issue", "receive"} => s.id \in MR
  /\ s.op \in {"decide", "issue", "receive"} => s.mr.items # {}
  /\ s.op = "decide" => s.mr.ready = s.mr.fromStock
  /\ s.op = "receive" => s.mr.ready = s.mr.items /\ issues[s.id] > 0

PRCopyOK(s) ==
  /\ s.op \in {"addLine", "submit", "receivePO"} =>
       s.id \in PR /\ (s.pr.number => sap[s.id] # {})
  /\ s.op = "submit" => s.key \in Key
  /\ s.op = "receivePO" => sap[s.id] # {}

\* A handler that saves the order has loaded one.
OrderCopyOK(s) == s.op = "saveOrder" => s.order \in OrderStatus

CopyOK(s) == MRCopyOK(s) /\ PRCopyOK(s) /\ OrderCopyOK(s)

CopiesOK == \A r \in Request : CopyOK(req[r])

IInv ==
  /\ TypeOK
  /\ ItemsAsked
  /\ NumberedIsHeld
  /\ CopiesOK
  /\ IssuedIsOnRecord

--------------------------------------------------------------------------------
(* Types. *)

LEMMA BoundTypes ==
  /\ MaxStock \in Nat /\ MaxRequests \in Nat /\ MaxRequisitions \in Nat /\ MaxIssues \in Nat
  /\ MaxReceipts \in Nat /\ MaxRetries \in Nat /\ MaxOverlaps \in Nat
  /\ MR \subseteq Nat /\ PR \subseteq Nat
BY MaterialAssumption DEF MR, PR

LEMMA RowTypes ==
  /\ NoMR \in MRRow /\ NoPR \in PRRow /\ NoTX \in TXRow
  /\ Idle \in RequestState
  /\ Idle.op = "idle" /\ Idle.id = 0
<1>1. NoMR \in MRRow
  BY DEF NoMR, MRRow, MRStatus
<1>2. NoPR \in PRRow
  BY DEF NoPR, PRRow
<1>3. NoTX \in TXRow
  BY BoundTypes DEF NoTX, TXRow, TXStatus
<1> QED
  BY <1>1, <1>2, <1>3 DEF Idle, RequestState, Op

LEMMA InitIInv == Init => IInv
<1> SUFFICES ASSUME Init PROVE IInv
  OBVIOUS
<1>1. \A r \in Request : req[r] = Idle
  BY DEF Init
<1>2. \A m \in MR : mrs[m] = NoMR
  BY DEF Init
<1>3. \A p \in PR : prs[p] = NoPR /\ pos[p] = 0 /\ \A key \in Key : tx[<<p, key>>] = NoTX
  BY DEF Init
<1>4. TypeOK
  BY RowTypes, BoundTypes DEF Init, TypeOK, OrderStatus
<1>5. ItemsAsked /\ IssuedIsOnRecord
  BY <1>2 DEF ItemsAsked, IssuedIsOnRecord, NoMR
<1>6. NumberedIsHeld
  BY <1>3 DEF NumberedIsHeld, NoPR, NoTX
<1>7. CopiesOK
  BY <1>1, RowTypes DEF CopiesOK, CopyOK, MRCopyOK, PRCopyOK, OrderCopyOK
<1> QED
  BY <1>4, <1>5, <1>6, <1>7 DEF IInv

LEMMA OverlappingOK == TypeOK /\ Overlapping => overlaps' \in 0 .. MaxOverlaps
BY BoundTypes DEF TypeOK, Overlapping

--------------------------------------------------------------------------------
(* What handlers load. *)

\* A copy that was in order stays so: SAP forgets nothing and no issue is undone.
LEMMA CopyStays ==
  ASSUME TypeOK, TypeOK',
         \A p \in PR : sap[p] \subseteq sap'[p],
         \A m \in MR : issues[m] > 0 => issues'[m] > 0,
         NEW s \in RequestState, CopyOK(s)
  PROVE  CopyOK(s)'
<1>1. MRCopyOK(s)'
  BY DEF CopyOK, MRCopyOK
<1>2. PRCopyOK(s)'
  BY DEF CopyOK, PRCopyOK
<1> QED
  BY <1>1, <1>2 DEF CopyOK, OrderCopyOK

\* One handler's copy changes, or goes.
LEMMA OneCopy ==
  ASSUME TypeOK, TypeOK', CopiesOK,
         \A p \in PR : sap[p] \subseteq sap'[p],
         \A m \in MR : issues[m] > 0 => issues'[m] > 0,
         NEW r \in Request, NEW s \in RequestState, CopyOK(s)',
         req' = [req EXCEPT ![r] = s]
  PROVE  CopiesOK'
<1> SUFFICES ASSUME NEW q \in Request PROVE CopyOK(req[q])'
  BY DEF CopiesOK
<1>1. CASE q = r
  <2>1. req'[q] = s
    BY <1>1 DEF TypeOK
  <2> QED
    BY <2>1 DEF CopyOK, MRCopyOK, PRCopyOK, OrderCopyOK
<1>2. CASE q # r
  <2>1. req'[q] = req[q] /\ req[q] \in RequestState
    BY <1>2 DEF TypeOK
  <2>2. CopyOK(req[q])
    BY DEF CopiesOK
  <2>3. \A t \in RequestState : CopyOK(t) => CopyOK(t)'
    BY CopyStays
  <2>4. PICK t \in RequestState : t = req[q]
    BY <2>1
  <2>5. CopyOK(t)'
    BY <2>2, <2>3, <2>4
  <2> QED
    BY <2>1, <2>4, <2>5 DEF CopyOK, MRCopyOK, PRCopyOK, OrderCopyOK
<1> QED
  BY <1>1, <1>2

\* A step of loading changes the handler's copy alone.
LEMMA LoadKeeps ==
  ASSUME IInv, NEW r \in Request, NEW s \in RequestState, CopyOK(s),
         req' = [req EXCEPT ![r] = s], overlaps' \in 0 .. MaxOverlaps, UNCHANGED Tables
  PROVE  IInv'
<1>1. TypeOK'
  BY DEF IInv, TypeOK, Tables
<1>2. CopyOK(s)'
  BY DEF CopyOK, MRCopyOK, PRCopyOK, OrderCopyOK, Tables
<1>3. CopiesOK'
  BY <1>1, <1>2, OneCopy DEF IInv, Tables
<1>4. ItemsAsked' /\ NumberedIsHeld' /\ IssuedIsOnRecord'
  BY DEF IInv, Tables, ItemsAsked, NumberedIsHeld, IssuedIsOnRecord
<1> QED
  BY <1>1, <1>3, <1>4 DEF IInv

\* The copies handlers begin with.
MRCopy(op, m, row) == [Idle EXCEPT !.op = op, !.id = m, !.mr = row]

PRCopy(op, p, row, pick, key) ==
  [Idle EXCEPT !.op = op, !.id = p, !.pr = row, !.pick = pick, !.key = key]

LEMMA NewMRCopy ==
  ASSUME NEW op \in MaterialOp, NEW m \in MR, NEW row \in MRRow
  PROVE  /\ MRCopy(op, m, row) \in RequestState /\ MRCopy(op, m, row).op = op
         /\ MRCopy(op, m, row).id = m /\ MRCopy(op, m, row).mr = row
<1>1. m \in Nat
  BY BoundTypes
<1> QED
  BY <1>1, RowTypes DEF MRCopy, RequestState, Op, Idle

LEMMA NewPRCopy ==
  ASSUME NEW op \in ProcurementOp, NEW p \in PR, NEW row \in PRRow, NEW pick \in SUBSET Line,
         NEW key \in Key \cup {"none"}
  PROVE  /\ PRCopy(op, p, row, pick, key) \in RequestState
         /\ PRCopy(op, p, row, pick, key).op = op /\ PRCopy(op, p, row, pick, key).id = p
         /\ PRCopy(op, p, row, pick, key).pr = row /\ PRCopy(op, p, row, pick, key).key = key
<1>1. p \in Nat
  BY BoundTypes
<1> QED
  BY <1>1, RowTypes DEF PRCopy, RequestState, Op, Idle

LEMMA LoadMRKeeps ==
  ASSUME IInv, NEW r \in Request, NEW op \in MaterialOp, NEW m \in MR, NEW row \in MRRow,
         LoadMR(r, op, m, row), row.items # {},
         op = "decide" => row.ready = row.fromStock,
         op = "receive" => row.ready = row.items /\ issues[m] > 0
  PROVE  IInv'
<1> DEFINE s == MRCopy(op, m, row)
<1>1. s \in RequestState /\ s.op = op /\ s.id = m /\ s.mr = row
  BY NewMRCopy
<1>2. req' = [req EXCEPT ![r] = s] /\ UNCHANGED Tables
  BY DEF LoadMR, Load, MRCopy
<1>3. overlaps' \in 0 .. MaxOverlaps
  BY OverlappingOK DEF LoadMR, Load, IInv
<1> HIDE DEF s
<1>4. CopyOK(s)
  <2>1. MRCopyOK(s)
    BY <1>1 DEF MRCopyOK
  <2>2. s.op \notin {"addLine", "submit", "receivePO", "saveOrder"}
    BY <1>1 DEF MaterialOp
  <2> QED
    BY <2>1, <2>2 DEF CopyOK, PRCopyOK, OrderCopyOK
<1> QED
  BY <1>1, <1>2, <1>3, <1>4, LoadKeeps

LEMMA LoadPRKeeps ==
  ASSUME IInv, NEW r \in Request, NEW op \in ProcurementOp, NEW p \in PR,
         NEW pick \in SUBSET Line, NEW key \in Key \cup {"none"},
         LoadPR(r, op, p, pick, key),
         op = "submit" => key \in Key,
         op = "receivePO" => prs[p].number
  PROVE  IInv'
<1> DEFINE s == PRCopy(op, p, prs[p], pick, key)
<1>1. s \in RequestState /\ s.op = op /\ s.id = p /\ s.pr = prs[p] /\ s.key = key
  BY NewPRCopy DEF IInv, TypeOK
<1>2. req' = [req EXCEPT ![r] = s] /\ UNCHANGED Tables
  BY DEF LoadPR, Load, PRCopy
<1>3. overlaps' \in 0 .. MaxOverlaps
  BY OverlappingOK DEF LoadPR, Load, IInv
<1>4. prs[p].number => sap[p] # {}
  BY DEF IInv, NumberedIsHeld
<1> HIDE DEF s
<1>5. CopyOK(s)
  <2>1. PRCopyOK(s)
    BY <1>1, <1>4 DEF PRCopyOK
  <2>2. s.op \notin {"decide", "approve", "issue", "receive", "saveOrder"}
    BY <1>1 DEF ProcurementOp
  <2> QED
    BY <2>1, <2>2 DEF CopyOK, MRCopyOK, OrderCopyOK
<1> QED
  BY <1>1, <1>2, <1>3, <1>5, LoadKeeps

\* Between two requests a handler holds no copy.
LEMMA IdleCopy == CopyOK(Idle) /\ CopyOK(Idle)'
BY RowTypes DEF CopyOK, MRCopyOK, PRCopyOK, OrderCopyOK

LEMMA ServedCopies ==
  ASSUME IInv, TypeOK', NEW r \in Request, NEW op, Serving(r, op),
         \A p \in PR : sap[p] \subseteq sap'[p],
         \A m \in MR : issues[m] > 0 => issues'[m] > 0
  PROVE  CopiesOK'
<1>1. req' = [req EXCEPT ![r] = Idle] /\ Idle \in RequestState
  BY RowTypes DEF Serving
<1> QED
  BY <1>1, IdleCopy, OneCopy DEF IInv

LEMMA ServedTypes ==
  ASSUME TypeOK, NEW r \in Request, NEW op, Serving(r, op)
  PROVE  req' \in [Request -> RequestState] /\ overlaps' \in 0 .. MaxOverlaps
BY RowTypes DEF TypeOK, Serving

\* The handler's copy and its key are typed.
LEMMA CopyTypes ==
  ASSUME TypeOK, NEW r \in Request
  PROVE  /\ req[r] \in RequestState /\ req[r].mr \in MRRow /\ req[r].pr \in PRRow
         /\ req[r].pick \in SUBSET Line
<1>1. req[r] \in RequestState
  BY DEF TypeOK
<1> QED
  BY <1>1 DEF RequestState

\* The rows handlers save.
LEMMA MRRows ==
  ASSUME NEW row \in MRRow
  PROVE  /\ \A st \in MRStatus : [row EXCEPT !.status = st] \in MRRow
         /\ [row EXCEPT !.status = "STOCK_ISSUED", !.ready = row.items] \in MRRow
         /\ \A items \in SUBSET Line : [row EXCEPT !.status = "REQUESTED", !.items = items] \in MRRow
         /\ \A fromStock \in SUBSET Line : Applied(row, fromStock) \in MRRow
<1>1. \A st \in MRStatus : [row EXCEPT !.status = st] \in MRRow
  BY DEF MRRow
<1>2. [row EXCEPT !.status = "STOCK_ISSUED", !.ready = row.items] \in MRRow
  BY DEF MRRow, MRStatus
<1>3. \A items \in SUBSET Line : [row EXCEPT !.status = "REQUESTED", !.items = items] \in MRRow
  BY DEF MRRow, MRStatus
<1>4. \A fromStock \in SUBSET Line : Applied(row, fromStock) \in MRRow
  BY DEF MRRow, Applied
<1> QED
  BY <1>1, <1>2, <1>3, <1>4

LEMMA IssueTypes ==
  ASSUME TypeOK, NEW m, CreateIssue(m)
  PROVE  /\ issues' \in [MR -> 0 .. MaxIssues]
         /\ \A n \in MR : issues[n] > 0 => issues'[n] > 0
         /\ m \in MR => issues'[m] > 0
<1>1. issues \in [MR -> 0 .. MaxIssues] /\ MaxIssues \in Nat
  BY BoundTypes DEF TypeOK
<1>2. ASSUME NEW n \in MR
      PROVE  issues'[n] \in 0 .. MaxIssues /\ issues'[n] = issues[n] + (IF n = m THEN 1 ELSE 0)
  <2>1. issues[n] \in 0 .. MaxIssues
    BY <1>1
  <2>2. CASE n = m
    BY <1>1, <2>1, <2>2 DEF CreateIssue
  <2>3. CASE n # m
    BY <1>1, <2>1, <2>3 DEF CreateIssue
  <2> QED
    BY <2>2, <2>3
<1>3. issues' \in [MR -> 0 .. MaxIssues]
  <2>1. issues' = [n \in MR |-> issues'[n]]
    BY <1>1 DEF CreateIssue
  <2> QED
    BY <1>2, <2>1
<1> QED
  BY <1>1, <1>2, <1>3

--------------------------------------------------------------------------------
(* Material requests. *)

LEMMA CreateKeeps ==
  ASSUME IInv, NEW r \in Request, Create(r) PROVE IInv'
<1>1. PICK m \in MR, items \in ItemLists :
        NextMR(m) /\ SaveMR(m, [NoMR EXCEPT !.status = "REQUESTED", !.items = items])
  BY DEF Create
<1> DEFINE row == [NoMR EXCEPT !.status = "REQUESTED", !.items = items]
<1>2. items \in SUBSET Line /\ items # {}
  BY MaterialAssumption
<1>3. row \in MRRow /\ row.status = "REQUESTED" /\ row.items = items
  <2>1. row \in MRRow
    BY <1>2, RowTypes, MRRows
  <2> QED
    BY <2>1 DEF NoMR
<1> HIDE DEF row
<1>4. mrs' = [mrs EXCEPT ![m] = row] /\ mrs' \in [MR -> MRRow]
  BY <1>1, <1>3 DEF SaveMR, row, IInv, TypeOK
<1>5. Serving(r, "create") /\ order' = "WAITING_PARTS" /\ UNCHANGED <<stock, issues, prs, pos, tx, sap>>
  BY DEF Create
<1>6. TypeOK'
  BY <1>4, <1>5, ServedTypes DEF IInv, TypeOK, OrderStatus
<1>7. CopiesOK'
  BY <1>5, <1>6, ServedCopies
<1>8. mrs'[m] = row /\ \A n \in MR \ {m} : mrs'[n] = mrs[n]
  BY <1>4 DEF IInv, TypeOK
<1>9. ItemsAsked'
  BY <1>2, <1>3, <1>8 DEF IInv, ItemsAsked
<1>10. NumberedIsHeld'
  BY <1>5 DEF IInv, NumberedIsHeld
<1>11. IssuedIsOnRecord'
  BY <1>3, <1>5, <1>8 DEF IInv, IssuedIsOnRecord
<1> QED
  BY <1>6, <1>7, <1>9, <1>10, <1>11 DEF IInv

\* The decision saved: whatever is on the copy, it is no longer NONE or RECEIVED.
LEMMA HeaderTypes ==
  ASSUME NEW row \in MRRow
  PROVE  /\ Header(row) \in {"STOCK_ISSUED", "PURCHASE_REQUIRED", "PARTIALLY_ISSUED"}
         /\ Header(row) = "STOCK_ISSUED" => row.fromStock = row.items
BY DEF Header

\* The draft requisition of what is bought.
LEMMA DraftTypes ==
  ASSUME TypeOK, NEW p \in PR, NEW m \in MR \cup {0}, NEW lines \in SUBSET Line,
         SavePR(p, [NoPR EXCEPT !.status = "DRAFT", !.for = m, !.lines = lines])
  PROVE  /\ prs' \in [PR -> PRRow]
         /\ \A q \in PR : prs'[q].number => prs[q].number
<1> DEFINE row == [NoPR EXCEPT !.status = "DRAFT", !.for = m, !.lines = lines]
<1>1. row \in PRRow /\ ~row.number
  BY DEF PRRow, NoPR
<1> HIDE DEF row
<1>2. prs' = [prs EXCEPT ![p] = row]
  BY DEF SavePR, row
<1> QED
  BY <1>1, <1>2 DEF TypeOK

LEMMA DecideKeeps ==
  ASSUME IInv, NEW r \in Request, Decide(r) PROVE IInv'
<1> DEFINE m == req[r].id
           row == req[r].mr
           saved == [row EXCEPT !.status = Header(row)]
<1>1. /\ Serving(r, "decide")
      /\ mrs' = [mrs EXCEPT ![m] = saved]
      /\ row.fromStock = {} => UNCHANGED issues
      /\ row.fromStock # {} => CreateIssue(m)
      /\ UNCHANGED <<order, stock, pos, tx, sap>>
  BY DEF Decide, SaveMR
<1>2. req[r].op = "decide" /\ row \in MRRow
  BY CopyTypes DEF IInv, Decide, Serving
<1>3. m \in MR /\ row.items # {} /\ row.ready = row.fromStock
  BY <1>2 DEF IInv, CopiesOK, CopyOK, MRCopyOK
<1>4. Bought(row) \in SUBSET Line
  BY <1>2 DEF Bought, MRRow
<1>5. /\ prs' \in [PR -> PRRow]
      /\ \A q \in PR : prs'[q].number => prs[q].number
  <2>1. CASE Bought(row) = {}
    BY <2>1 DEF Decide, IInv, TypeOK
  <2>2. CASE Bought(row) # {}
    <3>1. PICK p \in PR, lines \in SUBSET Bought(row) :
            SavePR(p, [NoPR EXCEPT !.status = "DRAFT", !.for = m, !.lines = lines])
      BY <2>2 DEF Decide
    <3>2. lines \in SUBSET Line /\ m \in MR \cup {0}
      BY <1>3, <1>4
    <3> HIDE DEF m, row
    <3> QED
      BY <3>1, <3>2, DraftTypes DEF IInv
  <2> QED
    BY <2>1, <2>2
<1>6. /\ saved \in MRRow /\ saved.status = Header(row) /\ saved.items = row.items
      /\ saved.ready = row.ready
  <2>1. Header(row) \in MRStatus
    BY <1>2, HeaderTypes DEF MRStatus
  <2>2. saved \in MRRow
    BY <1>2, <2>1, MRRows
  <2> QED
    BY <1>2, <2>2 DEF MRRow
<1>7. /\ issues' \in [MR -> 0 .. MaxIssues]
      /\ \A n \in MR : issues[n] > 0 => issues'[n] > 0
      /\ row.fromStock # {} => issues'[m] > 0
  BY <1>1, <1>3, IssueTypes DEF IInv, TypeOK
<1>8. /\ Header(row) \in {"STOCK_ISSUED", "PURCHASE_REQUIRED", "PARTIALLY_ISSUED"}
      /\ Header(row) = "STOCK_ISSUED" => row.fromStock = row.items
  BY <1>2, HeaderTypes
<1> HIDE DEF m, row, saved
<1>9. mrs' \in [MR -> MRRow]
  BY <1>1, <1>6 DEF IInv, TypeOK
<1>10. TypeOK'
  BY <1>1, <1>5, <1>7, <1>9, ServedTypes DEF IInv, TypeOK
<1>11. CopiesOK'
  BY <1>1, <1>7, <1>10, ServedCopies
<1>12. mrs'[m] = saved /\ \A n \in MR \ {m} : mrs'[n] = mrs[n]
  BY <1>1, <1>3 DEF IInv, TypeOK
<1>13. ItemsAsked'
  BY <1>3, <1>6, <1>12 DEF IInv, ItemsAsked
<1>14. NumberedIsHeld'
  BY <1>1, <1>5 DEF IInv, NumberedIsHeld
<1>15. IssuedIsOnRecord'
  BY <1>3, <1>6, <1>7, <1>8, <1>12 DEF IInv, IssuedIsOnRecord
<1> QED
  BY <1>10, <1>11, <1>13, <1>14, <1>15 DEF IInv

LEMMA IssuePurchasedKeeps ==
  ASSUME IInv, NEW r \in Request, IssuePurchased(r) PROVE IInv'
<1> DEFINE m == req[r].id
           row == req[r].mr
           saved == [row EXCEPT !.status = "STOCK_ISSUED", !.ready = row.items]
<1>1. /\ Serving(r, "issue") /\ mrs' = [mrs EXCEPT ![m] = saved] /\ CreateIssue(m)
      /\ UNCHANGED <<order, stock, prs, pos, tx, sap>>
  BY DEF IssuePurchased, SaveMR
<1>2. req[r].op = "issue" /\ row \in MRRow
  BY CopyTypes DEF IInv, IssuePurchased, Serving
<1>3. m \in MR /\ row.items # {}
  BY <1>2 DEF IInv, CopiesOK, CopyOK, MRCopyOK
<1>4. /\ saved \in MRRow /\ saved.status = "STOCK_ISSUED" /\ saved.items = row.items
      /\ saved.ready = row.items
  <2>1. saved \in MRRow
    BY <1>2, MRRows
  <2> QED
    BY <1>2, <2>1 DEF MRRow
<1>5. /\ issues' \in [MR -> 0 .. MaxIssues] /\ issues'[m] > 0
      /\ \A n \in MR : issues[n] > 0 => issues'[n] > 0
  BY <1>1, <1>3, IssueTypes DEF IInv
<1> HIDE DEF m, row, saved
<1>6. mrs' \in [MR -> MRRow]
  BY <1>1, <1>4 DEF IInv, TypeOK
<1>7. TypeOK'
  BY <1>1, <1>5, <1>6, ServedTypes DEF IInv, TypeOK
<1>8. CopiesOK'
  BY <1>1, <1>5, <1>7, ServedCopies
<1>9. mrs'[m] = saved /\ \A n \in MR \ {m} : mrs'[n] = mrs[n]
  BY <1>1, <1>3 DEF IInv, TypeOK
<1>10. ItemsAsked' /\ NumberedIsHeld'
  BY <1>1, <1>3, <1>4, <1>9 DEF IInv, ItemsAsked, NumberedIsHeld
<1>11. IssuedIsOnRecord'
  BY <1>3, <1>4, <1>5, <1>9 DEF IInv, IssuedIsOnRecord
<1> QED
  BY <1>7, <1>8, <1>10, <1>11 DEF IInv

LEMMA ReceiveKeeps ==
  ASSUME IInv, NEW r \in Request, Receive(r) PROVE IInv'
<1> DEFINE m == req[r].id
           row == req[r].mr
           saved == [row EXCEPT !.status = "RECEIVED"]
<1>1. /\ Serving(r, "receive") /\ mrs' = [mrs EXCEPT ![m] = saved]
      /\ order' = IF order = "WAITING_PARTS" THEN "IN_PROGRESS" ELSE order
      /\ UNCHANGED <<stock, issues, prs, pos, tx, sap>>
  BY DEF Receive, SaveMR
<1>2. req[r].op = "receive" /\ row \in MRRow
  BY CopyTypes DEF IInv, Receive, Serving
<1>3. m \in MR /\ row.items # {} /\ row.ready = row.items /\ issues[m] > 0
  BY <1>2 DEF IInv, CopiesOK, CopyOK, MRCopyOK
<1>4. /\ saved \in MRRow /\ saved.status = "RECEIVED" /\ saved.items = row.items
      /\ saved.ready = row.ready
  <2>1. saved \in MRRow
    BY <1>2, MRRows DEF MRStatus
  <2> QED
    BY <1>2, <2>1 DEF MRRow
<1> HIDE DEF m, row, saved
<1>5. mrs' \in [MR -> MRRow]
  BY <1>1, <1>4 DEF IInv, TypeOK
<1>6. TypeOK'
  BY <1>1, <1>5, ServedTypes DEF IInv, TypeOK, OrderStatus
<1>7. CopiesOK'
  BY <1>1, <1>6, ServedCopies
<1>8. mrs'[m] = saved /\ \A n \in MR \ {m} : mrs'[n] = mrs[n]
  BY <1>1, <1>3 DEF IInv, TypeOK
<1>9. ItemsAsked' /\ NumberedIsHeld'
  BY <1>1, <1>3, <1>4, <1>8 DEF IInv, ItemsAsked, NumberedIsHeld
<1>10. IssuedIsOnRecord'
  BY <1>1, <1>3, <1>4, <1>8 DEF IInv, IssuedIsOnRecord
<1> QED
  BY <1>6, <1>7, <1>9, <1>10 DEF IInv

\* The compatibility endpoint goes on to the decision, with the request as it is now.
LEMMA ApproveDecidesKeeps ==
  ASSUME IInv, NEW r \in Request, ApproveDecides(r) PROVE IInv'
<1> DEFINE m == req[r].id
           row == Applied(mrs[m], req[r].pick)
           s == [req[r] EXCEPT !.op = "decide", !.mr = row]
<1>1. req[r].op = "approve" /\ mrs[m].status = "REQUESTED"
  BY DEF ApproveDecides
<1>2. m \in MR /\ mrs[m] \in MRRow /\ mrs[m].items # {}
  <2>1. m \in MR
    BY <1>1 DEF IInv, CopiesOK, CopyOK, MRCopyOK
  <2> QED
    BY <1>1, <2>1 DEF IInv, TypeOK, ItemsAsked
<1>3. row \in MRRow
  BY <1>2, CopyTypes, MRRows DEF IInv
<1>4. row.items = mrs[m].items /\ row.ready = row.fromStock
  BY <1>2 DEF Applied, MRRow
<1>5. req' = [req EXCEPT ![r] = s] /\ UNCHANGED <<Tables, overlaps>>
  <2>1. req' = [req EXCEPT ![r].op = "decide", ![r].mr = row] /\ UNCHANGED <<Tables, overlaps>>
    BY DEF ApproveDecides
  <2> QED
    BY <2>1 DEF IInv, TypeOK
<1> HIDE DEF row
<1>6. s \in RequestState /\ s.op = "decide" /\ s.id = m /\ s.mr = row
  BY <1>3, CopyTypes DEF IInv, RequestState, Op, MaterialOp
<1> HIDE DEF s
<1>7. CopyOK(s)
  BY <1>2, <1>4, <1>6 DEF CopyOK, MRCopyOK, PRCopyOK, OrderCopyOK
<1>8. overlaps' \in 0 .. MaxOverlaps
  BY <1>5 DEF IInv, TypeOK
<1> QED
  BY <1>5, <1>6, <1>7, <1>8, LoadKeeps

--------------------------------------------------------------------------------
(* Purchase requisitions and purchase orders. *)

\* The steps that save nothing of a request.
LEMMA RequisitionKeeps ==
  ASSUME IInv, TypeOK', NEW r \in Request, NEW op, Serving(r, op),
         UNCHANGED <<stock, mrs, issues>>, NumberedIsHeld',
         \A p \in PR : sap[p] \subseteq sap'[p]
  PROVE  IInv'
<1>1. CopiesOK'
  BY ServedCopies
<1>2. ItemsAsked' /\ IssuedIsOnRecord'
  BY DEF IInv, ItemsAsked, IssuedIsOnRecord
<1> QED
  BY <1>1, <1>2 DEF IInv

LEMMA CreatePRKeeps ==
  ASSUME IInv, NEW r \in Request, CreatePR(r) PROVE IInv'
<1> DEFINE row == [NoPR EXCEPT !.status = "DRAFT"]
<1>1. PICK p \in PR : prs' = [prs EXCEPT ![p] = row]
  BY DEF CreatePR, SavePR
<1>2. row \in PRRow /\ ~row.number
  BY DEF NoPR, PRRow
<1>3. Serving(r, "createPR") /\ UNCHANGED <<order, stock, mrs, issues, pos, tx, sap>>
  BY DEF CreatePR
<1> HIDE DEF row
<1>4. prs' \in [PR -> PRRow] /\ \A q \in PR : prs'[q].number => prs[q].number
  BY <1>1, <1>2 DEF IInv, TypeOK
<1>5. TypeOK'
  BY <1>3, <1>4, ServedTypes DEF IInv, TypeOK
<1>6. NumberedIsHeld'
  BY <1>3, <1>4 DEF IInv, NumberedIsHeld
<1> QED
  BY <1>3, <1>5, <1>6, RequisitionKeeps

LEMMA AddLineKeeps ==
  ASSUME IInv, NEW r \in Request, AddLine(r) PROVE IInv'
<1> DEFINE p == req[r].id
           row == [req[r].pr EXCEPT !.lines = req[r].pr.lines \cup req[r].pick]
<1>1. /\ Serving(r, "addLine") /\ prs' = [prs EXCEPT ![p] = row]
      /\ UNCHANGED <<order, stock, mrs, issues, pos, tx, sap>>
  BY DEF AddLine, SavePR
<1>2. req[r].op = "addLine" /\ req[r].pr \in PRRow /\ req[r].pick \in SUBSET Line
  BY CopyTypes DEF IInv, AddLine, Serving
<1>3. p \in PR /\ (req[r].pr.number => sap[p] # {})
  BY <1>2 DEF IInv, CopiesOK, CopyOK, PRCopyOK
<1>4. row \in PRRow /\ row.number = req[r].pr.number
  BY <1>2 DEF PRRow
<1> HIDE DEF p, row
<1>5. prs' \in [PR -> PRRow] /\ prs'[p] = row /\ \A q \in PR \ {p} : prs'[q] = prs[q]
  BY <1>1, <1>3, <1>4 DEF IInv, TypeOK
<1>6. TypeOK'
  BY <1>1, <1>5, ServedTypes DEF IInv, TypeOK
<1>7. NumberedIsHeld'
  BY <1>1, <1>3, <1>4, <1>5 DEF IInv, NumberedIsHeld
<1> QED
  BY <1>1, <1>6, <1>7, RequisitionKeeps

\* The gateway's row after another attempt.
LEMMA AttemptTypes ==
  ASSUME NEW row \in TXRow, CanAttempt(row), NEW lines \in SUBSET Line,
         NEW st \in TXStatus \ {"NONE"}
  PROVE  /\ Attempt(row, lines, st) \in TXRow
         /\ Attempt(row, lines, st).status = st /\ Attempt(row, lines, st).payload = lines
<1>1. (IF row.status = "NONE" THEN 0 ELSE row.retry + 1) \in 0 .. MaxRetries
  BY BoundTypes DEF CanAttempt, CanRetry, TXRow
<1> QED
  BY <1>1 DEF Attempt, TXRow

\* SAP holds the requisition it has created, and what it held.
LEMMA CreatesTypes ==
  ASSUME TypeOK, NEW p \in PR, NEW lines \in SUBSET Line, SAPCreates(p, lines)
  PROVE  /\ sap' \in [PR -> SUBSET SUBSET Line] /\ sap'[p] # {}
         /\ \A q \in PR : sap[q] \subseteq sap'[q]
<1>1. sap' = [sap EXCEPT ![p] = sap[p] \cup {lines}]
  BY DEF SAPCreates
<1>2. sap \in [PR -> SUBSET SUBSET Line] /\ {lines} \in SUBSET SUBSET Line
  BY DEF TypeOK
<1>3. sap'[p] = sap[p] \cup {lines} /\ \A q \in PR \ {p} : sap'[q] = sap[q]
  BY <1>1, <1>2
<1>4. \A q \in PR : sap[q] \subseteq sap'[q]
  BY <1>3
<1> QED
  BY <1>1, <1>2, <1>3, <1>4

\* SAP may have created it: it holds at least what it held.
LEMMA MayCreateTypes ==
  ASSUME TypeOK, NEW p \in PR, NEW lines \in SUBSET Line, SAPMayCreate(p, lines)
  PROVE  /\ sap' \in [PR -> SUBSET SUBSET Line]
         /\ \A q \in PR : sap[q] \subseteq sap'[q]
<1>1. CASE SAPCreates(p, lines)
  BY <1>1, CreatesTypes
<1>2. CASE UNCHANGED sap
  BY <1>2 DEF TypeOK
<1> QED
  BY <1>1, <1>2 DEF SAPMayCreate

LEMMA SubmitAcceptedKeeps ==
  ASSUME IInv, NEW r \in Request, SubmitAccepted(r) PROVE IInv'
<1> DEFINE p == req[r].id
           k == <<p, req[r].key>>
           lines == req[r].pr.lines
           row == Submitted(req[r].pr)
           attempt == Attempt(tx[k], lines, "SUCCESS")
<1>1. /\ Serving(r, "submit") /\ prs' = [prs EXCEPT ![p] = row]
      /\ UNCHANGED <<order, stock, mrs, issues, pos>>
  BY DEF SubmitAccepted, SavePR
<1>2. \/ /\ CanAttempt(tx[k])
         /\ tx' = [tx EXCEPT ![k] = attempt] /\ SAPCreates(p, lines)
      \/ tx[k].status = "SUCCESS" /\ UNCHANGED <<tx, sap>>
  BY DEF SubmitAccepted
<1>3. req[r].op = "submit" /\ req[r].pr \in PRRow
  BY CopyTypes DEF IInv, SubmitAccepted, Serving
<1>4. p \in PR /\ req[r].key \in Key
  BY <1>3 DEF IInv, CopiesOK, CopyOK, PRCopyOK
<1>5. row \in PRRow /\ lines \in SUBSET Line
  BY <1>3 DEF Submitted, PRRow
<1>6. k \in PR \X Key /\ tx[k] \in TXRow
  BY <1>4 DEF IInv, TypeOK
<1>7. k = <<p, req[r].key>>
  OBVIOUS
<1> HIDE DEF p, k, lines, row
<1>8. /\ tx' \in [PR \X Key -> TXRow] /\ sap' \in [PR -> SUBSET SUBSET Line]
      /\ sap'[p] # {} /\ \A q \in PR : sap[q] \subseteq sap'[q]
      /\ \A j \in PR \X Key : tx'[j].status = "SUCCESS" => tx[j].status = "SUCCESS" \/ j = k
  <2>1. CASE tx[k].status = "SUCCESS" /\ UNCHANGED <<tx, sap>>
    <3>1. sap[p] # {}
      BY <1>4, <1>7, <2>1 DEF IInv, NumberedIsHeld
    <3> QED
      BY <2>1, <3>1 DEF IInv, TypeOK
  <2>2. CASE /\ CanAttempt(tx[k])
             /\ tx' = [tx EXCEPT ![k] = attempt] /\ SAPCreates(p, lines)
    <3>1. attempt \in TXRow
      BY <1>5, <1>6, <2>2, AttemptTypes DEF TXStatus
    <3> HIDE DEF attempt
    <3>2. tx' \in [PR \X Key -> TXRow] /\ \A j \in PR \X Key : j # k => tx'[j] = tx[j]
      BY <2>2, <3>1 DEF IInv, TypeOK
    <3>3. /\ sap' \in [PR -> SUBSET SUBSET Line] /\ sap'[p] # {}
          /\ \A q \in PR : sap[q] \subseteq sap'[q]
      BY <1>4, <1>5, <2>2, CreatesTypes DEF IInv
    <3> QED
      BY <3>2, <3>3
  <2> QED
    BY <1>2, <2>1, <2>2
<1>9. prs' \in [PR -> PRRow] /\ \A q \in PR \ {p} : prs'[q] = prs[q]
  BY <1>1, <1>5 DEF IInv, TypeOK
<1>10. TypeOK'
  BY <1>1, <1>8, <1>9, ServedTypes DEF IInv, TypeOK
<1>11. NumberedIsHeld'
  <2> SUFFICES ASSUME NEW q \in PR, sap'[q] = {}
               PROVE  /\ ~prs'[q].number /\ ~(pos'[q] > 0)
                      /\ \A key \in Key : tx'[<<q, key>>].status # "SUCCESS"
    BY DEF NumberedIsHeld
  <2>1. q # p /\ sap[q] = {}
    BY <1>8
  <2>2. ~prs'[q].number /\ ~(pos'[q] > 0)
    BY <1>1, <1>9, <2>1 DEF IInv, NumberedIsHeld
  <2>3. \A key \in Key : tx'[<<q, key>>].status # "SUCCESS"
    <3> SUFFICES ASSUME NEW key \in Key PROVE tx'[<<q, key>>].status # "SUCCESS"
      OBVIOUS
    <3>1. <<q, key>> \in PR \X Key /\ <<q, key>> # k
      BY <1>7, <2>1
    <3>2. tx[<<q, key>>].status # "SUCCESS"
      BY <2>1 DEF IInv, NumberedIsHeld
    <3> QED
      BY <1>8, <3>1, <3>2
  <2> QED
    BY <2>2, <2>3
<1> QED
  BY <1>1, <1>8, <1>10, <1>11, RequisitionKeeps

LEMMA SubmitRefusedKeeps ==
  ASSUME IInv, NEW r \in Request, SubmitRefused(r) PROVE IInv'
<1> DEFINE p == req[r].id
           k == <<p, req[r].key>>
           lines == req[r].pr.lines
<1>1. /\ Serving(r, "submit") /\ CanAttempt(tx[k]) /\ SAPMayCreate(p, lines)
      /\ UNCHANGED <<order, stock, mrs, issues, prs, pos>>
  BY DEF SubmitRefused
<1>2. PICK st \in {"FAILED", "UNNUMBERED"} : tx' = [tx EXCEPT ![k] = Attempt(tx[k], lines, st)]
  BY DEF SubmitRefused
<1>3. req[r].op = "submit" /\ req[r].pr \in PRRow /\ lines \in SUBSET Line
  BY CopyTypes DEF IInv, SubmitRefused, Serving, PRRow
<1>4. p \in PR /\ k \in PR \X Key /\ tx[k] \in TXRow
  BY <1>3 DEF IInv, TypeOK, CopiesOK, CopyOK, PRCopyOK
<1> DEFINE attempt == Attempt(tx[k], lines, st)
<1> HIDE DEF k, lines
<1>5. attempt \in TXRow /\ attempt.status # "SUCCESS"
  BY <1>1, <1>3, <1>4, AttemptTypes DEF TXStatus
<1>6. tx' = [tx EXCEPT ![k] = attempt]
  BY <1>2
<1> HIDE DEF attempt, p
<1>7. /\ tx' \in [PR \X Key -> TXRow]
      /\ \A j \in PR \X Key : tx'[j].status = "SUCCESS" => tx[j].status = "SUCCESS"
  BY <1>4, <1>5, <1>6 DEF IInv, TypeOK
<1>8. sap' \in [PR -> SUBSET SUBSET Line] /\ \A q \in PR : sap[q] \subseteq sap'[q]
  BY <1>1, <1>3, <1>4, MayCreateTypes DEF IInv
<1>9. TypeOK'
  BY <1>1, <1>7, <1>8, ServedTypes DEF IInv, TypeOK
<1>10. NumberedIsHeld'
  <2>1. \A q \in PR : (prs'[q].number \/ pos'[q] > 0) => sap'[q] # {}
    BY <1>1, <1>8 DEF IInv, NumberedIsHeld
  <2>2. ASSUME NEW q \in PR, NEW key \in Key, tx'[<<q, key>>].status = "SUCCESS"
        PROVE  sap'[q] # {}
    BY <1>7, <1>8, <2>2 DEF IInv, NumberedIsHeld
  <2> QED
    BY <2>1, <2>2 DEF NumberedIsHeld
<1> QED
  BY <1>1, <1>8, <1>9, <1>10, RequisitionKeeps

LEMMA SubmitLostKeeps ==
  ASSUME IInv, NEW r \in Request, SubmitLost(r) PROVE IInv'
<1>1. /\ Serving(r, "submit") /\ SAPCreates(req[r].id, req[r].pr.lines)
      /\ UNCHANGED <<order, stock, mrs, issues, prs, pos, tx>>
  BY DEF SubmitLost
<1>2. req[r].op = "submit" /\ req[r].pr.lines \in SUBSET Line
  BY <1>1, CopyTypes DEF IInv, Serving, PRRow
<1>3. req[r].id \in PR
  BY <1>2 DEF IInv, CopiesOK, CopyOK, PRCopyOK
<1>4. sap' \in [PR -> SUBSET SUBSET Line] /\ \A q \in PR : sap[q] \subseteq sap'[q]
  BY <1>1, <1>2, <1>3, CreatesTypes DEF IInv
<1>5. TypeOK'
  BY <1>1, <1>4, ServedTypes DEF IInv, TypeOK
<1>6. NumberedIsHeld'
  BY <1>1, <1>4 DEF IInv, NumberedIsHeld
<1> QED
  BY <1>1, <1>4, <1>5, <1>6, RequisitionKeeps

\* The order goes back to the status it was loaded with.
LEMMA SaveOrderKeeps ==
  ASSUME IInv, NEW r \in Request, SaveOrder(r) PROVE IInv'
<1>1. /\ Serving(r, "saveOrder") /\ order' = req[r].order
      /\ UNCHANGED <<stock, mrs, issues, prs, pos, tx, sap>>
  BY DEF SaveOrder
<1>2. req[r].order \in OrderStatus
  BY <1>1 DEF Serving, IInv, CopiesOK, CopyOK, OrderCopyOK
<1>3. TypeOK'
  BY <1>1, <1>2, ServedTypes DEF IInv, TypeOK
<1>4. NumberedIsHeld'
  BY <1>1 DEF IInv, NumberedIsHeld
<1> QED
  BY <1>1, <1>3, <1>4, RequisitionKeeps

LEMMA ReceivePOKeeps ==
  ASSUME IInv, NEW r \in Request, ReceivePO(r) PROVE IInv'
<1> DEFINE p == req[r].id
<1>1. /\ Serving(r, "receivePO") /\ pos[p] < MaxReceipts /\ pos' = [pos EXCEPT ![p] = @ + 1]
      /\ UNCHANGED <<order, stock, mrs, issues, prs, tx, sap>>
  BY DEF ReceivePO
<1>2. req[r].op = "receivePO"
  BY DEF ReceivePO, Serving
<1>3. p \in PR /\ sap[p] # {}
  BY <1>2 DEF IInv, CopiesOK, CopyOK, PRCopyOK
<1> HIDE DEF p
<1>4. pos \in [PR -> 0 .. MaxReceipts] /\ MaxReceipts \in Nat
  BY BoundTypes DEF IInv, TypeOK
<1>5. pos[p] + 1 \in 0 .. MaxReceipts
  BY <1>1, <1>3, <1>4
<1>6. pos' \in [PR -> 0 .. MaxReceipts] /\ \A q \in PR \ {p} : pos'[q] = pos[q]
  BY <1>1, <1>4, <1>5
<1>7. TypeOK'
  BY <1>1, <1>6, ServedTypes DEF IInv, TypeOK
<1>8. NumberedIsHeld'
  BY <1>1, <1>3, <1>6 DEF IInv, NumberedIsHeld
<1> QED
  BY <1>1, <1>7, <1>8, RequisitionKeeps

--------------------------------------------------------------------------------
(* The sweep, the stock and the cancelled order. *)

\* A worker's step beside the handlers.
LEMMA WorkerKeeps ==
  ASSUME IInv, TypeOK', UNCHANGED <<mrs, issues, req>>, NumberedIsHeld',
         \A p \in PR : sap[p] \subseteq sap'[p]
  PROVE  IInv'
<1>1. CopiesOK'
  <2> SUFFICES ASSUME NEW r \in Request PROVE CopyOK(req[r])'
    BY DEF CopiesOK
  <2>1. PICK t \in RequestState : t = req[r]
    BY DEF IInv, TypeOK
  <2>2. CopyOK(t)
    BY <2>1 DEF IInv, CopiesOK
  <2>3. CopyOK(t)'
    BY <2>2, CopyStays DEF IInv
  <2> QED
    BY <2>1, <2>3 DEF CopyOK, MRCopyOK, PRCopyOK, OrderCopyOK
<1>2. ItemsAsked' /\ IssuedIsOnRecord'
  BY DEF IInv, ItemsAsked, IssuedIsOnRecord
<1> QED
  BY <1>1, <1>2 DEF IInv

LEMMA RetryKeeps ==
  ASSUME IInv, NEW p \in PR, NEW key \in Key, NEW status \in TXStatus \ {"NONE"},
         RetryPurchaseRequisition(p, key, status)
  PROVE  IInv'
<1> DEFINE k == <<p, key>>
           row == [tx[k] EXCEPT !.status = status, !.retry = tx[k].retry + 1]
<1>1. /\ CanRetry(tx[k]) /\ Background
      /\ UNCHANGED <<order, stock, mrs, issues, prs, pos>>
      /\ status = "SUCCESS" => SAPCreates(p, tx[k].payload)
      /\ status # "SUCCESS" => SAPMayCreate(p, tx[k].payload)
  BY DEF RetryPurchaseRequisition
<1>2. k \in PR \X Key /\ tx[k] \in TXRow
  BY DEF IInv, TypeOK
<1>3. tx' = [tx EXCEPT ![k] = row]
  <2>1. tx' = [tx EXCEPT ![k].status = status, ![k].retry = @ + 1]
    BY DEF RetryPurchaseRequisition
  <2> QED
    BY <1>2, <2>1 DEF IInv, TypeOK
<1>4. row \in TXRow /\ row.status = status
  <2>1. tx[k].retry + 1 \in 0 .. MaxRetries
    BY <1>1, <1>2, BoundTypes DEF CanRetry, TXRow
  <2> QED
    BY <1>2, <2>1 DEF TXRow
<1>5. tx[k].payload \in SUBSET Line
  BY <1>2 DEF TXRow
<1>6. k = <<p, key>>
  OBVIOUS
<1> HIDE DEF k, row
<1>7. /\ tx' \in [PR \X Key -> TXRow] /\ tx'[k].status = status
      /\ \A j \in PR \X Key : j # k => tx'[j] = tx[j]
  BY <1>2, <1>3, <1>4 DEF IInv, TypeOK
<1>8. /\ sap' \in [PR -> SUBSET SUBSET Line] /\ \A q \in PR : sap[q] \subseteq sap'[q]
      /\ status = "SUCCESS" => sap'[p] # {}
  BY <1>1, <1>5, CreatesTypes, MayCreateTypes DEF IInv
<1>9. overlaps' \in 0 .. MaxOverlaps /\ UNCHANGED req
  BY <1>1, OverlappingOK DEF Background, IInv
<1>10. TypeOK'
  BY <1>1, <1>7, <1>8, <1>9 DEF IInv, TypeOK
<1>11. NumberedIsHeld'
  <2>1. \A q \in PR : (prs'[q].number \/ pos'[q] > 0) => sap'[q] # {}
    BY <1>1, <1>8 DEF IInv, NumberedIsHeld
  <2>2. ASSUME NEW q \in PR, NEW j \in Key, tx'[<<q, j>>].status = "SUCCESS" PROVE sap'[q] # {}
    <3>1. CASE <<q, j>> = k
      BY <1>6, <1>7, <1>8, <2>2, <3>1
    <3>2. CASE <<q, j>> # k
      <4>1. <<q, j>> \in PR \X Key
        OBVIOUS
      <4>2. tx[<<q, j>>].status = "SUCCESS"
        BY <1>7, <2>2, <3>2, <4>1
      <4> QED
        BY <1>8, <4>2 DEF IInv, NumberedIsHeld
    <3> QED
      BY <3>1, <3>2
  <2> QED
    BY <2>1, <2>2 DEF NumberedIsHeld
<1> QED
  BY <1>1, <1>8, <1>9, <1>10, <1>11, WorkerKeeps

LEMMA SyncStockRowKeeps ==
  ASSUME IInv, NEW n \in Number, NEW quantity \in 0 .. MaxStock, SyncStockRow(n, quantity)
  PROVE  IInv'
<1>1. /\ Background /\ UNCHANGED <<order, mrs, issues, prs, pos, tx, sap>>
      /\ stock' = [stock EXCEPT ![n] = [exists |-> TRUE, quantity |-> quantity]]
  BY DEF SyncStockRow
<1>2. stock' \in [Number -> StockRow]
  BY <1>1 DEF IInv, TypeOK, StockRow
<1>3. overlaps' \in 0 .. MaxOverlaps /\ UNCHANGED req
  BY <1>1, OverlappingOK DEF Background, IInv
<1>4. TypeOK'
  BY <1>1, <1>2, <1>3 DEF IInv, TypeOK
<1>5. NumberedIsHeld'
  BY <1>1 DEF IInv, NumberedIsHeld
<1> QED
  BY <1>1, <1>3, <1>4, <1>5, WorkerKeeps

LEMMA OrderCancelledKeeps ==
  ASSUME IInv, OrderCancelled PROVE IInv'
<1>1. /\ Background /\ order' = "CANCELLED"
      /\ UNCHANGED <<stock, mrs, issues, prs, pos, tx, sap>>
  BY DEF OrderCancelled
<1>2. overlaps' \in 0 .. MaxOverlaps /\ UNCHANGED req
  BY <1>1, OverlappingOK DEF Background, IInv
<1>3. TypeOK'
  BY <1>1, <1>2 DEF IInv, TypeOK, OrderStatus
<1>4. NumberedIsHeld'
  BY <1>1 DEF IInv, NumberedIsHeld
<1> QED
  BY <1>1, <1>2, <1>3, <1>4, WorkerKeeps

--------------------------------------------------------------------------------
(* Every step. *)

LEMMA LoadStepKeeps ==
  ASSUME IInv, NEW r \in Request, LoadStep(r) PROVE IInv'
<1>1. ASSUME Load(r, [Idle EXCEPT !.op = "create"]) \/ Load(r, [Idle EXCEPT !.op = "createPR"])
      PROVE  IInv'
  <2>1. PICK op \in {"create", "createPR"} : Load(r, [Idle EXCEPT !.op = op])
    BY <1>1
  <2> DEFINE s == [Idle EXCEPT !.op = op]
  <2>2. s \in RequestState /\ s.op = op
    BY RowTypes DEF RequestState, Op, MaterialOp, ProcurementOp
  <2>3. req' = [req EXCEPT ![r] = s] /\ UNCHANGED Tables /\ overlaps' \in 0 .. MaxOverlaps
    BY <2>1, OverlappingOK DEF Load, IInv
  <2> HIDE DEF s
  <2>4. CopyOK(s)
    BY <2>2 DEF CopyOK, MRCopyOK, PRCopyOK, OrderCopyOK
  <2> QED
    BY <2>2, <2>3, <2>4, LoadKeeps
<1>2. ASSUME NEW m \in MR, NEW fromStock \in SUBSET Line, LoadDecide(r, m, fromStock)
      PROVE  IInv'
  <2>1. mrs[m] \in MRRow /\ mrs[m].items # {}
    BY <1>2 DEF LoadDecide, IInv, TypeOK, ItemsAsked
  <2>2. Applied(mrs[m], fromStock) \in MRRow
    BY <2>1, MRRows
  <2>3. /\ Applied(mrs[m], fromStock).items = mrs[m].items
        /\ Applied(mrs[m], fromStock).ready = Applied(mrs[m], fromStock).fromStock
    BY <2>1 DEF Applied, MRRow
  <2>4. LoadMR(r, "decide", m, Applied(mrs[m], fromStock)) /\ "decide" \in MaterialOp
    BY <1>2 DEF LoadDecide, MaterialOp
  <2> QED
    BY <2>1, <2>2, <2>3, <2>4, LoadMRKeeps
<1>3. ASSUME NEW m \in MR, LoadApprove(r, m) PROVE IInv'
  <2> DEFINE pick == {l \in mrs[m].items : IsAvailable(l)}
             s == [Idle EXCEPT !.op = "approve", !.id = m, !.pick = pick]
  <2>1. pick \in SUBSET Line
    BY DEF IInv, TypeOK, MRRow
  <2>2. req' = [req EXCEPT ![r] = s] /\ UNCHANGED Tables /\ overlaps' \in 0 .. MaxOverlaps
    BY <1>3, OverlappingOK DEF LoadApprove, Load, IInv
  <2> HIDE DEF pick
  <2>3. s \in RequestState /\ s.op = "approve" /\ s.id = m
    BY <2>1, RowTypes, BoundTypes DEF RequestState, Op, MaterialOp
  <2> HIDE DEF s
  <2>4. CopyOK(s)
    BY <2>3 DEF CopyOK, MRCopyOK, PRCopyOK, OrderCopyOK
  <2> QED
    BY <2>2, <2>3, <2>4, LoadKeeps
<1>4. ASSUME NEW m \in MR, LoadIssue(r, m) \/ LoadReceive(r, m) PROVE IInv'
  <2>1. mrs[m] \in MRRow /\ mrs[m].items # {}
    BY <1>4 DEF LoadIssue, LoadReceive, IInv, TypeOK, ItemsAsked
  <2>2. CASE LoadIssue(r, m)
    BY <2>1, <2>2, LoadMRKeeps DEF LoadIssue, MaterialOp
  <2>3. CASE LoadReceive(r, m)
    <3>1. mrs[m].ready = mrs[m].items /\ issues[m] > 0
      BY <2>3 DEF LoadReceive, IInv, IssuedIsOnRecord
    <3>2. LoadMR(r, "receive", m, mrs[m]) /\ "receive" \in MaterialOp
      BY <2>3 DEF LoadReceive, MaterialOp
    <3> QED
      BY <2>1, <3>1, <3>2, LoadMRKeeps
  <2> QED
    BY <1>4, <2>2, <2>3
<1>5. ASSUME NEW p \in PR, NEW l \in ByHand, LoadAddLine(r, p, l) PROVE IInv'
  <2>1. {l} \in SUBSET Line /\ "none" \in Key \cup {"none"} /\ "addLine" \in ProcurementOp
    BY MaterialAssumption DEF ProcurementOp
  <2>2. LoadPR(r, "addLine", p, {l}, "none")
    BY <1>5 DEF LoadAddLine
  <2> QED
    BY <2>1, <2>2, LoadPRKeeps
<1>6. ASSUME NEW p \in PR, NEW key \in Key, LoadSubmit(r, p, key) PROVE IInv'
  <2> DEFINE none == {}
  <2>1. none \in SUBSET Line /\ "submit" \in ProcurementOp
    BY DEF ProcurementOp
  <2>2. LoadPR(r, "submit", p, none, key)
    BY <1>6 DEF LoadSubmit
  <2> HIDE DEF none
  <2> QED
    BY <2>1, <2>2, LoadPRKeeps
<1>7. ASSUME NEW p \in PR, LoadReceivePO(r, p) PROVE IInv'
  <2> DEFINE none == {}
  <2>1. none \in SUBSET Line /\ "none" \in Key \cup {"none"} /\ "receivePO" \in ProcurementOp
    BY DEF ProcurementOp
  <2>2. LoadPR(r, "receivePO", p, none, "none") /\ prs[p].number
    BY <1>7 DEF LoadReceivePO
  <2> HIDE DEF none
  <2> QED
    BY <2>1, <2>2, LoadPRKeeps
<1>8. LoadCreate(r) \/ LoadCreatePR(r) => IInv'
  BY <1>1 DEF LoadCreate, LoadCreatePR
<1>9. ASSUME LoadOrder(r) PROVE IInv'
  <2> DEFINE s == [Idle EXCEPT !.op = "saveOrder", !.order = order]
  <2>1. s \in RequestState /\ s.op = "saveOrder" /\ s.order \in OrderStatus
    BY RowTypes DEF RequestState, Op, IInv, TypeOK
  <2>2. req' = [req EXCEPT ![r] = s] /\ UNCHANGED Tables /\ overlaps' \in 0 .. MaxOverlaps
    BY <1>9, OverlappingOK DEF LoadOrder, Load, IInv
  <2> HIDE DEF s
  <2>3. CopyOK(s)
    BY <2>1 DEF CopyOK, MRCopyOK, PRCopyOK, OrderCopyOK
  <2> QED
    BY <2>1, <2>2, <2>3, LoadKeeps
<1> QED
  BY <1>2, <1>3, <1>4, <1>5, <1>6, <1>7, <1>8, <1>9, Zenon DEF LoadStep

LEMMA RollBackKeeps ==
  ASSUME IInv, NEW r \in Request, RollBack(r) PROVE IInv'
<1>1. req' = [req EXCEPT ![r] = Idle] /\ UNCHANGED Tables /\ overlaps' \in 0 .. MaxOverlaps
  BY DEF RollBack, IInv, TypeOK
<1> QED
  BY <1>1, IdleCopy, RowTypes, LoadKeeps

LEMMA NextIInv == IInv /\ [Next]_vars => IInv'
<1> SUFFICES ASSUME IInv, [Next]_vars PROVE IInv'
  OBVIOUS
<1>1. CASE UNCHANGED vars
  <2>1. TypeOK'
    BY <1>1 DEF IInv, TypeOK, vars
  <2>2. NumberedIsHeld'
    BY <1>1 DEF IInv, vars, NumberedIsHeld
  <2>3. UNCHANGED <<mrs, issues, req>> /\ \A p \in PR : sap[p] \subseteq sap'[p]
    BY <1>1 DEF vars
  <2> QED
    BY <2>1, <2>2, <2>3, WorkerKeeps
<1>2. ASSUME NEW r \in Request, HandlerStep(r) PROVE IInv'
  BY <1>2, CreateKeeps, ApproveDecidesKeeps, DecideKeeps, IssuePurchasedKeeps, ReceiveKeeps,
     CreatePRKeeps, AddLineKeeps, SubmitAcceptedKeeps, SubmitRefusedKeeps, SubmitLostKeeps,
     ReceivePOKeeps, SaveOrderKeeps
  DEF HandlerStep
<1>3. WorkerStep => IInv'
  BY RetryKeeps, SyncStockRowKeeps DEF WorkerStep
<1>4. CASE Next
  BY <1>2, <1>3, <1>4, LoadStepKeeps, RollBackKeeps, OrderCancelledKeeps DEF Next
<1> QED
  BY <1>1, <1>4

\* The invariant holds of every behaviour.
THEOREM Invariance == Spec => []IInv
BY InitIInv, NextIInv, PTL DEF Spec

\* Tables, loaded copies and counters stay in their types and bounds.
THEOREM TypeCorrect == Spec => []TypeOK
<1>1. IInv => TypeOK
  BY DEF IInv
<1> QED
  BY <1>1, Invariance, PTL

\* Parts said to be issued have a stock issue on record and are all READY, whichever
\* of two overlapping decisions is saved last (decide, issue).
THEOREM IssuedIsOnRecordHolds == Spec => []IssuedIsOnRecord
<1>1. IInv => IssuedIsOnRecord
  BY DEF IInv
<1> QED
  BY <1>1, Invariance, PTL

\* A purchase order is received only for a requisition SAP holds, although a stale
\* copy may have taken the number off the requisition again (receive_po).
THEOREM ReceiptFollowsDocumentHolds == Spec => []ReceiptFollowsDocument
<1>1. IInv => ReceiptFollowsDocument
  BY DEF IInv, NumberedIsHeld, ReceiptFollowsDocument
<1> QED
  BY <1>1, Invariance, PTL

--------------------------------------------------------------------------------
(* Executions in which nothing has overlapped: the inductive invariant. *)

AtMostOneBusy == \A q, r \in Request : Busy(q) /\ Busy(r) => q = r

\* What the one handler loaded is what the tables still say.  A decision writes the
\* request anew: it only has to be undecided still.
CopyCurrent(s) ==
  /\ s.op = "decide" => mrs[s.id].status = "REQUESTED"
  /\ s.op \in {"issue", "receive"} =>
       s.mr = mrs[s.id] /\ s.mr.status \notin {"NONE", "REQUESTED"}
  /\ s.op \in {"addLine", "submit"} => s.pr = prs[s.id]
  /\ s.op = "addLine" => s.pr.status = "DRAFT"
  /\ s.op = "saveOrder" => s.order = order

CopiesCurrent == \A r \in Request : CopyCurrent(req[r])

\* A requisition lists whatever the gateway stored of it and SAP was sent of it.
Listed(p) ==
  /\ prs[p].status = "NONE" => prs[p] = NoPR
  /\ \A key \in Key : tx[<<p, key>>].payload \subseteq prs[p].lines
  /\ \A d \in sap[p] : d \subseteq prs[p].lines

\* The lines a request has to buy, and the requisitions made for it.
ToBuy(m) == IF mrs[m].status \in {"NONE", "REQUESTED"} THEN {} ELSE Bought(mrs[m])

Own(m) == {p \in PR : prs[p].for = m}

Requisitioned(m) ==
  /\ ToBuy(m) = {} => Own(m) = {}
  /\ ToBuy(m) # {} =>
       \E p \in PR :
         /\ Own(m) = {p}
         /\ (\A l \in ToBuy(m) : ValidLine(l)) => ToBuy(m) \subseteq prs[p].lines

Undisturbed ==
  /\ AtMostOneBusy
  /\ CopiesCurrent
  /\ \A p \in PR : Listed(p)
  /\ \A m \in MR : Requisitioned(m)

AloneInv == overlaps = 0 => Undisturbed

--------------------------------------------------------------------------------
(* What a step with nothing beside it does to the parts of the invariant. *)

LEMMA InitAlone == Init => AloneInv
<1> SUFFICES ASSUME Init PROVE Undisturbed
  BY DEF AloneInv
<1>1. \A r \in Request : req[r] = Idle
  BY DEF Init
<1>2. \A m \in MR : mrs[m] = NoMR
  BY DEF Init
<1>3. \A p \in PR : prs[p] = NoPR /\ sap[p] = {} /\ \A key \in Key : tx[<<p, key>>] = NoTX
  BY DEF Init
<1>4. AtMostOneBusy /\ CopiesCurrent
  BY <1>1, RowTypes DEF AtMostOneBusy, Busy, CopiesCurrent, CopyCurrent
<1>5. \A p \in PR : Listed(p)
  BY <1>3 DEF Listed, NoPR, NoTX
<1>6. \A m \in MR : Requisitioned(m)
  <2> SUFFICES ASSUME NEW m \in MR PROVE Requisitioned(m)
    OBVIOUS
  <2>1. ToBuy(m) = {}
    BY <1>2 DEF ToBuy, NoMR
  <2>2. m # 0
    BY BoundTypes DEF MR
  <2>3. Own(m) = {}
    BY <1>3, <2>2 DEF Own, NoPR
  <2> QED
    BY <2>1, <2>3 DEF Requisitioned
<1> QED
  BY <1>4, <1>5, <1>6 DEF Undisturbed

\* A handler was loaded, or a worker ran, with nothing being served.
LEMMA OverlappingAlone ==
  ASSUME TypeOK, Overlapping, overlaps' = 0
  PROVE  overlaps = 0 /\ \A s \in Request : ~Busy(s)
BY BoundTypes DEF TypeOK, Overlapping

\* The only copy is the one just loaded.
LEMMA LoadAlone ==
  ASSUME TypeOK, Undisturbed, NEW r \in Request, NEW s, req' = [req EXCEPT ![r] = s],
         \A q \in Request : ~Busy(q), UNCHANGED Tables, CopyCurrent(s)
  PROVE  Undisturbed'
<1>1. \A q \in Request : q # r => req'[q] = req[q] /\ req'[q].op = "idle"
  BY DEF TypeOK, Busy
<1>2. req'[r] = s
  BY DEF TypeOK
<1>3. AtMostOneBusy'
  BY <1>1 DEF AtMostOneBusy, Busy
<1>4. CopiesCurrent'
  BY <1>1, <1>2 DEF CopiesCurrent, CopyCurrent, Tables
<1>5. \A p \in PR : Listed(p)'
  BY DEF Undisturbed, Listed, Tables
<1>6. \A m \in MR : Requisitioned(m)'
  BY DEF Undisturbed, Requisitioned, ToBuy, Own, Bought, Tables
<1> QED
  BY <1>3, <1>4, <1>5, <1>6 DEF Undisturbed

\* Once the only handler has answered, no copy is left.
LEMMA ServedAlone ==
  ASSUME TypeOK, Undisturbed, NEW r \in Request, Busy(r), req' = [req EXCEPT ![r] = Idle]
  PROVE  AtMostOneBusy' /\ CopiesCurrent'
<1>1. \A q \in Request : req'[q].op = "idle"
  BY RowTypes DEF TypeOK, Undisturbed, AtMostOneBusy, Busy
<1>2. AtMostOneBusy'
  BY <1>1 DEF AtMostOneBusy, Busy
<1>3. CopiesCurrent'
  BY <1>1 DEF CopiesCurrent, CopyCurrent
<1> QED
  BY <1>2, <1>3

\* No copy, no stale copy.
LEMMA NobodyCurrent ==
  ASSUME \A q \in Request : ~Busy(q), UNCHANGED req
  PROVE  AtMostOneBusy' /\ CopiesCurrent'
BY DEF AtMostOneBusy, CopiesCurrent, CopyCurrent, Busy

\* Lines are only added to a requisition, and SAP is sent nothing.
LEMMA ListedGrows ==
  ASSUME Undisturbed, UNCHANGED <<tx, sap>>,
         \A p \in PR : prs[p].lines \subseteq prs'[p].lines,
         \A p \in PR : prs'[p].status = "NONE" => prs'[p] = prs[p]
  PROVE  \A p \in PR : Listed(p)'
<1> SUFFICES ASSUME NEW p \in PR PROVE Listed(p)'
  OBVIOUS
<1>1. Listed(p)
  BY DEF Undisturbed
<1>2. prs[p].lines \subseteq prs'[p].lines /\ (prs'[p].status = "NONE" => prs'[p] = prs[p])
  OBVIOUS
<1> QED
  BY <1>1, <1>2 DEF Listed

\* What is bought and for whom stays, and lines are only added.
LEMMA RequisitionedGrows ==
  ASSUME Undisturbed, \A m \in MR : ToBuy(m)' = ToBuy(m),
         \A p \in PR : prs'[p].for = prs[p].for /\ prs[p].lines \subseteq prs'[p].lines
  PROVE  \A m \in MR : Requisitioned(m)'
<1> SUFFICES ASSUME NEW m \in MR PROVE Requisitioned(m)'
  OBVIOUS
<1>1. Requisitioned(m) /\ ToBuy(m)' = ToBuy(m)
  BY DEF Undisturbed
<1>2. Own(m)' = Own(m)
  BY DEF Own
<1>3. CASE ToBuy(m) = {}
  BY <1>1, <1>2, <1>3 DEF Requisitioned
<1>4. CASE ToBuy(m) # {}
  <2>1. PICK p \in PR :
          /\ Own(m) = {p}
          /\ (\A l \in ToBuy(m) : ValidLine(l)) => ToBuy(m) \subseteq prs[p].lines
    BY <1>1, <1>4 DEF Requisitioned
  <2>2. (\A l \in ToBuy(m)' : ValidLine(l)) => ToBuy(m)' \subseteq prs'[p].lines
    BY <1>1, <2>1
  <2> QED
    BY <1>1, <1>2, <1>4, <2>1, <2>2 DEF Requisitioned, ValidLine
<1> QED
  BY <1>3, <1>4

\* A new row of the table of requisitions.
LEMMA FreshRequisition ==
  ASSUME IInv, Undisturbed, NEW p \in PR, NextPR(p), NEW row \in PRRow, SavePR(p, row),
         row.status # "NONE"
  PROVE  /\ prs'[p] = row /\ prs[p] = NoPR /\ \A q \in PR \ {p} : prs'[q] = prs[q]
         /\ \A q \in PR : prs[q].lines \subseteq prs'[q].lines
         /\ \A q \in PR : prs'[q].status = "NONE" => prs'[q] = prs[q]
<1>1. prs'[p] = row /\ \A q \in PR \ {p} : prs'[q] = prs[q]
  BY DEF IInv, TypeOK, SavePR
<1>2. prs[p] = NoPR
  BY DEF Undisturbed, Listed, NextPR
<1> QED
  BY <1>1, <1>2 DEF NoPR

--------------------------------------------------------------------------------
(* Handlers with nothing beside them. *)

LEMMA LoadStepAlone ==
  ASSUME IInv, AloneInv, NEW r \in Request, LoadStep(r), overlaps' = 0
  PROVE  Undisturbed'
<1>1. ASSUME NEW s, Load(r, s), CopyCurrent(s) PROVE Undisturbed'
  <2>1. TypeOK /\ Overlapping /\ req' = [req EXCEPT ![r] = s] /\ UNCHANGED Tables
    BY <1>1 DEF Load, IInv
  <2>2. overlaps = 0 /\ \A q \in Request : ~Busy(q)
    BY <2>1, OverlappingAlone
  <2> QED
    BY <1>1, <2>1, <2>2, LoadAlone DEF AloneInv
<1>2. ASSUME NEW m \in MR, NEW op \in MaterialOp, NEW row \in MRRow, LoadMR(r, op, m, row),
             op = "decide" => mrs[m].status = "REQUESTED",
             op \in {"issue", "receive"} =>
               row = mrs[m] /\ row.status \notin {"NONE", "REQUESTED"}
      PROVE  Undisturbed'
  <2> DEFINE s == MRCopy(op, m, row)
  <2>0. Load(r, s)
    BY <1>2 DEF LoadMR, MRCopy
  <2>1. s.op = op /\ s.id = m /\ s.mr = row
    BY NewMRCopy
  <2> HIDE DEF s
  <2>2. s.op \notin {"addLine", "submit", "saveOrder"}
    BY <2>1 DEF MaterialOp
  <2>3. CopyCurrent(s)
    BY <1>2, <2>1, <2>2 DEF CopyCurrent
  <2> QED
    BY <1>1, <2>0, <2>3
<1>3. ASSUME NEW p \in PR, NEW op \in ProcurementOp, NEW pick \in SUBSET Line,
             NEW key \in Key \cup {"none"}, LoadPR(r, op, p, pick, key),
             op = "addLine" => prs[p].status = "DRAFT"
      PROVE  Undisturbed'
  <2> DEFINE s == PRCopy(op, p, prs[p], pick, key)
  <2>1. prs[p] \in PRRow
    BY DEF IInv, TypeOK
  <2>0. Load(r, s)
    BY <1>3 DEF LoadPR, PRCopy
  <2>2. s.op = op /\ s.id = p /\ s.pr = prs[p]
    BY <2>1, NewPRCopy
  <2> HIDE DEF s
  <2>3. s.op \notin {"decide", "issue", "receive", "saveOrder"}
    BY <2>2 DEF ProcurementOp
  <2>4. CopyCurrent(s)
    BY <1>3, <2>2, <2>3 DEF CopyCurrent
  <2> QED
    BY <1>1, <2>0, <2>4
<1>4. ASSUME LoadCreate(r) \/ LoadCreatePR(r) PROVE Undisturbed'
  <2>1. PICK op \in {"create", "createPR"} : Load(r, [Idle EXCEPT !.op = op])
    BY <1>4 DEF LoadCreate, LoadCreatePR
  <2> DEFINE s == [Idle EXCEPT !.op = op]
  <2>2. s.op = op
    BY RowTypes DEF RequestState
  <2>3. CopyCurrent(s)
    BY <2>2 DEF CopyCurrent
  <2> QED
    BY <1>1, <2>1, <2>3
<1>5. ASSUME NEW m \in MR, NEW fromStock \in SUBSET Line, LoadDecide(r, m, fromStock)
      PROVE  Undisturbed'
  <2>1. Applied(mrs[m], fromStock) \in MRRow
    BY MRRows DEF IInv, TypeOK
  <2>2. /\ LoadMR(r, "decide", m, Applied(mrs[m], fromStock)) /\ "decide" \in MaterialOp
        /\ mrs[m].status = "REQUESTED"
    BY <1>5 DEF LoadDecide, MaterialOp
  <2> QED
    BY <1>2, <2>1, <2>2
<1>6. ASSUME NEW m \in MR, LoadApprove(r, m) PROVE Undisturbed'
  <2> DEFINE pick == {l \in mrs[m].items : IsAvailable(l)}
             s == [Idle EXCEPT !.op = "approve", !.id = m, !.pick = pick]
  <2>1. Load(r, s)
    BY <1>6 DEF LoadApprove
  <2> HIDE DEF pick
  <2>2. s.op = "approve"
    BY RowTypes DEF RequestState
  <2> HIDE DEF s
  <2>3. CopyCurrent(s)
    BY <2>2 DEF CopyCurrent
  <2> QED
    BY <1>1, <2>1, <2>3
<1>7. ASSUME NEW m \in MR, LoadIssue(r, m) \/ LoadReceive(r, m) PROVE Undisturbed'
  <2>1. mrs[m] \in MRRow /\ {"issue", "receive"} \subseteq MaterialOp
    BY DEF IInv, TypeOK, MaterialOp
  <2>2. mrs[m].status \notin {"NONE", "REQUESTED"}
    BY <1>7 DEF LoadIssue, LoadReceive
  <2> QED
    BY <1>2, <1>7, <2>1, <2>2 DEF LoadIssue, LoadReceive
<1>8. ASSUME NEW p \in PR, NEW l \in ByHand, LoadAddLine(r, p, l) PROVE Undisturbed'
  <2>1. {l} \in SUBSET Line /\ "none" \in Key \cup {"none"} /\ "addLine" \in ProcurementOp
    BY MaterialAssumption DEF ProcurementOp
  <2>2. LoadPR(r, "addLine", p, {l}, "none") /\ prs[p].status = "DRAFT"
    BY <1>8 DEF LoadAddLine
  <2> QED
    BY <1>3, <2>1, <2>2
<1>9. ASSUME NEW p \in PR, NEW key \in Key \cup {"none"}, NEW op \in {"submit", "receivePO"},
             LoadPR(r, op, p, {}, key)
      PROVE  Undisturbed'
  <2> DEFINE none == {}
  <2>1. none \in SUBSET Line /\ op \in ProcurementOp /\ LoadPR(r, op, p, none, key)
    BY <1>9 DEF ProcurementOp
  <2> HIDE DEF none
  <2> QED
    BY <1>3, <2>1
<1>10. ASSUME NEW p \in PR, NEW key \in Key, LoadSubmit(r, p, key) PROVE Undisturbed'
  BY <1>9, <1>10 DEF LoadSubmit
<1>11. ASSUME NEW p \in PR, LoadReceivePO(r, p) PROVE Undisturbed'
  BY <1>9, <1>11 DEF LoadReceivePO
<1>12. ASSUME LoadOrder(r) PROVE Undisturbed'
  <2> DEFINE s == [Idle EXCEPT !.op = "saveOrder", !.order = order]
  <2>1. s.op = "saveOrder" /\ s.order = order
    BY RowTypes DEF RequestState
  <2>2. Load(r, s)
    BY <1>12 DEF LoadOrder
  <2> HIDE DEF s
  <2>3. CopyCurrent(s)
    BY <2>1 DEF CopyCurrent
  <2> QED
    BY <1>1, <2>2, <2>3
<1> QED
  BY <1>4, <1>5, <1>6, <1>7, <1>8, <1>10, <1>11, <1>12, Zenon DEF LoadStep

\* Nothing a request has to buy, or that was bought, is touched by its creation.
LEMMA CreateAlone ==
  ASSUME IInv, Undisturbed, NEW r \in Request, Create(r) PROVE Undisturbed'
<1>1. PICK m \in MR, items \in ItemLists :
        NextMR(m) /\ SaveMR(m, [NoMR EXCEPT !.status = "REQUESTED", !.items = items])
  BY DEF Create
<1>2. Serving(r, "create") /\ UNCHANGED <<stock, issues, prs, pos, tx, sap>>
  BY DEF Create
<1> DEFINE row == [NoMR EXCEPT !.status = "REQUESTED", !.items = items]
<1>3. row.status = "REQUESTED"
  BY DEF NoMR
<1> HIDE DEF row
<1>4. mrs'[m] = row /\ mrs[m].status = "NONE" /\ \A n \in MR \ {m} : mrs'[n] = mrs[n]
  BY <1>1 DEF SaveMR, row, NextMR, IInv, TypeOK
<1>5. \A n \in MR : ToBuy(n)' = ToBuy(n)
  BY <1>3, <1>4 DEF ToBuy, Bought
<1>6. \A n \in MR : Requisitioned(n)'
  BY <1>2, <1>5, RequisitionedGrows
<1>7. \A p \in PR : Listed(p)'
  BY <1>2, ListedGrows
<1>8. AtMostOneBusy' /\ CopiesCurrent'
  BY <1>2, ServedAlone DEF IInv, Serving, Busy
<1> QED
  BY <1>6, <1>7, <1>8 DEF Undisturbed

LEMMA ApproveDecidesAlone ==
  ASSUME IInv, Undisturbed, NEW r \in Request, ApproveDecides(r) PROVE Undisturbed'
<1>1. /\ Busy(r) /\ mrs[req[r].id].status = "REQUESTED" /\ UNCHANGED <<Tables, overlaps>>
      /\ req' = [req EXCEPT ![r].op = "decide", ![r].mr = Applied(mrs[req[r].id], req[r].pick)]
  BY DEF ApproveDecides, Busy
<1>2. /\ \A q \in Request : q # r => req'[q] = req[q] /\ req[q].op = "idle"
      /\ req'[r].op = "decide" /\ req'[r].id = req[r].id
  BY <1>1 DEF IInv, TypeOK, RequestState, Undisturbed, AtMostOneBusy, Busy
<1>3. AtMostOneBusy'
  BY <1>2 DEF AtMostOneBusy, Busy
<1>4. CopiesCurrent'
  BY <1>1, <1>2 DEF CopiesCurrent, CopyCurrent, Tables
<1>5. \A p \in PR : Listed(p)'
  BY <1>1 DEF Undisturbed, Listed, Tables
<1>6. \A m \in MR : Requisitioned(m)'
  BY <1>1 DEF Undisturbed, Requisitioned, ToBuy, Own, Bought, Tables
<1> QED
  BY <1>3, <1>4, <1>5, <1>6 DEF Undisturbed

\* A request that had nothing on order gets the one requisition of what it has to buy.
LEMMA DecideAlone ==
  ASSUME IInv, Undisturbed, NEW r \in Request, Decide(r) PROVE Undisturbed'
<1> PICK m : m = req[r].id
  OBVIOUS
<1> DEFINE row == req[r].mr
           saved == [row EXCEPT !.status = Header(row)]
<1>1. /\ Serving(r, "decide") /\ mrs' = [mrs EXCEPT ![m] = saved]
      /\ UNCHANGED <<order, stock, pos, tx, sap>>
  BY DEF Decide, SaveMR
<1>2. req[r].op = "decide" /\ row \in MRRow
  BY CopyTypes DEF IInv, Decide, Serving
<1>3. m \in MR /\ mrs[m].status = "REQUESTED"
  BY <1>2 DEF IInv, CopiesOK, CopyOK, MRCopyOK, Undisturbed, CopiesCurrent, CopyCurrent
<1>4. Bought(row) \in SUBSET Line
  BY <1>2 DEF Bought, MRRow
<1>5. saved.status \notin {"NONE", "REQUESTED"} /\ Bought(saved) = Bought(row)
  <2>1. Header(row) \notin {"NONE", "REQUESTED"}
    BY <1>2, HeaderTypes
  <2> QED
    BY <1>2, <2>1 DEF MRRow, Bought
<1>6. \/ Bought(row) = {} /\ UNCHANGED prs
      \/ /\ Bought(row) # {}
         /\ \E p \in PR, lines \in SUBSET Bought(row) :
              /\ NextPR(p)
              /\ (\A l \in Bought(row) : ValidLine(l)) => lines = Bought(row)
              /\ SavePR(p, [NoPR EXCEPT !.status = "DRAFT", !.for = m, !.lines = lines])
  BY DEF Decide, PurchaseLines
<1> HIDE DEF row, saved
<1>7. mrs'[m] = saved /\ \A n \in MR \ {m} : mrs'[n] = mrs[n]
  BY <1>1, <1>3 DEF IInv, TypeOK
<1>8. ToBuy(m)' = Bought(row) /\ \A n \in MR \ {m} : ToBuy(n)' = ToBuy(n)
  BY <1>5, <1>7 DEF ToBuy, Bought
<1>9. ToBuy(m) = {} /\ Own(m) = {} /\ \A n \in MR : Requisitioned(n)
  BY <1>3 DEF Undisturbed, Requisitioned, ToBuy
<1>10. AtMostOneBusy' /\ CopiesCurrent'
  BY <1>1, <1>2, ServedAlone DEF IInv, Serving, Busy
<1>11. CASE Bought(row) = {} /\ UNCHANGED prs
  <2>1. \A n \in MR : ToBuy(n)' = ToBuy(n)
    BY <1>8, <1>9, <1>11
  <2>2. \A n \in MR : Requisitioned(n)'
    BY <1>11, <2>1, RequisitionedGrows
  <2>3. \A p \in PR : Listed(p)'
    BY <1>1, <1>11, ListedGrows
  <2> QED
    BY <1>10, <2>2, <2>3 DEF Undisturbed
<1>12. ASSUME Bought(row) # {}, NEW p \in PR, NEW lines \in SUBSET Bought(row), NextPR(p),
              (\A l \in Bought(row) : ValidLine(l)) => lines = Bought(row),
              SavePR(p, [NoPR EXCEPT !.status = "DRAFT", !.for = m, !.lines = lines])
       PROVE  Undisturbed'
  <2> DEFINE draft == [NoPR EXCEPT !.status = "DRAFT", !.for = m, !.lines = lines]
  <2>1. draft \in PRRow /\ draft.status = "DRAFT" /\ draft.for = m /\ draft.lines = lines
    BY <1>3, <1>4 DEF PRRow, NoPR
  <2>2. SavePR(p, draft)
    BY <1>12
  <2> HIDE DEF draft
  <2>3. /\ prs'[p] = draft /\ prs[p] = NoPR /\ \A q \in PR \ {p} : prs'[q] = prs[q]
        /\ \A q \in PR : prs[q].lines \subseteq prs'[q].lines
        /\ \A q \in PR : prs'[q].status = "NONE" => prs'[q] = prs[q]
    BY <1>12, <2>1, <2>2, FreshRequisition
  <2>4. \A q \in PR : Listed(q)'
    BY <1>1, <2>3, ListedGrows
  <2>5. Requisitioned(m)'
    <3>1. Own(m)' = {p}
      BY <1>9, <2>1, <2>3 DEF Own
    <3>2. (\A l \in Bought(row) : ValidLine(l)) => Bought(row) \subseteq prs'[p].lines
      BY <1>12, <2>1, <2>3
    <3> QED
      BY <1>8, <1>12, <3>1, <3>2 DEF Requisitioned, ValidLine
  <2>6. ASSUME NEW n \in MR \ {m} PROVE Requisitioned(n)'
    <3>1. p \notin Own(n) /\ Own(n)' = Own(n)
      <4>1. prs[p].for = 0 /\ n # 0 /\ prs'[p].for = m
        BY <2>1, <2>3, BoundTypes DEF MR, NoPR
      <4> QED
        BY <2>3, <4>1 DEF Own
    <3>2. ToBuy(n)' = ToBuy(n) /\ Requisitioned(n)
      BY <1>8, <1>9
    <3>3. CASE ToBuy(n) = {}
      BY <3>1, <3>2, <3>3 DEF Requisitioned
    <3>4. CASE ToBuy(n) # {}
      <4>1. PICK q \in PR :
              /\ Own(n) = {q}
              /\ (\A l \in ToBuy(n) : ValidLine(l)) => ToBuy(n) \subseteq prs[q].lines
        BY <3>2, <3>4 DEF Requisitioned
      <4>2. prs'[q] = prs[q]
        BY <2>3, <3>1, <4>1
      <4> QED
        BY <3>1, <3>2, <3>4, <4>1, <4>2 DEF Requisitioned, ValidLine
    <3> QED
      BY <3>3, <3>4
  <2> QED
    BY <1>10, <2>4, <2>5, <2>6 DEF Undisturbed
<1> QED
  BY <1>6, <1>11, <1>12

\* The two steps that save a decided request leave what it buys as it was.
LEMMA DecidedAlone ==
  ASSUME IInv, Undisturbed, NEW r \in Request, IssuePurchased(r) \/ Receive(r)
  PROVE  Undisturbed'
<1> DEFINE m == req[r].id
           row == req[r].mr
<1>1. PICK saved \in {[row EXCEPT !.status = "STOCK_ISSUED", !.ready = row.items],
                      [row EXCEPT !.status = "RECEIVED"]} :
        mrs' = [mrs EXCEPT ![m] = saved]
  BY DEF IssuePurchased, Receive, SaveMR
<1>2. /\ req[r].op \in {"issue", "receive"} /\ req' = [req EXCEPT ![r] = Idle]
      /\ UNCHANGED <<prs, tx, sap>>
  BY DEF IssuePurchased, Receive, Serving
<1>3. m \in MR /\ row = mrs[m] /\ row.status \notin {"NONE", "REQUESTED"} /\ row \in MRRow
  BY <1>2, CopyTypes
  DEF IInv, CopiesOK, CopyOK, MRCopyOK, Undisturbed, CopiesCurrent, CopyCurrent
<1>4. /\ saved.status \notin {"NONE", "REQUESTED"}
      /\ saved.items = row.items /\ saved.fromStock = row.fromStock
  BY <1>1, <1>3 DEF MRRow
<1> HIDE DEF m, row
<1>5. mrs'[m] = saved /\ \A n \in MR \ {m} : mrs'[n] = mrs[n]
  BY <1>1, <1>3 DEF IInv, TypeOK
<1>6. \A n \in MR : ToBuy(n)' = ToBuy(n)
  BY <1>3, <1>4, <1>5 DEF ToBuy, Bought
<1>7. \A n \in MR : Requisitioned(n)'
  BY <1>2, <1>6, RequisitionedGrows
<1>8. \A p \in PR : Listed(p)'
  BY <1>2, ListedGrows
<1>9. AtMostOneBusy' /\ CopiesCurrent'
  BY <1>2, ServedAlone DEF IInv, Busy
<1> QED
  BY <1>7, <1>8, <1>9 DEF Undisturbed

LEMMA CreatePRAlone ==
  ASSUME IInv, Undisturbed, NEW r \in Request, CreatePR(r) PROVE Undisturbed'
<1> DEFINE row == [NoPR EXCEPT !.status = "DRAFT"]
<1>1. PICK p \in PR : NextPR(p) /\ SavePR(p, row)
  BY DEF CreatePR
<1>2. row \in PRRow /\ row.status = "DRAFT" /\ row.for = 0
  BY DEF NoPR, PRRow
<1>3. Serving(r, "createPR") /\ UNCHANGED <<mrs, tx, sap>>
  BY DEF CreatePR
<1> HIDE DEF row
<1>4. /\ prs'[p] = row /\ prs[p] = NoPR /\ \A q \in PR \ {p} : prs'[q] = prs[q]
      /\ \A q \in PR : prs[q].lines \subseteq prs'[q].lines
      /\ \A q \in PR : prs'[q].status = "NONE" => prs'[q] = prs[q]
  BY <1>1, <1>2, FreshRequisition
<1>5. \A q \in PR : prs'[q].for = prs[q].for
  BY <1>2, <1>4 DEF NoPR
<1>6. \A m \in MR : ToBuy(m)' = ToBuy(m)
  BY <1>3 DEF ToBuy, Bought
<1>7. \A m \in MR : Requisitioned(m)'
  BY <1>4, <1>5, <1>6, RequisitionedGrows
<1>8. \A q \in PR : Listed(q)'
  BY <1>3, <1>4, ListedGrows
<1>9. AtMostOneBusy' /\ CopiesCurrent'
  BY <1>3, ServedAlone DEF IInv, Serving, Busy
<1> QED
  BY <1>7, <1>8, <1>9 DEF Undisturbed

LEMMA AddLineAlone ==
  ASSUME IInv, Undisturbed, NEW r \in Request, AddLine(r) PROVE Undisturbed'
<1> DEFINE p == req[r].id
           row == [req[r].pr EXCEPT !.lines = req[r].pr.lines \cup req[r].pick]
<1>1. Serving(r, "addLine") /\ prs' = [prs EXCEPT ![p] = row] /\ UNCHANGED <<mrs, tx, sap>>
  BY DEF AddLine, SavePR
<1>2. req[r].op = "addLine" /\ req[r].pr \in PRRow
  BY <1>1, CopyTypes DEF IInv, Serving
<1>3. p \in PR /\ req[r].pr = prs[p] /\ req[r].pr.status = "DRAFT"
  BY <1>2 DEF IInv, CopiesOK, CopyOK, PRCopyOK, Undisturbed, CopiesCurrent, CopyCurrent
<1>4. row.status = "DRAFT" /\ row.for = prs[p].for /\ prs[p].lines \subseteq row.lines
  BY <1>2, <1>3 DEF PRRow
<1> HIDE DEF p, row
<1>5. prs'[p] = row /\ \A q \in PR \ {p} : prs'[q] = prs[q]
  BY <1>1, <1>3 DEF IInv, TypeOK
<1>6. /\ \A q \in PR : prs'[q].for = prs[q].for /\ prs[q].lines \subseteq prs'[q].lines
      /\ \A q \in PR : prs'[q].status = "NONE" => prs'[q] = prs[q]
  BY <1>4, <1>5
<1>7. \A m \in MR : ToBuy(m)' = ToBuy(m)
  BY <1>1 DEF ToBuy, Bought
<1>8. \A m \in MR : Requisitioned(m)'
  BY <1>6, <1>7, RequisitionedGrows
<1>9. \A q \in PR : Listed(q)'
  BY <1>1, <1>6, ListedGrows
<1>10. AtMostOneBusy' /\ CopiesCurrent'
  BY <1>1, ServedAlone DEF IInv, Serving, Busy
<1> QED
  BY <1>8, <1>9, <1>10 DEF Undisturbed

\* A submission sends, and stores, lines the requisition lists.
LEMMA SubmittedListed ==
  ASSUME IInv, Undisturbed, NEW r \in Request, NEW st, Serving(r, "submit"),
         LET k == <<req[r].id, req[r].key>> IN
         tx' = [tx EXCEPT ![k] = Attempt(tx[k], req[r].pr.lines, st)] \/ UNCHANGED tx,
         SAPCreates(req[r].id, req[r].pr.lines) \/ UNCHANGED sap,
         \A p \in PR : prs'[p].lines = prs[p].lines,
         \A p \in PR : prs'[p].status = "NONE" => prs'[p] = prs[p]
  PROVE  \A p \in PR : Listed(p)'
<1> DEFINE i == req[r].id
           j == req[r].key
           lines == req[r].pr.lines
<1>1. req[r].op = "submit" /\ req[r].pr \in PRRow
  BY CopyTypes DEF IInv, Serving
<1>2. i \in PR /\ j \in Key /\ lines = prs[i].lines /\ lines \in SUBSET Line
  BY <1>1
  DEF IInv, CopiesOK, CopyOK, PRCopyOK, Undisturbed, CopiesCurrent, CopyCurrent, PRRow
<1>4. \A p \in PR, key \in Key :
        tx'[<<p, key>>].payload = tx[<<p, key>>].payload
        \/ (p = i /\ tx'[<<p, key>>].payload = lines)
  <2> SUFFICES ASSUME NEW p \in PR, NEW key \in Key
               PROVE  tx'[<<p, key>>].payload = tx[<<p, key>>].payload
                      \/ (p = i /\ tx'[<<p, key>>].payload = lines)
    OBVIOUS
  <2>1. CASE UNCHANGED tx
    BY <2>1
  <2>2. CASE tx' = [tx EXCEPT ![<<i, j>>] = Attempt(tx[<<i, j>>], lines, st)]
    <3> DEFINE attempt == Attempt(tx[<<i, j>>], lines, st)
    <3>1. attempt.payload = lines
      BY DEF Attempt
    <3> HIDE DEF attempt
    <3>2. <<p, key>> \in PR \X Key /\ tx' = [tx EXCEPT ![<<i, j>>] = attempt]
      BY <2>2 DEF attempt
    <3>3. CASE <<p, key>> = <<i, j>>
      <4>1. p = i /\ tx'[<<p, key>>] = attempt
        BY <3>2, <3>3 DEF IInv, TypeOK
      <4> QED
        BY <3>1, <3>3, <4>1
    <3>4. CASE <<p, key>> # <<i, j>>
      BY <3>2, <3>4 DEF IInv, TypeOK
    <3> QED
      BY <3>3, <3>4
  <2> QED
    BY <2>1, <2>2
<1>5. \A p \in PR : \A d \in sap'[p] : d \in sap[p] \/ (p = i /\ d = lines)
  <2>1. CASE UNCHANGED sap
    BY <2>1
  <2>2. CASE SAPCreates(i, lines)
    BY <1>2, <2>2 DEF SAPCreates, IInv, TypeOK
  <2> QED
    BY <2>1, <2>2
<1> HIDE DEF i, j, lines
<1> SUFFICES ASSUME NEW p \in PR PROVE Listed(p)'
  OBVIOUS
<1>6. Listed(p)
  BY DEF Undisturbed
<1>7. prs'[p].lines = prs[p].lines /\ (prs'[p].status = "NONE" => prs'[p] = prs[p])
  OBVIOUS
<1>8. \A key \in Key : tx'[<<p, key>>].payload \subseteq prs'[p].lines
  BY <1>2, <1>4, <1>6, <1>7 DEF Listed
<1>9. \A d \in sap'[p] : d \subseteq prs'[p].lines
  BY <1>2, <1>5, <1>6, <1>7 DEF Listed
<1> QED
  BY <1>6, <1>7, <1>8, <1>9 DEF Listed

LEMMA SubmitAcceptedAlone ==
  ASSUME IInv, Undisturbed, NEW r \in Request, SubmitAccepted(r) PROVE Undisturbed'
<1> DEFINE p == req[r].id
           row == Submitted(req[r].pr)
<1>1. Serving(r, "submit") /\ prs' = [prs EXCEPT ![p] = row] /\ UNCHANGED mrs
  BY DEF SubmitAccepted, SavePR
<1>2. req[r].op = "submit" /\ req[r].pr \in PRRow
  BY <1>1, CopyTypes DEF IInv, Serving
<1>3. p \in PR /\ req[r].pr = prs[p]
  BY <1>2 DEF IInv, CopiesOK, CopyOK, PRCopyOK, Undisturbed, CopiesCurrent, CopyCurrent
<1>4. row.status = "SUBMITTED" /\ row.for = prs[p].for /\ row.lines = prs[p].lines
  BY <1>2, <1>3 DEF PRRow, Submitted
<1>5. /\ LET k == <<req[r].id, req[r].key>> IN
         \/ tx' = [tx EXCEPT ![k] = Attempt(tx[k], req[r].pr.lines, "SUCCESS")]
         \/ UNCHANGED tx
      /\ SAPCreates(req[r].id, req[r].pr.lines) \/ UNCHANGED sap
  BY DEF SubmitAccepted
<1> HIDE DEF row
<1>6. prs'[p] = row /\ \A q \in PR \ {p} : prs'[q] = prs[q]
  BY <1>1, <1>3 DEF IInv, TypeOK
<1>7. /\ \A q \in PR : prs'[q].for = prs[q].for /\ prs'[q].lines = prs[q].lines
      /\ \A q \in PR : prs'[q].status = "NONE" => prs'[q] = prs[q]
  BY <1>4, <1>6
<1>8. \A q \in PR : Listed(q)'
  BY <1>1, <1>5, <1>7, SubmittedListed
<1>9. \A m \in MR : ToBuy(m)' = ToBuy(m)
  BY <1>1 DEF ToBuy, Bought
<1>10. \A m \in MR : Requisitioned(m)'
  BY <1>7, <1>9, RequisitionedGrows
<1>11. AtMostOneBusy' /\ CopiesCurrent'
  BY <1>1, ServedAlone DEF IInv, Serving, Busy
<1> QED
  BY <1>8, <1>10, <1>11 DEF Undisturbed

\* A submission that does not reach the requisition.
LEMMA SubmitFailedAlone ==
  ASSUME IInv, Undisturbed, NEW r \in Request, SubmitRefused(r) \/ SubmitLost(r)
  PROVE  Undisturbed'
<1>1. Serving(r, "submit") /\ UNCHANGED <<mrs, prs>>
  BY DEF SubmitRefused, SubmitLost
<1>2. SAPCreates(req[r].id, req[r].pr.lines) \/ UNCHANGED sap
  BY DEF SubmitRefused, SubmitLost, SAPMayCreate
<1>3. \A q \in PR : Listed(q)'
  <2>1. CASE SubmitRefused(r)
    <3>1. PICK st \in {"FAILED", "UNNUMBERED"} :
            LET k == <<req[r].id, req[r].key>> IN
            tx' = [tx EXCEPT ![k] = Attempt(tx[k], req[r].pr.lines, st)]
      BY <2>1 DEF SubmitRefused
    <3> QED
      BY <1>1, <1>2, <3>1, SubmittedListed
  <2>2. CASE SubmitLost(r)
    <3>1. UNCHANGED tx
      BY <2>2 DEF SubmitLost
    <3> QED
      BY <1>1, <1>2, <3>1, SubmittedListed
  <2> QED
    BY <2>1, <2>2
<1>4. \A m \in MR : ToBuy(m)' = ToBuy(m)
  BY <1>1 DEF ToBuy, Bought
<1>5. \A m \in MR : Requisitioned(m)'
  BY <1>1, <1>4, RequisitionedGrows
<1>6. AtMostOneBusy' /\ CopiesCurrent'
  BY <1>1, ServedAlone DEF IInv, Serving, Busy
<1> QED
  BY <1>3, <1>5, <1>6 DEF Undisturbed

\* The answers that write none of these tables.
LEMMA AnsweredAlone ==
  ASSUME IInv, Undisturbed, NEW r \in Request,
         ReceivePO(r) \/ RollBack(r) \/ SaveOrder(r)
  PROVE  Undisturbed'
<1>1. Busy(r) /\ req' = [req EXCEPT ![r] = Idle] /\ UNCHANGED <<mrs, prs, tx, sap>>
  BY DEF ReceivePO, RollBack, SaveOrder, Serving, Busy, Tables
<1>2. \A q \in PR : Listed(q)'
  BY <1>1, ListedGrows
<1>3. \A m \in MR : ToBuy(m)' = ToBuy(m)
  BY <1>1 DEF ToBuy, Bought
<1>4. \A m \in MR : Requisitioned(m)'
  BY <1>1, <1>3, RequisitionedGrows
<1>5. AtMostOneBusy' /\ CopiesCurrent'
  BY <1>1, ServedAlone DEF IInv
<1> QED
  BY <1>2, <1>4, <1>5 DEF Undisturbed

--------------------------------------------------------------------------------
(* Workers with no handler beside them, and every step. *)

LEMMA WorkerStepAlone ==
  ASSUME IInv, AloneInv, WorkerStep \/ OrderCancelled, overlaps' = 0
  PROVE  Undisturbed'
<1>1. Background /\ UNCHANGED <<mrs, prs>>
  BY DEF WorkerStep, RetryPurchaseRequisition, SyncStockRow, OrderCancelled
<1>2. overlaps = 0 /\ Undisturbed /\ UNCHANGED req /\ \A q \in Request : ~Busy(q)
  BY <1>1, OverlappingAlone DEF Background, AloneInv, IInv
<1>3. AtMostOneBusy' /\ CopiesCurrent'
  BY <1>2, NobodyCurrent
<1>4. \A m \in MR : ToBuy(m)' = ToBuy(m)
  BY <1>1 DEF ToBuy, Bought
<1>5. \A m \in MR : Requisitioned(m)'
  BY <1>1, <1>2, <1>4, RequisitionedGrows
<1>6. CASE UNCHANGED <<tx, sap>>
  <2>1. \A q \in PR : Listed(q)'
    BY <1>1, <1>2, <1>6, ListedGrows
  <2> QED
    BY <1>3, <1>5, <2>1 DEF Undisturbed
<1>7. ASSUME NEW p \in PR, NEW key \in Key, NEW status \in TXStatus \ {"NONE"},
             RetryPurchaseRequisition(p, key, status)
      PROVE  Undisturbed'
  <2>1. /\ tx' = [tx EXCEPT ![<<p, key>>].status = status, ![<<p, key>>].retry = @ + 1]
        /\ SAPCreates(p, tx[<<p, key>>].payload) \/ UNCHANGED sap
    BY <1>7 DEF RetryPurchaseRequisition, SAPMayCreate
  <2>2. \A q \in PR, k \in Key : tx'[<<q, k>>].payload = tx[<<q, k>>].payload
    BY <2>1 DEF IInv, TypeOK, TXRow
  <2>3. \A q \in PR : \A d \in sap'[q] : d \in sap[q] \/ (q = p /\ d = tx[<<p, key>>].payload)
    BY <2>1 DEF SAPCreates, IInv, TypeOK
  <2>4. ASSUME NEW q \in PR PROVE Listed(q)'
    <3>1. Listed(q) /\ prs'[q] = prs[q]
      BY <1>1, <1>2 DEF Undisturbed
    <3> QED
      BY <2>2, <2>3, <3>1 DEF Listed
  <2> QED
    BY <1>3, <1>5, <2>4 DEF Undisturbed
<1> QED
  BY <1>6, <1>7 DEF WorkerStep, SyncStockRow, OrderCancelled

LEMMA HandlerStepAlone ==
  ASSUME IInv, Undisturbed, NEW r \in Request, HandlerStep(r) PROVE Undisturbed'
BY CreateAlone, ApproveDecidesAlone, DecideAlone, DecidedAlone, CreatePRAlone, AddLineAlone,
   SubmitAcceptedAlone, SubmitFailedAlone, AnsweredAlone
DEF HandlerStep

LEMMA HandlerCounts ==
  ASSUME NEW r \in Request, HandlerStep(r) \/ RollBack(r) PROVE UNCHANGED overlaps
BY DEF HandlerStep, Create, ApproveDecides, Decide, IssuePurchased, Receive, CreatePR, AddLine,
   SubmitAccepted, SubmitRefused, SubmitLost, ReceivePO, SaveOrder, RollBack, Serving

LEMMA NextAlone == IInv /\ AloneInv /\ [Next]_vars => AloneInv'
<1> SUFFICES ASSUME IInv, AloneInv, [Next]_vars, overlaps' = 0 PROVE Undisturbed'
  BY DEF AloneInv
<1>1. CASE UNCHANGED vars
  BY <1>1
  DEF vars, AloneInv, Undisturbed, AtMostOneBusy, Busy, CopiesCurrent, CopyCurrent, Listed,
      Requisitioned, ToBuy, Own, Bought
<1>2. ASSUME NEW r \in Request, HandlerStep(r) \/ RollBack(r) PROVE Undisturbed'
  <2>1. Undisturbed
    BY <1>2, HandlerCounts DEF AloneInv
  <2> QED
    BY <1>2, <2>1, HandlerStepAlone, AnsweredAlone
<1>3. CASE Next
  BY <1>2, <1>3, LoadStepAlone, WorkerStepAlone DEF Next
<1> QED
  BY <1>1, <1>3

LEMMA AloneInvariance == Spec => []AloneInv
BY InitAlone, NextAlone, Invariance, PTL DEF Spec

\* Without overlaps SAP was sent nothing of a requisition that it does not list, through
\* failed, lost and unnumbered submissions, lines added in between, retries of the payload stored last and
\* resubmissions that adopt the retried document (submit_pr_to_sap, the sweep).
THEOREM SAPHoldsNoMoreHolds == Spec => []SAPHoldsNoMore
<1>1. AloneInv => SAPHoldsNoMore
  BY DEF AloneInv, Undisturbed, Listed, SAPHoldsNoMore
<1> QED
  BY <1>1, AloneInvariance, PTL

\* Without overlaps every part to be bought is on exactly one requisition of its request,
\* unless a line was refused, and none is made for parts from stock (decide,
\* _create_purchase_lines).
THEOREM BoughtIsRequisitionedHolds == Spec => []BoughtIsRequisitioned
<1>1. ASSUME AloneInv PROVE BoughtIsRequisitioned
  <2> SUFFICES ASSUME overlaps = 0, NEW m \in MR
               PROVE  /\ Cardinality(Own(m)) = IF ToBuy(m) = {} THEN 0 ELSE 1
                      /\ (\A l \in ToBuy(m) : ValidLine(l)) =>
                           \A p \in Own(m) : ToBuy(m) \subseteq prs[p].lines
    BY DEF BoughtIsRequisitioned, Own, ToBuy
  <2>1. Requisitioned(m)
    BY <1>1 DEF AloneInv, Undisturbed
  <2>2. CASE ToBuy(m) = {}
    BY <2>1, <2>2, FS_EmptySet DEF Requisitioned
  <2>3. CASE ToBuy(m) # {}
    <3>1. PICK p \in PR :
            /\ Own(m) = {p}
            /\ (\A l \in ToBuy(m) : ValidLine(l)) => ToBuy(m) \subseteq prs[p].lines
      BY <2>1, <2>3 DEF Requisitioned
    <3>2. Cardinality({p}) = 1
      BY FS_Singleton
    <3> QED
      BY <2>3, <3>1, <3>2
  <2> QED
    BY <2>2, <2>3
<1> QED
  BY <1>1, AloneInvariance, PTL

--------------------------------------------------------------------------------
(* What can leave the repair waiting for parts that have arrived. *)

\* The handlers of requests do not: the order pauses only with a request that is not
\* received, and a receipt resumes it.
LEMMA RequestsDoNotStrand ==
  ASSUME IInv, NEW r \in Request, ~Stranded, HandlerStep(r), ~SaveOrder(r)
  PROVE  ~Stranded'
<1>1. CASE Create(r)
  <2>1. PICK m \in MR, items \in ItemLists :
          mrs' = [mrs EXCEPT ![m] = [NoMR EXCEPT !.status = "REQUESTED", !.items = items]]
    BY <1>1 DEF Create, SaveMR
  <2>2. mrs'[m].status = "REQUESTED"
    BY <2>1 DEF NoMR, IInv, TypeOK
  <2> QED
    BY <2>2 DEF Stranded
<1>2. CASE Decide(r)
  <2> DEFINE row == req[r].mr
             saved == [row EXCEPT !.status = Header(row)]
  <2>1. req[r].op = "decide" /\ row \in MRRow /\ mrs' = [mrs EXCEPT ![req[r].id] = saved]
    BY <1>2, CopyTypes DEF IInv, Decide, Serving, SaveMR
  <2>2. req[r].id \in MR
    BY <2>1 DEF IInv, CopiesOK, CopyOK, MRCopyOK
  <2>3. saved.status = Header(row)
    BY <2>1 DEF MRRow
  <2> HIDE DEF saved
  <2>4. mrs'[req[r].id].status = Header(row)
    BY <2>1, <2>2, <2>3 DEF IInv, TypeOK
  <2>5. Header(row) \notin {"NONE", "RECEIVED"}
    BY <2>1, HeaderTypes
  <2> QED
    BY <2>2, <2>4, <2>5 DEF Stranded
<1>3. CASE IssuePurchased(r)
  <2> DEFINE row == req[r].mr
             saved == [row EXCEPT !.status = "STOCK_ISSUED", !.ready = row.items]
  <2>1. req[r].op = "issue" /\ row \in MRRow /\ mrs' = [mrs EXCEPT ![req[r].id] = saved]
    BY <1>3, CopyTypes DEF IInv, IssuePurchased, Serving, SaveMR
  <2>2. req[r].id \in MR
    BY <2>1 DEF IInv, CopiesOK, CopyOK, MRCopyOK
  <2>3. saved.status = "STOCK_ISSUED"
    BY <2>1 DEF MRRow
  <2> HIDE DEF saved
  <2>4. mrs'[req[r].id].status = "STOCK_ISSUED"
    BY <2>1, <2>2, <2>3 DEF IInv, TypeOK
  <2> QED
    BY <2>2, <2>4 DEF Stranded
<1>4. CASE Receive(r)
  BY <1>4 DEF Receive, Stranded
<1>5. CASE UNCHANGED <<order, mrs>>
  BY <1>5 DEF Stranded
<1>6. \/ Create(r) \/ Decide(r) \/ IssuePurchased(r) \/ Receive(r)
      \/ UNCHANGED <<order, mrs>>
  BY DEF HandlerStep, ApproveDecides, CreatePR, AddLine, SubmitAccepted, SubmitRefused,
         SubmitLost, ReceivePO, Tables
<1> QED
  BY <1>1, <1>2, <1>3, <1>4, <1>5, <1>6

\* No receipt leaves the repair waiting for parts that have arrived, whatever two handlers
\* of requests do to each other's copies: only a handler that saves the order as it was
\* before the receipt can, and not without an overlap (CreateMaterialRequest,
\* ReceiveMaterialRequest; AddRepairActivity, SyncRepairToSAP).
THEOREM PausedIsAwaitingHolds == Spec => PausedIsAwaiting
<1> DEFINE Justified ==
             ~Stranded /\ Stranded' => overlaps > 0 /\ \E r \in Request : SaveOrder(r)
<1>1. ASSUME IInv, AloneInv, Next, ~Stranded, Stranded'
      PROVE  overlaps > 0 /\ \E r \in Request : SaveOrder(r)
  <2>1. \E r \in Request : SaveOrder(r)
    <3> SUFFICES ASSUME \A r \in Request : ~SaveOrder(r) PROVE FALSE
      OBVIOUS
    <3>1. ASSUME NEW r \in Request PROVE ~HandlerStep(r)
      BY <1>1, RequestsDoNotStrand
    <3>2. ASSUME NEW r \in Request PROVE ~LoadStep(r) /\ ~RollBack(r)
      <4>1. UNCHANGED Tables => Stranded' = Stranded
        BY DEF Tables, Stranded
      <4>2. LoadStep(r) => UNCHANGED Tables
        BY DEF LoadStep, LoadCreate, LoadCreatePR, LoadOrder, LoadDecide, LoadApprove, LoadIssue,
               LoadReceive, LoadAddLine, LoadSubmit, LoadReceivePO, LoadMR, LoadPR, Load
      <4>3. RollBack(r) => UNCHANGED Tables
        BY DEF RollBack
      <4> QED
        BY <1>1, <4>1, <4>2, <4>3
    <3>3. ~WorkerStep
      BY <1>1 DEF WorkerStep, RetryPurchaseRequisition, SyncStockRow, Stranded
    <3>4. ~OrderCancelled
      BY <1>1 DEF OrderCancelled, Stranded
    <3> QED
      BY <1>1, <3>1, <3>2, <3>3, <3>4 DEF Next
  <2>2. overlaps > 0
    <3> SUFFICES ASSUME overlaps = 0 PROVE FALSE
      BY <1>1, BoundTypes DEF IInv, TypeOK
    <3>1. PICK r \in Request : SaveOrder(r)
      BY <2>1
    <3>2. req[r].op = "saveOrder" /\ order' = req[r].order /\ UNCHANGED mrs
      BY <3>1 DEF SaveOrder, Serving
    <3>3. order' = order
      BY <1>1, <3>2 DEF AloneInv, Undisturbed, CopiesCurrent, CopyCurrent
    <3> QED
      BY <1>1, <3>2, <3>3 DEF Stranded
  <2> QED
    BY <2>1, <2>2
<1>2. IInv /\ AloneInv /\ [Next]_vars => [Justified]_vars
  BY <1>1
<1> QED
  BY <1>2, Invariance, AloneInvariance, PTL DEF Spec, PausedIsAwaiting

================================================================================
