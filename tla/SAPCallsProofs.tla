---------------------------- MODULE SAPCallsProofs ----------------------------
(***************************************************************************)
(* Theorems about SAPCalls, for every set of callers and documents and any *)
(* functions called; among them that the calls keep SAPCallPromise.        *)
(***************************************************************************)
EXTENDS SAPCalls, TLAPS

\* What a BAPI adapter's function does, says and takes the DTO's number from.
IsWriter(f) ==
  /\ f.family # "none"
  /\ \/ f.act = "create" /\ f.says = "made" /\ f.number = "answer"
     \/ f.act = "reverse" /\ f.says = "made" /\ f.number = "answer"
     \/ f.act = "move" /\ f.says = "moved" /\ f.number = "request"
     \/ f.act = "get" /\ f.says = "as read" /\ f.number = "answer"
     \/ f.act = "get" /\ f.says = "exists" /\ f.number = "either"
     \/ f.act = "get" /\ f.says = "exists" /\ f.number = "request"

LEMMA WriterKinds ==
  ASSUME NEW fm, NEW family, family # "none"
  PROVE  /\ IsWriter(Fn(fm, family, "create", "made", "answer"))
         /\ IsWriter(Fn(fm, family, "reverse", "made", "answer"))
         /\ IsWriter(Fn(fm, family, "move", "moved", "request"))
         /\ IsWriter(Fn(fm, family, "get", "as read", "answer"))
         /\ IsWriter(Fn(fm, family, "get", "exists", "either"))
         /\ IsWriter(Fn(fm, family, "get", "exists", "request"))
BY DEF IsWriter, Fn

LEMMA WriterShape == \A f \in Writers : IsWriter(f)
<1>1. \A f \in NotificationAdapter \cup PMOrderAdapter : IsWriter(f)
  BY WriterKinds DEF NotificationAdapter, PMOrderAdapter
<1>2. \A f \in PurchaseOrderAdapter \cup ServicePOAdapter : IsWriter(f)
  BY WriterKinds DEF PurchaseOrderAdapter, ServicePOAdapter
<1>3. \A f \in RequisitionAdapter : IsWriter(f)
  BY WriterKinds DEF RequisitionAdapter
<1>4. \A f \in GoodsReceiptAdapter \cup GoodsIssueAdapter : IsWriter(f)
  BY WriterKinds DEF GoodsReceiptAdapter, GoodsIssueAdapter
<1>5. \A f \in MeasurementAdapter \cup VehicleAssignmentAdapter : IsWriter(f)
  BY WriterKinds DEF MeasurementAdapter, VehicleAssignmentAdapter
<1> QED
  BY <1>1, <1>2, <1>3, <1>4, <1>5 DEF Writers

--------------------------------------------------------------------------------
(* The inductive invariant: what holds of SAP and of what was told, and      *)
(* CallerOK, what holds of every caller.                                     *)

\* A document SAP has not created is of no family.
AbsentIsNone == \A d \in Docs : sap[d].status = "absent" => sap[d].family = "none"

\* With the mock nobody ever hears the number of a document of SAP.
MockTellsNoDocs ==
  client # "bapi" => unfounded = {} /\ \A t \in told : t.doc \notin Docs

\* A connection changes a document once, and no two connections change the same.
LuwsAreApart ==
  \A c, q \in Callers : \A x \in luw[c], y \in luw[q] : x[1] = y[1] => c = q /\ x = y

\* Only a function module of SAP, or of the mock, leaves an answer behind.
InsideIsWriter(c) == call[c].pc \in {"ran", "answered"} => call[c].fn \in Writers

\* A caller is inside a call as long as its outcome is open, and before the commit
\* it has had no effect.
Placed(c) ==
  /\ call[c].pc = "idle" <=> outcome[c] # "busy"
  /\ call[c].pc \in {"open", "ran"} => effect[c] = {}
  /\ call[c].pc = "ran" => client = "bapi"
  /\ call[c].pc # "answered" => call[c].commit # "refused"
  /\ call[c].commit = "refused" => client = "bapi"

MockAsksNoDocs(c) == client # "bapi" => call[c].arg \notin Docs /\ call[c].number \notin Docs

\* A change of document chg[1]: it is created, or moved once.
IsChange(chg) ==
  \/ sap[chg[1]].status = "absent" /\ chg[2].status = "made" /\ chg[2].family # "none"
  \/ /\ sap[chg[1]].status = "made" /\ chg[2].status = "moved"
     /\ chg[2].family = sap[chg[1]].family

LuwChanges(c) == \A chg \in luw[c] : IsChange(chg)

\* The row of a document is as a DTO, or the function that fills it, says.
Shows(row, says) ==
  /\ row.family = says.family /\ row.status # "absent"
  /\ says.says = "moved" => row.status = "moved"

\* What the answer says is so as soon as the connection has committed.
AnswerIsTrue(c) ==
  LET speaks == call[c].pc \in {"ran", "answered"} /\ call[c].commit # "refused" IN
  speaks /\ Accepted(call[c].ret) /\ NumberTold(c) \in Docs
    => Shows(Committed(c)[NumberTold(c)], call[c].fn)

\* Exactly an accepted change has an effect, unless its commit is refused.
ChangesTakeEffect(c) ==
  client = "bapi" =>
    LET takes == Accepted(call[c].ret) /\ call[c].fn.act # "get" IN
    /\ call[c].pc = "ran" => (luw[c] # {} <=> takes)
    /\ call[c].pc = "answered" /\ call[c].commit # "refused" => (effect[c] # {} <=> takes)
    /\ call[c].pc = "answered" /\ call[c].commit = "refused" => effect[c] = {} /\ takes

CallerOK(c) ==
  /\ InsideIsWriter(c)
  /\ Placed(c)
  /\ MockAsksNoDocs(c)
  /\ LuwChanges(c)
  /\ AnswerIsTrue(c)
  /\ ChangesTakeEffect(c)

IInv ==
  /\ TypeOK
  /\ AbsentIsNone
  /\ MockTellsNoDocs
  /\ LuwsAreApart
  /\ ToldIsTrue
  /\ \A c \in Callers : CallerOK(c)

--------------------------------------------------------------------------------

LEMMA InitIInv == Init => IInv
<1> SUFFICES ASSUME Init PROVE IInv
  OBVIOUS
<1>1. \A c \in Callers : call[c] = NoCall /\ luw[c] = {} /\ effect[c] = {} /\ outcome[c] = "none"
  BY DEF Init
<1>2. NoCall.pc = "idle" /\ NoCall.arg = NoDoc /\ NoCall.number = NoDoc /\ NoCall.commit # "refused"
  BY DEF NoCall
<1>3. TypeOK
  <2>1. sap \in [Docs -> DocRow]
    BY DEF Init, DocRow, Statuses
  <2>2. call \in [Callers -> CallState]
    BY DEF Init, CallState
  <2>3. luw \in [Callers -> SUBSET (Docs \X DocRow)] /\ effect \in [Callers -> SUBSET Docs]
    BY DEF Init
  <2>4. outcome \in [Callers -> {"none", "busy", "written", "unfounded", "read", "refused", "cut"}]
    BY DEF Init
  <2> QED
    BY <1>1, <2>1, <2>2, <2>3, <2>4 DEF Init, TypeOK
<1>4. ASSUME NEW c \in Callers PROVE CallerOK(c)
  BY <1>1, <1>2, CallsAssumption
  DEF CallerOK, InsideIsWriter, Placed, MockAsksNoDocs, LuwChanges, AnswerIsTrue, ChangesTakeEffect
<1>5. AbsentIsNone /\ MockTellsNoDocs /\ LuwsAreApart /\ ToldIsTrue
  BY <1>1 DEF Init, AbsentIsNone, MockTellsNoDocs, LuwsAreApart, ToldIsTrue
<1> QED
  BY <1>3, <1>4, <1>5 DEF IInv

--------------------------------------------------------------------------------
(* Types. *)

CallShape == [pc : {"open", "ran", "answered"}, fn : Used, arg : Docs \cup {MockDoc, NoDoc},
              ret : {"S", "W", "E", "A"}, number : Docs \cup {MockDoc, NoDoc}, commit : {"due", "refused"}]

\* Inside a call the record is the call's; otherwise it is NoCall.
LEMMA CallRecord ==
  ASSUME TypeOK, NEW c \in Callers, call[c].pc # "idle"
  PROVE  call[c] \in CallShape
<1>1. call[c] \in CallState
  BY DEF TypeOK
<1>2. call[c] # NoCall
  BY DEF NoCall
<1> QED
  BY <1>1, <1>2 DEF CallState, CallShape

\* An answer is written into the record.
LEMMA AnswerRecord ==
  ASSUME NEW s \in CallShape, NEW pc \in {"ran", "answered"},
         NEW ret \in {"S", "W", "E", "A"}, NEW number \in Docs \cup {MockDoc, NoDoc}
  PROVE  [s EXCEPT !.pc = pc, !.ret = ret, !.number = number] \in CallShape
BY DEF CallShape

LEMMA CommittedRecord ==
  \A s \in CallShape :
    /\ [s EXCEPT !.pc = "answered"] \in CallShape
    /\ [s EXCEPT !.pc = "answered", !.commit = "refused"] \in CallShape
BY DEF CallShape

LEMMA CallStates ==
  /\ NoCall \in CallState /\ NoCall.pc = "idle"
  /\ \A s \in CallShape : s \in CallState
  /\ \A f \in Used, d \in Docs \cup {MockDoc, NoDoc} :
       [NoCall EXCEPT !.pc = "open", !.fn = f, !.arg = d] \in CallShape
BY DEF CallState, CallShape, NoCall

LEMMA KnownDocs == TypeOK => Known \subseteq Docs \cup {MockDoc}
BY DEF TypeOK, Known

\* The function has run and its answer is on the way.
LEMMA RanOK ==
  ASSUME TypeOK, NEW c \in Callers, call[c].pc = "open",
         NEW ret \in {"S", "W", "E", "A"}, NEW number \in Docs \cup {MockDoc, NoDoc},
         NEW changes \in SUBSET (Docs \X DocRow), Ran(c, ret, number, changes)
  PROVE  TypeOK'
<1>1. [call[c] EXCEPT !.pc = "ran", !.ret = ret, !.number = number] \in CallState
  BY CallRecord, AnswerRecord, CallStates
<1>2. call' \in [Callers -> CallState]
  BY <1>1 DEF TypeOK, Ran
<1>3. luw' \in [Callers -> SUBSET (Docs \X DocRow)]
  BY DEF TypeOK, Ran
<1>4. \A q \in Callers : luw'[q] # {} => call'[q].pc = "ran"
  BY CallRecord DEF TypeOK, Ran, CallShape
<1> QED
  BY <1>2, <1>3, <1>4 DEF TypeOK, Ran

LEMMA EndsOK ==
  ASSUME TypeOK, NEW c \in Callers,
         NEW how \in {"written", "unfounded", "read", "refused", "cut"}, Ends(c, how)
  PROVE  /\ call' \in [Callers -> CallState]
         /\ luw' \in [Callers -> SUBSET (Docs \X DocRow)]
         /\ outcome' \in [Callers -> {"none", "busy", "written", "unfounded", "read", "refused", "cut"}]
         /\ \A q \in Callers : luw'[q] # {} => call'[q].pc = "ran"
BY CallStates DEF TypeOK, Ends

LEMMA CommittedOK ==
  ASSUME TypeOK, NEW c \in Callers
  PROVE  Committed(c) \in [Docs -> DocRow] /\ Changed(c) \in SUBSET Docs
<1>1. luw[c] \in SUBSET (Docs \X DocRow)
  BY DEF TypeOK
<1>2. ASSUME NEW d \in Changed(c) PROVE (CHOOSE chg \in luw[c] : chg[1] = d)[2] \in DocRow
  <2>1. \E chg \in luw[c] : chg[1] = d
    BY DEF Changed
  <2>2. (CHOOSE chg \in luw[c] : chg[1] = d) \in luw[c]
    BY <2>1
  <2> QED
    BY <1>1, <2>2
<1>3. Committed(c) \in [Docs -> DocRow]
  BY <1>2 DEF TypeOK, Committed
<1> QED
  BY <1>1, <1>3 DEF Changed

\* Every change a function makes in its connection is of a typed row.
LEMMA ChangesOK ==
  ASSUME TypeOK, NEW c \in Callers, call[c].fn \in Writers, NEW d \in Docs, NEW e \in Docs
  PROVE  /\ <<d, [family |-> call[c].fn.family, status |-> "made"]>> \in Docs \X DocRow
         /\ <<e, [sap[e] EXCEPT !.status = "moved"]>> \in Docs \X DocRow
         /\ <<d, sap[e]>> \in Docs \X DocRow
<1>1. [family |-> call[c].fn.family, status |-> "made"] \in DocRow
  BY DEF DocRow, Statuses
<1>2. sap[e] \in DocRow /\ [sap[e] EXCEPT !.status = "moved"] \in DocRow
  BY DEF TypeOK, DocRow, Statuses
<1> QED
  BY <1>1, <1>2

LEMMA NextTypeOK == IInv /\ [Next]_vars => TypeOK'
<1> SUFFICES ASSUME TypeOK, \A c \in Callers : InsideIsWriter(c), [Next]_vars PROVE TypeOK'
  BY DEF IInv, CallerOK
<1>1. CASE UNCHANGED vars
  BY <1>1 DEF TypeOK, vars
<1>2. ASSUME NEW c \in Callers, NEW f \in Used, OpenCall(c, f) PROVE TypeOK'
  <2>1. PICK d \in Arguments(f) :
          call' = [call EXCEPT ![c] = [NoCall EXCEPT !.pc = "open", !.fn = f, !.arg = d]]
    BY <1>2 DEF OpenCall
  <2>2. d \in Docs \cup {MockDoc, NoDoc}
    BY KnownDocs DEF Arguments
  <2>3. call' \in [Callers -> CallState]
    BY <2>1, <2>2, CallStates DEF TypeOK
  <2>4. \A q \in Callers : luw'[q] # {} => call'[q].pc = "ran"
    BY <1>2, <2>1 DEF TypeOK, OpenCall
  <2> QED
    BY <1>2, <2>3, <2>4 DEF TypeOK, OpenCall
<1>3. ASSUME NEW c \in Callers, SAPCreates(c) PROVE TypeOK'
  <2>1. call[c].fn \in Writers /\ call[c].pc = "open"
    BY <1>3 DEF SAPCreates, Running
  <2>2. PICK d \in Docs, ret \in {"S", "W"}, number \in Docs \cup {MockDoc, NoDoc} :
          Ran(c, ret, number, {<<d, [family |-> call[c].fn.family, status |-> "made"]>>})
    BY <1>3 DEF SAPCreates
  <2> QED
    BY <2>1, <2>2, ChangesOK, RanOK
<1>4. ASSUME NEW c \in Callers, SAPMoves(c) PROVE TypeOK'
  <2>1. call[c].fn \in Writers /\ call[c].pc = "open" /\ call[c].arg \in Docs
    BY <1>4 DEF SAPMoves, Running, Movable
  <2>2. PICK ret \in {"S", "W"} :
          Ran(c, ret, call[c].arg,
              {<<call[c].arg, [sap[call[c].arg] EXCEPT !.status = "moved"]>>})
    BY <1>4 DEF SAPMoves
  <2>3. {<<call[c].arg, [sap[call[c].arg] EXCEPT !.status = "moved"]>>}
          \in SUBSET (Docs \X DocRow)
    BY <2>1, ChangesOK
  <2> QED
    BY <2>1, <2>2, <2>3, RanOK
<1>5. ASSUME NEW c \in Callers, SAPReverses(c) PROVE TypeOK'
  <2>1. call[c].fn \in Writers /\ call[c].pc = "open" /\ call[c].arg \in Docs
    BY <1>5 DEF SAPReverses, Running, Movable
  <2>2. PICK d \in Docs, number \in Docs \cup {MockDoc, NoDoc} :
          Ran(c, "S", number, {<<call[c].arg, [sap[call[c].arg] EXCEPT !.status = "moved"]>>,
                               <<d, sap[call[c].arg]>>})
    BY <1>5 DEF SAPReverses
  <2>3. {<<call[c].arg, [sap[call[c].arg] EXCEPT !.status = "moved"]>>, <<d, sap[call[c].arg]>>}
          \in SUBSET (Docs \X DocRow)
    <3>1. <<call[c].arg, [sap[call[c].arg] EXCEPT !.status = "moved"]>> \in Docs \X DocRow
      BY <2>1, ChangesOK
    <3>2. <<d, sap[call[c].arg]>> \in Docs \X DocRow
      BY <2>1, ChangesOK
    <3> QED
      BY <3>1, <3>2
  <2> QED
    BY <2>1, <2>2, <2>3, RanOK
<1>6. ASSUME NEW c \in Callers, SAPShows(c) \/ SAPRejects(c) PROVE TypeOK'
  <2>1. call[c].pc = "open"
    BY <1>6 DEF SAPShows, SAPRejects, Running
  <2> DEFINE nothing == {}
  <2>2. PICK ret \in {"S", "W", "E", "A"}, number \in Docs \cup {MockDoc, NoDoc} :
          Ran(c, ret, number, nothing)
    BY <1>6 DEF SAPShows, SAPRejects
  <2>3. nothing \in SUBSET (Docs \X DocRow)
    OBVIOUS
  <2> HIDE DEF nothing
  <2> QED
    BY <2>1, <2>2, <2>3, RanOK
<1>7. ASSUME NEW c \in Callers, Commit(c) PROVE TypeOK'
  <2>1. [call[c] EXCEPT !.pc = "answered"] \in CallState
    <3>1. call[c] \in CallShape
      BY <1>7, CallRecord DEF Commit
    <3> QED
      BY <3>1, CommittedRecord, CallStates
  <2>2. call' \in [Callers -> CallState]
    BY <1>7, <2>1 DEF TypeOK, Commit
  <2>3. sap' \in [Docs -> DocRow] /\ effect' \in [Callers -> SUBSET Docs]
    BY <1>7, CommittedOK DEF TypeOK, Commit
  <2>4. luw' \in [Callers -> SUBSET (Docs \X DocRow)]
        /\ \A q \in Callers : luw'[q] # {} => call'[q].pc = "ran"
    BY <1>7 DEF TypeOK, Commit
  <2> QED
    BY <1>7, <2>2, <2>3, <2>4 DEF TypeOK, Commit
<1>13. ASSUME NEW c \in Callers, CommitRefused(c) PROVE TypeOK'
  <2>1. [call[c] EXCEPT !.pc = "answered", !.commit = "refused"] \in CallState
    <3>1. call[c] \in CallShape
      BY <1>13, CallRecord DEF CommitRefused
    <3> QED
      BY <3>1, CommittedRecord, CallStates
  <2>2. call' \in [Callers -> CallState]
    BY <1>13, <2>1 DEF TypeOK, CommitRefused
  <2>3. luw' \in [Callers -> SUBSET (Docs \X DocRow)]
        /\ \A q \in Callers : luw'[q] # {} => call'[q].pc = "ran"
    BY <1>13 DEF TypeOK, CommitRefused
  <2> QED
    BY <1>13, <2>2, <2>3 DEF TypeOK, CommitRefused
<1>8. ASSUME NEW c \in Callers, CommitUnheard(c) PROVE TypeOK'
  <2>1. sap' \in [Docs -> DocRow] /\ effect' \in [Callers -> SUBSET Docs]
    BY <1>8, CommittedOK DEF TypeOK, CommitUnheard
  <2> QED
    BY <1>8, <2>1, EndsOK DEF TypeOK, CommitUnheard
<1>14. ASSUME NEW c \in Callers, call[c].pc = "answered"
       PROVE  /\ NumberTold(c) \in Docs \cup {MockDoc, NoDoc}
              /\ call[c].fn.says \in {"made", "moved", "exists", "as read"}
              /\ call[c].fn \in Writers
  <2>1. call[c] \in CallShape /\ call[c].fn \in Writers
    BY <1>14, CallRecord DEF InsideIsWriter
  <2>2. IsWriter(call[c].fn)
    BY <2>1, WriterShape
  <2>3. NumberTold(c) \in Docs \cup {MockDoc, NoDoc}
    BY <2>1, <2>2 DEF NumberTold, IsWriter, CallShape
  <2> QED
    BY <2>1, <2>2, <2>3 DEF IsWriter
<1>9. ASSUME NEW c \in Callers, Answer(c) PROVE TypeOK'
  <2>1. told' \subseteq [doc : Docs \cup {MockDoc, NoDoc}, family : {f.family : f \in Writers},
                         says : {"made", "moved", "exists", "as read"}]
    <3>1. [doc |-> NumberTold(c), family |-> call[c].fn.family, says |-> call[c].fn.says]
            \in [doc : Docs \cup {MockDoc, NoDoc}, family : {f.family : f \in Writers},
                 says : {"made", "moved", "exists", "as read"}]
      BY <1>9, <1>14 DEF Answer
    <3> QED
      BY <1>9, <3>1 DEF TypeOK, Answer
  <2>2. PICK how \in {"written", "read"} : Ends(c, how)
    BY <1>9 DEF Answer
  <2> QED
    BY <1>9, <2>1, <2>2, EndsOK DEF TypeOK, Answer
<1>15. ASSUME NEW c \in Callers, AnswerUnfounded(c) PROVE TypeOK'
  <2>1. unfounded' \subseteq Docs \cup {MockDoc, NoDoc}
    BY <1>14, <1>15 DEF TypeOK, AnswerUnfounded
  <2> QED
    BY <1>15, <2>1, EndsOK DEF TypeOK, AnswerUnfounded
<1>10. ASSUME NEW c \in Callers, NEW how \in {"read", "refused", "cut"}, Ends(c, how),
              UNCHANGED <<client, sap, effect, told, unfounded>>
       PROVE  TypeOK'
  BY <1>10, EndsOK DEF TypeOK
<1>11. ASSUME NEW c \in Callers,
              \/ ConnectionFails(c) \/ Refusal(c) \/ AnswerUnreadable(c)
              \/ MockTransportError(c) \/ RowsRead(c) \/ RowNotFound(c) \/ ReadFails(c)
       PROVE  TypeOK'
  BY <1>10, <1>11
  DEF ConnectionFails, Refusal, AnswerUnreadable, MockTransportError, RowsRead, RowNotFound,
      ReadFails
<1>12. ASSUME NEW c \in Callers, MockCalled(c) PROVE TypeOK'
  <2>1. MockReturn \in {"S", "E"} /\ MockNumber \in {MockDoc, NoDoc}
    BY DEF MockReturn, MockNumber
  <2>2. [call[c] EXCEPT !.pc = "answered", !.ret = MockReturn, !.number = MockNumber] \in CallState
    <3>1. call[c] \in CallShape
      BY <1>12, CallRecord DEF MockCalled
    <3> QED
      BY <2>1, <3>1, AnswerRecord, CallStates
  <2>3. call' \in [Callers -> CallState]
    BY <1>12, <2>2 DEF TypeOK, MockCalled
  <2>4. \A q \in Callers : luw'[q] # {} => call'[q].pc = "ran"
    BY <1>12 DEF TypeOK, MockCalled
  <2> QED
    BY <1>12, <2>3, <2>4 DEF TypeOK, MockCalled
<1> QED
  BY <1>1, <1>2, <1>3, <1>4, <1>5, <1>6, <1>7, <1>8, <1>9, <1>11, <1>12, <1>13, <1>15 DEF Next

--------------------------------------------------------------------------------
(* Steps of one caller, the others standing still. *)

\* A caller of whom nothing changes, in an SAP in which nothing changes, is as before.
LEMMA Bystander ==
  ASSUME NEW q \in Callers, CallerOK(q), UNCHANGED <<client, sap>>,
         UNCHANGED <<call[q], luw[q], effect[q], outcome[q]>>
  PROVE  CallerOK(q)'
<1>1. NumberTold(q)' = NumberTold(q) /\ Committed(q)' = Committed(q)
  BY DEF NumberTold, Committed, Changed
<1>2. AnswerIsTrue(q)'
  BY <1>1 DEF CallerOK, AnswerIsTrue
<1> QED
  BY <1>2
  DEF CallerOK, InsideIsWriter, Placed, MockAsksNoDocs, LuwChanges, IsChange, ChangesTakeEffect

\* The caller c takes a step that commits nothing, and nobody is told anything new.
LEMMA OneCaller ==
  ASSUME IInv, TypeOK', NEW c \in Callers, CallerOK(c)', LuwsAreApart',
         UNCHANGED <<client, sap, told, unfounded>>,
         \A q \in Callers \ {c} : UNCHANGED <<call[q], luw[q], effect[q], outcome[q]>>
  PROVE  IInv'
<1>1. \A q \in Callers : CallerOK(q)'
  BY Bystander DEF IInv
<1>2. AbsentIsNone' /\ MockTellsNoDocs' /\ ToldIsTrue'
  BY DEF IInv, AbsentIsNone, MockTellsNoDocs, ToldIsTrue
<1> QED
  BY <1>1, <1>2 DEF IInv

\* A connection that holds nothing is in nobody's way.
LEMMA EmptyIsApart ==
  ASSUME LuwsAreApart, NEW c \in Callers, luw'[c] = {},
         \A q \in Callers \ {c} : luw'[q] = luw[q]
  PROVE  LuwsAreApart'
BY DEF LuwsAreApart

\* The number a DTO carries is of the request or of the answer.
LEMMA NumberToldIs ==
  ASSUME NEW c \in Callers, call[c].fn \in Writers
  PROVE  /\ NumberTold(c) \in {call[c].arg, call[c].number}
         /\ call[c].fn.act \in {"create", "reverse"} => NumberTold(c) = call[c].number
         /\ call[c].fn.act = "move" => NumberTold(c) = call[c].arg
BY WriterShape DEF IsWriter, NumberTold

--------------------------------------------------------------------------------
(* The function module. *)

\* The call's record after the function has run.
LEMMA RanRecord ==
  ASSUME TypeOK, NEW c \in Callers, call[c].pc = "open",
         NEW ret, NEW number, NEW changes, Ran(c, ret, number, changes)
  PROVE  /\ call'[c].pc = "ran" /\ call'[c].fn = call[c].fn /\ call'[c].ret = ret
         /\ call'[c].arg = call[c].arg /\ call'[c].number = number
         /\ call'[c].commit = call[c].commit /\ luw'[c] = changes
<1>1. call[c] \in CallShape
  BY CallRecord
<1>2. call'[c] = [call[c] EXCEPT !.pc = "ran", !.ret = ret, !.number = number]
  BY DEF TypeOK, Ran
<1>3. luw'[c] = changes
  BY DEF TypeOK, Ran
<1> QED
  BY <1>1, <1>2, <1>3 DEF CallShape

\* What a function has to have done for its answer, changes in luw, to be right.
LEMMA RanStep ==
  ASSUME IInv, TypeOK', NEW c \in Callers, call[c].pc = "open", client = "bapi",
         call[c].fn \in Writers,
         NEW ret, NEW number, NEW changes, Ran(c, ret, number, changes),
         \A chg \in changes : IsChange(chg) /\ ~Locked(c, chg[1]),
         \A x, y \in changes : x[1] = y[1] => x = y,
         changes # {} <=> Accepted(ret) /\ call[c].fn.act # "get",
         AnswerIsTrue(c)'
  PROVE  IInv'
<1>1. /\ call'[c].pc = "ran" /\ call'[c].fn = call[c].fn /\ call'[c].ret = ret
      /\ call'[c].arg = call[c].arg /\ luw'[c] = changes /\ call'[c].commit = call[c].commit
  BY RanRecord DEF IInv
<1>2. \A q \in Callers \ {c} : UNCHANGED <<call[q], luw[q], effect[q], outcome[q]>>
  BY DEF IInv, TypeOK, Ran
<1>3. CallerOK(c)'
  <2>1. InsideIsWriter(c)' /\ MockAsksNoDocs(c)'
    BY <1>1 DEF InsideIsWriter, MockAsksNoDocs, Ran
  <2>2. Placed(c)'
    BY <1>1 DEF IInv, CallerOK, Placed, Ran
  <2>3. LuwChanges(c)'
    BY <1>1 DEF LuwChanges, IsChange, Ran
  <2>4. ChangesTakeEffect(c)'
    BY <1>1 DEF ChangesTakeEffect, Accepted
  <2> QED
    BY <2>1, <2>2, <2>3, <2>4 DEF CallerOK
<1>4. LuwsAreApart'
  <2> SUFFICES ASSUME NEW p \in Callers, NEW q \in Callers,
                      NEW x \in luw'[p], NEW y \in luw'[q], x[1] = y[1]
               PROVE  p = q /\ x = y
    BY DEF LuwsAreApart
  <2>1. CASE p = c /\ q = c
    BY <1>1, <2>1
  <2>2. CASE p = c /\ q # c
    BY <1>1, <1>2, <2>2 DEF Locked
  <2>3. CASE p # c /\ q = c
    BY <1>1, <1>2, <2>3 DEF Locked
  <2>4. CASE p # c /\ q # c
    BY <1>2, <2>4 DEF IInv, LuwsAreApart
  <2> QED
    BY <2>1, <2>2, <2>3, <2>4
<1>5. UNCHANGED <<client, sap, told, unfounded>>
  BY DEF Ran
<1> QED
  BY <1>2, <1>3, <1>4, <1>5, OneCaller

\* The row the connection gives a document it changes.
LEMMA CommittedRow ==
  ASSUME NEW c \in Callers, NEW chg \in luw[c], chg[1] \in Docs,
         \A x, y \in luw[c] : x[1] = y[1] => x = y
  PROVE  Committed(c)[chg[1]] = chg[2]
<1>1. chg[1] \in Changed(c)
  BY DEF Changed
<1>2. (CHOOSE x \in luw[c] : x[1] = chg[1]) = chg
  <2>1. \E x \in luw[c] : x[1] = chg[1]
    OBVIOUS
  <2>2. /\ (CHOOSE x \in luw[c] : x[1] = chg[1]) \in luw[c]
        /\ (CHOOSE x \in luw[c] : x[1] = chg[1])[1] = chg[1]
    BY <2>1
  <2> QED
    BY <2>2
<1> QED
  BY <1>1, <1>2 DEF Committed

\* After the function has run, what its answer says is in the connection.
LEMMA AnswerOfRan ==
  ASSUME IInv, NEW c \in Callers, call[c].pc = "open", call[c].fn \in Writers,
         NEW ret, NEW number, NEW changes, Ran(c, ret, number, changes),
         NumberTold(c)' \in Docs => Shows(Committed(c)'[NumberTold(c)'], call[c].fn)
  PROVE  AnswerIsTrue(c)'
<1>1. call'[c].fn = call[c].fn
  BY RanRecord DEF IInv
<1> QED
  BY <1>1 DEF AnswerIsTrue

LEMMA RanNumber ==
  ASSUME IInv, NEW c \in Callers, call[c].pc = "open", call[c].fn \in Writers,
         NEW ret, NEW number, NEW changes, Ran(c, ret, number, changes)
  PROVE  /\ NumberTold(c)' \in {call[c].arg, number}
         /\ call[c].fn.act \in {"create", "reverse"} => NumberTold(c)' = number
         /\ call[c].fn.act = "move" => NumberTold(c)' = call[c].arg
<1>1. call'[c].fn = call[c].fn /\ call'[c].arg = call[c].arg /\ call'[c].number = number
  BY RanRecord DEF IInv
<1> QED
  BY <1>1, WriterShape DEF IsWriter, NumberTold

LEMMA RanCommitted ==
  ASSUME IInv, NEW c \in Callers,
         NEW ret, NEW number, NEW changes, Ran(c, ret, number, changes),
         \A x, y \in changes : x[1] = y[1] => x = y
  PROVE  /\ \A chg \in changes : chg[1] \in Docs => Committed(c)'[chg[1]] = chg[2]
         /\ changes = {} => \A d \in Docs : Committed(c)'[d] = sap[d]
<1>1. luw'[c] = changes /\ sap' = sap
  BY DEF IInv, TypeOK, Ran
<1>2. ASSUME NEW chg \in changes, chg[1] \in Docs PROVE Committed(c)'[chg[1]] = chg[2]
  <2>1. chg[1] \in Changed(c)'
    BY <1>1 DEF Changed
  <2>2. (CHOOSE x \in changes : x[1] = chg[1]) = chg
    <3>1. \E x \in changes : x[1] = chg[1]
      OBVIOUS
    <3>2. /\ (CHOOSE x \in changes : x[1] = chg[1]) \in changes
          /\ (CHOOSE x \in changes : x[1] = chg[1])[1] = chg[1]
      BY <3>1
    <3> QED
      BY <3>2
  <2> QED
    BY <1>1, <1>2, <2>1, <2>2 DEF Committed
<1>3. changes = {} => \A d \in Docs : Committed(c)'[d] = sap[d]
  BY <1>1 DEF Committed, Changed
<1> QED
  BY <1>2, <1>3

LEMMA SAPCreatesStep ==
  ASSUME IInv, TypeOK', NEW c \in Callers, SAPCreates(c) PROVE IInv'
<1>1. /\ call[c].fn \in Writers /\ call[c].pc = "open" /\ client = "bapi"
      /\ call[c].fn.act = "create"
  BY DEF SAPCreates, Running
<1>2. PICK d \in Docs, ret \in {"S", "W"} : \E number \in {d, NoDoc} :
        /\ sap[d].status = "absent" /\ ~Locked(c, d)
        /\ Ran(c, ret, number, {<<d, [family |-> call[c].fn.family, status |-> "made"]>>})
  BY DEF SAPCreates, Fresh
<1>3. PICK number \in {d, NoDoc} :
        Ran(c, ret, number, {<<d, [family |-> call[c].fn.family, status |-> "made"]>>})
  BY <1>2
<1> DEFINE row == [family |-> call[c].fn.family, status |-> "made"]
           changes == {<<d, row>>}
<1>4. row.family = call[c].fn.family /\ row.status = "made" /\ row.family # "none"
  BY <1>1, WriterShape DEF IsWriter
<1>5. \A x \in changes : x[1] = d /\ x[2] = row /\ x = <<d, row>>
  OBVIOUS
<1>6. changes # {} /\ <<d, row>> \in changes
  OBVIOUS
<1>7. Ran(c, ret, number, changes)
  BY <1>3
<1> HIDE DEF row, changes
<1>8. \A chg \in changes : IsChange(chg) /\ ~Locked(c, chg[1])
  BY <1>2, <1>4, <1>5 DEF IsChange
<1>9. \A x, y \in changes : x[1] = y[1] => x = y
  BY <1>5
<1>10. changes # {} <=> Accepted(ret) /\ call[c].fn.act # "get"
  BY <1>1, <1>6 DEF Accepted
<1>11. AnswerIsTrue(c)'
  <2>1. NumberTold(c)' = number
    BY <1>1, <1>7, RanNumber
  <2>2. Committed(c)'[d] = row
    BY <1>5, <1>6, <1>7, <1>9, RanCommitted
  <2>3. Shows(row, call[c].fn)
    BY <1>1, <1>4, WriterShape DEF Shows, IsWriter
  <2>4. NumberTold(c)' \in Docs => Shows(Committed(c)'[NumberTold(c)'], call[c].fn)
    BY <2>1, <2>2, <2>3, CallsAssumption
  <2> QED
    BY <1>1, <1>7, <2>4, AnswerOfRan
<1> QED
  BY <1>1, <1>7, <1>8, <1>9, <1>10, <1>11, RanStep

LEMMA SAPMovesStep ==
  ASSUME IInv, TypeOK', NEW c \in Callers, SAPMoves(c) PROVE IInv'
<1> DEFINE d == call[c].arg
           row == [sap[d] EXCEPT !.status = "moved"]
           changes == {<<d, row>>}
<1>1. /\ call[c].fn \in Writers /\ call[c].pc = "open" /\ client = "bapi"
      /\ call[c].fn.act = "move"
  BY DEF SAPMoves, Running
<1>2. /\ d \in Docs /\ ~Locked(c, d)
      /\ sap[d].family = call[c].fn.family /\ sap[d].status = "made"
  BY DEF SAPMoves, Movable
<1>3. PICK ret \in {"S", "W"} : Ran(c, ret, d, changes)
  BY DEF SAPMoves
<1>4. row.family = sap[d].family /\ row.status = "moved"
  BY <1>2 DEF IInv, TypeOK, DocRow
<1>5. \A x \in changes : x[1] = d /\ x[2] = row /\ x = <<d, row>>
  OBVIOUS
<1>6. changes # {} /\ <<d, row>> \in changes
  OBVIOUS
<1>7. d = call[c].arg
  OBVIOUS
<1> HIDE DEF d, row, changes
<1>8. \A chg \in changes : IsChange(chg) /\ ~Locked(c, chg[1])
  BY <1>2, <1>4, <1>5 DEF IsChange
<1>9. \A x, y \in changes : x[1] = y[1] => x = y
  BY <1>5
<1>10. changes # {} <=> Accepted(ret) /\ call[c].fn.act # "get"
  BY <1>1, <1>6 DEF Accepted
<1>11. AnswerIsTrue(c)'
  <2>1. NumberTold(c)' = d
    BY <1>1, <1>3, <1>7, RanNumber
  <2>2. Committed(c)'[d] = row
    BY <1>2, <1>5, <1>6, <1>3, <1>9, RanCommitted
  <2>3. Shows(row, call[c].fn)
    BY <1>2, <1>4 DEF Shows
  <2> QED
    BY <1>1, <1>3, <2>1, <2>2, <2>3, AnswerOfRan
<1> QED
  BY <1>1, <1>3, <1>8, <1>9, <1>10, <1>11, RanStep

LEMMA SAPReversesStep ==
  ASSUME IInv, TypeOK', NEW c \in Callers, SAPReverses(c) PROVE IInv'
<1> DEFINE e == call[c].arg
           row == [sap[e] EXCEPT !.status = "moved"]
<1>1. /\ call[c].fn \in Writers /\ call[c].pc = "open" /\ client = "bapi"
      /\ call[c].fn.act = "reverse"
  BY DEF SAPReverses, Running
<1>2. /\ e \in Docs /\ ~Locked(c, e)
      /\ sap[e].family = call[c].fn.family /\ sap[e].status = "made"
  BY DEF SAPReverses, Movable
<1>3. PICK d \in Docs : \E number \in {d, NoDoc} :
        /\ sap[d].status = "absent" /\ ~Locked(c, d)
        /\ Ran(c, "S", number, {<<e, row>>, <<d, sap[e]>>})
  BY DEF SAPReverses, Fresh
<1> DEFINE changes == {<<e, row>>, <<d, sap[e]>>}
<1>4. PICK number \in {d, NoDoc} : Ran(c, "S", number, changes)
  BY <1>3
<1>5. row.family = sap[e].family /\ row.status = "moved"
  BY <1>2 DEF IInv, TypeOK, DocRow
<1>6. /\ \A x \in changes : x = <<e, row>> \/ x = <<d, sap[e]>>
      /\ \A x \in changes : (x[1] = e /\ x[2] = row) \/ (x[1] = d /\ x[2] = sap[e])
  OBVIOUS
<1>7. changes # {} /\ <<d, sap[e]>> \in changes
  OBVIOUS
<1> HIDE DEF e, row, changes
<1>8. d # e
  BY <1>2, <1>3
<1>9. \A chg \in changes : IsChange(chg) /\ ~Locked(c, chg[1])
  BY <1>1, <1>2, <1>3, <1>5, <1>6, WriterShape DEF IsChange, IsWriter
<1>10. \A x, y \in changes : x[1] = y[1] => x = y
  BY <1>6, <1>8
<1>11. changes # {} <=> Accepted("S") /\ call[c].fn.act # "get"
  BY <1>1, <1>7 DEF Accepted
<1>12. AnswerIsTrue(c)'
  <2>1. NumberTold(c)' = number
    BY <1>1, <1>4, RanNumber
  <2>2. \A x \in changes : x[1] \in Docs => Committed(c)'[x[1]] = x[2]
    BY <1>4, <1>10, RanCommitted
  <2>3. Committed(c)'[d] = sap[e]
    BY <1>7, <2>2
  <2>4. Shows(sap[e], call[c].fn)
    BY <1>1, <1>2, WriterShape DEF Shows, IsWriter
  <2>5. NumberTold(c)' \in Docs => Shows(Committed(c)'[NumberTold(c)'], call[c].fn)
    BY <2>1, <2>3, <2>4, CallsAssumption
  <2> QED
    BY <1>1, <1>4, <2>5, AnswerOfRan
<1> QED
  BY <1>1, <1>4, <1>9, <1>10, <1>11, <1>12, RanStep

LEMMA SAPShowsStep ==
  ASSUME IInv, TypeOK', NEW c \in Callers, SAPShows(c) PROVE IInv'
<1> DEFINE changes == {}
<1>1. /\ call[c].fn \in Writers /\ call[c].pc = "open" /\ client = "bapi"
      /\ call[c].fn.act = "get"
      /\ call[c].arg \in Docs /\ sap[call[c].arg].family = call[c].fn.family
  BY DEF SAPShows, Running
<1>2. PICK number \in {call[c].arg, NoDoc} : Ran(c, "S", number, changes)
  BY DEF SAPShows
<1>3. changes = {}
  OBVIOUS
<1> HIDE DEF changes
<1>4. changes # {} <=> Accepted("S") /\ call[c].fn.act # "get"
  BY <1>1, <1>3
<1>5. AnswerIsTrue(c)'
  <2>1. NumberTold(c)' \in {call[c].arg, NoDoc}
    BY <1>1, <1>2, RanNumber
  <2>2. Committed(c)'[call[c].arg] = sap[call[c].arg]
    BY <1>1, <1>2, <1>3, RanCommitted
  <2>3. Shows(sap[call[c].arg], call[c].fn)
    BY <1>1, WriterShape DEF Shows, IsWriter, IInv, AbsentIsNone
  <2>4. NumberTold(c)' \in Docs => Shows(Committed(c)'[NumberTold(c)'], call[c].fn)
    BY <2>1, <2>2, <2>3, CallsAssumption
  <2> QED
    BY <1>1, <1>2, <2>4, AnswerOfRan
<1> QED
  BY <1>1, <1>2, <1>3, <1>4, <1>5, RanStep

LEMMA SAPRejectsStep ==
  ASSUME IInv, TypeOK', NEW c \in Callers, SAPRejects(c) PROVE IInv'
<1> DEFINE changes == {}
<1>1. call[c].fn \in Writers /\ call[c].pc = "open" /\ client = "bapi"
  BY DEF SAPRejects, Running
<1>2. PICK ret \in {"E", "A"} : Ran(c, ret, NoDoc, changes)
  BY DEF SAPRejects
<1>3. changes = {}
  OBVIOUS
<1> HIDE DEF changes
<1>4. ~Accepted(ret)
  BY DEF Accepted
<1>5. AnswerIsTrue(c)'
  <2>1. call'[c].ret = ret
    BY <1>1, <1>2, RanRecord DEF IInv
  <2> QED
    BY <1>4, <2>1 DEF AnswerIsTrue, Accepted
<1> QED
  BY <1>1, <1>2, <1>3, <1>4, <1>5, RanStep

--------------------------------------------------------------------------------
(* The commit. *)

\* Where a document has changed, and how.
LEMMA CommitRows ==
  ASSUME IInv, NEW c \in Callers, NEW d \in Docs
  PROVE  \/ d \notin Changed(c) /\ Committed(c)[d] = sap[d]
         \/ \E chg \in luw[c] : chg[1] = d /\ IsChange(chg) /\ Committed(c)[d] = chg[2]
<1>1. CASE d \notin Changed(c)
  BY <1>1 DEF Committed
<1>2. CASE d \in Changed(c)
  <2>1. PICK chg \in luw[c] : chg[1] = d
    BY <1>2 DEF Changed
  <2>2. Committed(c)[d] = chg[2]
    BY <2>1, CommittedRow DEF IInv, LuwsAreApart
  <2>3. IsChange(chg)
    BY DEF IInv, CallerOK, LuwChanges
  <2> QED
    BY <2>1, <2>2, <2>3
<1> QED
  BY <1>1, <1>2

\* What was so of a document stays so, and a document never goes.
LEMMA CommitKeeps ==
  ASSUME IInv, NEW c \in Callers, NEW d \in Docs
  PROVE  /\ \A says : Shows(sap[d], says) => Shows(Committed(c)[d], says)
         /\ Committed(c)[d].status = "absent" => Committed(c)[d].family = "none"
BY CommitRows DEF IInv, AbsentIsNone, Shows, IsChange

\* Of the other callers, whose connections have changed other documents.
LEMMA CommitLeaves ==
  ASSUME IInv, NEW c \in Callers, NEW q \in Callers \ {c},
         sap' = Committed(c), UNCHANGED client,
         UNCHANGED <<call[q], luw[q], effect[q], outcome[q]>>
  PROVE  CallerOK(q)'
<1>1. InsideIsWriter(q)' /\ Placed(q)' /\ MockAsksNoDocs(q)' /\ ChangesTakeEffect(q)'
  BY DEF IInv, CallerOK, InsideIsWriter, Placed, MockAsksNoDocs, ChangesTakeEffect
<1>2. Changed(q)' = Changed(q) /\ NumberTold(q)' = NumberTold(q)
  BY DEF Changed, NumberTold
<1>3. LuwChanges(q)'
  <2> SUFFICES ASSUME NEW chg \in luw[q] PROVE IsChange(chg)'
    BY DEF LuwChanges
  <2>1. chg[1] \in Docs
    <3>1. luw[q] \in SUBSET (Docs \X DocRow)
      BY DEF IInv, TypeOK
    <3>2. chg \in Docs \X DocRow
      BY <3>1
    <3> QED
      BY <3>2
  <2>2. chg[1] \notin Changed(c)
    BY DEF IInv, LuwsAreApart, Changed
  <2>3. Committed(c)[chg[1]] = sap[chg[1]]
    BY <2>1, <2>2 DEF Committed
  <2>4. IsChange(chg)
    BY DEF IInv, CallerOK, LuwChanges
  <2>5. sap'[chg[1]] = sap[chg[1]]
    BY <2>3
  <2> QED
    BY <2>4, <2>5 DEF IsChange
<1>4. ASSUME NEW d \in Docs, NEW says, Shows(Committed(q)[d], says)
      PROVE  Shows(Committed(q)'[d], says)
  <2>1. CASE d \in Changed(q)
    <3>1. Committed(q)'[d] = Committed(q)[d]
      BY <1>2, <2>1 DEF Committed
    <3> QED
      BY <1>4, <3>1
  <2>2. CASE d \notin Changed(q)
    <3>1. Committed(q)[d] = sap[d]
      BY <2>2 DEF Committed
    <3>2. Committed(q)'[d] = sap'[d]
      BY <1>2, <2>2 DEF Committed
    <3>3. Shows(sap[d], says)
      BY <1>4, <3>1
    <3>4. Shows(Committed(c)[d], says)
      BY <3>3, CommitKeeps
    <3> QED
      BY <3>2, <3>4
  <2> QED
    BY <2>1, <2>2
<1>5. AnswerIsTrue(q)'
  BY <1>2, <1>4 DEF IInv, CallerOK, AnswerIsTrue
<1> QED
  BY <1>1, <1>3, <1>5 DEF CallerOK

LEMMA CommitsStep ==
  ASSUME IInv, TypeOK', NEW c \in Callers, sap' = Committed(c), UNCHANGED <<client, told, unfounded>>,
         CallerOK(c)', luw'[c] = {},
         \A q \in Callers \ {c} : UNCHANGED <<call[q], luw[q], effect[q], outcome[q]>>
  PROVE  IInv'
<1>1. \A q \in Callers \ {c} : CallerOK(q)'
  BY CommitLeaves
<1>2. LuwsAreApart'
  BY EmptyIsApart DEF IInv
<1>3. AbsentIsNone'
  BY CommitKeeps DEF AbsentIsNone
<1>4. MockTellsNoDocs'
  BY DEF IInv, MockTellsNoDocs
<1>5. ToldIsTrue'
  <2> SUFFICES ASSUME NEW t \in told, t.doc \in Docs PROVE Shows(sap'[t.doc], t)
    BY DEF ToldIsTrue, Shows
  <2>1. Shows(sap[t.doc], t)
    BY DEF IInv, ToldIsTrue, Shows
  <2> QED
    BY <2>1, CommitKeeps
<1> QED
  BY <1>1, <1>2, <1>3, <1>4, <1>5 DEF IInv

LEMMA CommitStep ==
  ASSUME IInv, TypeOK', NEW c \in Callers, Commit(c) PROVE IInv'
<1>1. call[c] \in CallShape /\ call[c].pc = "ran" /\ CallerOK(c)
  BY CallRecord DEF IInv, Commit
<1>2. client = "bapi" /\ call[c].fn \in Writers
  BY <1>1 DEF CallerOK, Placed, InsideIsWriter
<1>3. call'[c] = [call[c] EXCEPT !.pc = "answered"]
  BY DEF IInv, TypeOK, Commit
<1>4. /\ call'[c].pc = "answered" /\ call'[c].fn = call[c].fn /\ call'[c].ret = call[c].ret
      /\ call'[c].arg = call[c].arg /\ call'[c].number = call[c].number
      /\ call'[c].commit = call[c].commit
  BY <1>1, <1>3 DEF CallShape
<1>5. luw'[c] = {} /\ effect'[c] = Changed(c) /\ outcome'[c] = outcome[c]
  BY DEF IInv, TypeOK, Commit
<1>6. \A q \in Callers \ {c} : UNCHANGED <<call[q], luw[q], effect[q], outcome[q]>>
  BY DEF IInv, TypeOK, Commit
<1>7. sap' = Committed(c) /\ UNCHANGED <<client, told, unfounded>>
  BY DEF Commit
<1>8. AnswerIsTrue(c)'
  <2>1. Committed(c)' = Committed(c)
    <3>1. Changed(c)' = {}
      BY <1>5 DEF Changed
    <3>2. Committed(c)' = [d \in Docs |-> Committed(c)[d]]
      BY <1>7, <3>1 DEF Committed
    <3>3. Committed(c) = [d \in Docs |-> Committed(c)[d]]
      BY DEF Committed
    <3> QED
      BY <3>2, <3>3
  <2>2. NumberTold(c)' = NumberTold(c)
    BY <1>4 DEF NumberTold
  <2> QED
    BY <1>1, <1>4, <2>1, <2>2 DEF CallerOK, AnswerIsTrue
<1>9. ChangesTakeEffect(c)'
  <2>1. Changed(c) # {} <=> luw[c] # {}
    BY DEF Changed
  <2> QED
    BY <1>1, <1>2, <1>4, <1>5, <2>1 DEF CallerOK, ChangesTakeEffect, Placed
<1>10. CallerOK(c)'
  <2>1. InsideIsWriter(c)' /\ LuwChanges(c)'
    BY <1>2, <1>4, <1>5 DEF InsideIsWriter, LuwChanges
  <2>2. Placed(c)' /\ MockAsksNoDocs(c)'
    BY <1>1, <1>2, <1>4, <1>5, <1>7 DEF CallerOK, Placed, MockAsksNoDocs
  <2> QED
    BY <1>8, <1>9, <2>1, <2>2 DEF CallerOK
<1> QED
  BY <1>5, <1>6, <1>7, <1>10, CommitsStep

\* SAP drops what an accepted change has done; its answer goes on unread.
LEMMA CommitRefusedStep ==
  ASSUME IInv, TypeOK', NEW c \in Callers, CommitRefused(c) PROVE IInv'
<1>1. call[c] \in CallShape /\ call[c].pc = "ran" /\ CallerOK(c) /\ luw[c] # {}
  BY CallRecord DEF IInv, CommitRefused
<1>2. client = "bapi" /\ call[c].fn \in Writers /\ effect[c] = {} /\ outcome[c] = "busy"
  BY <1>1 DEF CallerOK, Placed, InsideIsWriter
<1>3. call'[c] = [call[c] EXCEPT !.pc = "answered", !.commit = "refused"]
  BY DEF IInv, TypeOK, CommitRefused
<1>4. /\ call'[c].pc = "answered" /\ call'[c].fn = call[c].fn /\ call'[c].ret = call[c].ret
      /\ call'[c].commit = "refused"
  BY <1>1, <1>3 DEF CallShape
<1>5. luw'[c] = {} /\ UNCHANGED <<client, sap, effect, outcome, told, unfounded>>
  BY DEF IInv, TypeOK, CommitRefused
<1>6. \A q \in Callers \ {c} : UNCHANGED <<call[q], luw[q], effect[q], outcome[q]>>
  BY DEF IInv, TypeOK, CommitRefused
<1>7. Accepted(call[c].ret) /\ call[c].fn.act # "get"
  BY <1>1, <1>2 DEF CallerOK, ChangesTakeEffect
<1>8. ChangesTakeEffect(c)'
  BY <1>2, <1>4, <1>5, <1>7 DEF ChangesTakeEffect, Accepted
<1>9. AnswerIsTrue(c)' /\ Placed(c)' /\ InsideIsWriter(c)' /\ LuwChanges(c)'
  BY <1>2, <1>4, <1>5 DEF AnswerIsTrue, Placed, InsideIsWriter, LuwChanges
<1>10. MockAsksNoDocs(c)'
  BY <1>2, <1>5 DEF MockAsksNoDocs
<1>11. CallerOK(c)'
  BY <1>8, <1>9, <1>10 DEF CallerOK
<1>12. LuwsAreApart'
  BY <1>5, <1>6, EmptyIsApart DEF IInv
<1> QED
  BY <1>5, <1>6, <1>11, <1>12, OneCaller

--------------------------------------------------------------------------------
(* The end of a call. *)

\* A caller whose call has ended is in order, whatever SAP holds.
LEMMA EndsFrees ==
  ASSUME TypeOK, NEW c \in Callers, NEW how \in {"written", "unfounded", "read", "refused", "cut"},
         Ends(c, how)
  PROVE  /\ CallerOK(c)' /\ luw'[c] = {} /\ outcome'[c] = how /\ call'[c] = NoCall
         /\ \A q \in Callers \ {c} : UNCHANGED <<call[q], luw[q], outcome[q]>>
<1>1. luw'[c] = {} /\ outcome'[c] = how /\ call'[c] = NoCall
  BY DEF TypeOK, Ends
<1>2. NoCall.pc = "idle" /\ NoCall.arg = NoDoc /\ NoCall.number = NoDoc /\ NoCall.commit # "refused"
  BY DEF NoCall
<1>3. \A q \in Callers \ {c} : UNCHANGED <<call[q], luw[q], outcome[q]>>
  BY DEF TypeOK, Ends
<1>4. CallerOK(c)'
  BY <1>1, <1>2, CallsAssumption
  DEF CallerOK, InsideIsWriter, Placed, MockAsksNoDocs, LuwChanges, AnswerIsTrue, ChangesTakeEffect
<1> QED
  BY <1>1, <1>3, <1>4

LEMMA EndsStep ==
  ASSUME IInv, TypeOK', NEW c \in Callers, NEW how \in {"written", "unfounded", "read", "refused", "cut"},
         Ends(c, how), UNCHANGED <<client, sap, effect, told, unfounded>>
  PROVE  IInv'
<1>1. CallerOK(c)' /\ luw'[c] = {}
  BY EndsFrees DEF IInv
<1>2. \A q \in Callers \ {c} : UNCHANGED <<call[q], luw[q], effect[q], outcome[q]>>
  BY EndsFrees DEF IInv
<1>3. LuwsAreApart'
  BY <1>1, <1>2, EmptyIsApart DEF IInv
<1>4. UNCHANGED <<client, sap, told, unfounded>>
  OBVIOUS
<1> QED
  BY <1>1, <1>2, <1>3, <1>4, OneCaller

LEMMA CommitUnheardStep ==
  ASSUME IInv, TypeOK', NEW c \in Callers, CommitUnheard(c) PROVE IInv'
<1>1. Ends(c, "cut") /\ sap' = Committed(c) /\ UNCHANGED <<client, told, unfounded>>
  BY DEF CommitUnheard
<1>2. CallerOK(c)' /\ luw'[c] = {}
  BY <1>1, EndsFrees DEF IInv
<1>3. \A q \in Callers \ {c} : UNCHANGED <<call[q], luw[q], outcome[q]>>
  BY <1>1, EndsFrees DEF IInv
<1>4. \A q \in Callers \ {c} : UNCHANGED effect[q]
  BY DEF CommitUnheard, IInv, TypeOK
<1> QED
  BY <1>1, <1>2, <1>3, <1>4, CommitsStep

\* A DTO is filled from an answer that is so, after the commit.
LEMMA AnswerStep ==
  ASSUME IInv, TypeOK', NEW c \in Callers, Answer(c) PROVE IInv'
<1> DEFINE new == [doc |-> NumberTold(c), family |-> call[c].fn.family, says |-> call[c].fn.says]
<1>1. PICK how \in {"written", "read"} : Ends(c, how)
  BY DEF Answer
<1>2. told' = told \cup {new} /\ UNCHANGED <<client, sap, effect, unfounded>>
  BY DEF Answer
<1>3. CallerOK(c)' /\ luw'[c] = {}
  BY <1>1, EndsFrees DEF IInv
<1>4. \A q \in Callers \ {c} : UNCHANGED <<call[q], luw[q], effect[q], outcome[q]>>
  BY <1>1, <1>2, EndsFrees DEF IInv
<1>5. LuwsAreApart'
  BY <1>3, <1>4, EmptyIsApart DEF IInv
<1>6. \A q \in Callers : CallerOK(q)'
  BY <1>2, <1>3, <1>4, Bystander DEF IInv
<1>7. /\ call[c].pc = "answered" /\ Accepted(call[c].ret) /\ call[c].commit # "refused"
      /\ call[c].fn \in Writers /\ luw[c] = {}
  BY DEF Answer, IInv, TypeOK, CallerOK, InsideIsWriter
<1>8. AbsentIsNone'
  BY <1>2 DEF IInv, AbsentIsNone
<1>9. MockTellsNoDocs'
  <2>1. client # "bapi" => NumberTold(c) \notin Docs
    BY <1>7, NumberToldIs DEF IInv, CallerOK, MockAsksNoDocs
  <2> QED
    BY <1>2, <2>1 DEF IInv, MockTellsNoDocs
<1>10. ToldIsTrue'
  <2>1. NumberTold(c) \in Docs => Committed(c)[NumberTold(c)] = sap[NumberTold(c)]
    BY <1>7 DEF Committed, Changed
  <2>2. new.doc \in Docs => Shows(sap[new.doc], call[c].fn)
    BY <1>7, <2>1 DEF IInv, CallerOK, AnswerIsTrue
  <2>3. new.family = call[c].fn.family /\ new.says = call[c].fn.says
    OBVIOUS
  <2> HIDE DEF new
  <2>4. \A t \in told' : t \in told \/ t = new
    BY <1>2
  <2> QED
    BY <1>2, <2>2, <2>3, <2>4 DEF IInv, ToldIsTrue, Shows
<1> QED
  BY <1>5, <1>6, <1>8, <1>9, <1>10 DEF IInv

\* A DTO with nothing behind it; of the mock there is none.
LEMMA AnswerUnfoundedStep ==
  ASSUME IInv, TypeOK', NEW c \in Callers, AnswerUnfounded(c) PROVE IInv'
<1>1. Ends(c, "unfounded") /\ UNCHANGED <<client, sap, effect, told>> /\ call[c].commit = "refused"
  BY DEF AnswerUnfounded
<1>2. CallerOK(c)' /\ luw'[c] = {}
  BY <1>1, EndsFrees DEF IInv
<1>3. \A q \in Callers \ {c} : UNCHANGED <<call[q], luw[q], effect[q], outcome[q]>>
  BY <1>1, EndsFrees DEF IInv
<1>4. LuwsAreApart'
  BY <1>2, <1>3, EmptyIsApart DEF IInv
<1>5. \A q \in Callers : CallerOK(q)'
  BY <1>1, <1>2, <1>3, Bystander DEF IInv
<1>6. MockTellsNoDocs'
  BY <1>1 DEF IInv, MockTellsNoDocs, CallerOK, Placed
<1>7. AbsentIsNone' /\ ToldIsTrue'
  BY <1>1 DEF IInv, AbsentIsNone, ToldIsTrue
<1> QED
  BY <1>4, <1>5, <1>6, <1>7 DEF IInv

--------------------------------------------------------------------------------
(* The mock, and the beginning of a call. *)

LEMMA MockCalledStep ==
  ASSUME IInv, TypeOK', NEW c \in Callers, MockCalled(c) PROVE IInv'
<1>1. /\ call[c] \in CallShape /\ call[c].pc = "open" /\ CallerOK(c)
      /\ client # "bapi" /\ call[c].fn \in Writers
  BY CallRecord DEF IInv, MockCalled, Scenarios
<1>2. call'[c] = [call[c] EXCEPT !.pc = "answered", !.ret = MockReturn, !.number = MockNumber]
  BY DEF IInv, TypeOK, MockCalled
<1>3. /\ call'[c].pc = "answered" /\ call'[c].fn = call[c].fn
      /\ call'[c].arg = call[c].arg /\ call'[c].number = MockNumber
      /\ call'[c].commit = call[c].commit
  BY <1>1, <1>2 DEF CallShape
<1>4. MockNumber \notin Docs
  BY CallsAssumption DEF MockNumber
<1>5. \A q \in Callers \ {c} : UNCHANGED <<call[q], luw[q], effect[q], outcome[q]>>
  BY DEF IInv, TypeOK, MockCalled
<1>6. UNCHANGED <<client, sap, told, unfounded, luw, outcome>>
  BY DEF MockCalled
<1>7. MockAsksNoDocs(c)'
  BY <1>1, <1>3, <1>4 DEF CallerOK, MockAsksNoDocs
<1>8. AnswerIsTrue(c)'
  <2>1. NumberTold(c)' \in {call'[c].arg, call'[c].number}
    BY <1>1, <1>3, WriterShape DEF IsWriter, NumberTold
  <2> QED
    BY <1>1, <1>6, <1>7, <2>1 DEF MockAsksNoDocs, AnswerIsTrue
<1>9. CallerOK(c)'
  BY <1>1, <1>3, <1>6, <1>7, <1>8
  DEF CallerOK, InsideIsWriter, Placed, LuwChanges, IsChange, ChangesTakeEffect
<1>10. LuwsAreApart'
  BY <1>6 DEF IInv, LuwsAreApart
<1> QED
  BY <1>5, <1>6, <1>9, <1>10, OneCaller

LEMMA OpenCallStep ==
  ASSUME IInv, TypeOK', NEW c \in Callers, NEW f \in Used, OpenCall(c, f) PROVE IInv'
<1>1. PICK d \in Arguments(f) :
        call' = [call EXCEPT ![c] = [NoCall EXCEPT !.pc = "open", !.fn = f, !.arg = d]]
  BY DEF OpenCall
<1>2. call'[c] = [NoCall EXCEPT !.pc = "open", !.fn = f, !.arg = d]
  BY <1>1 DEF IInv, TypeOK
<1>3. call'[c].pc = "open" /\ call'[c].arg = d /\ call'[c].number = NoDoc /\ call'[c].commit # "refused"
  BY <1>2 DEF NoCall
<1>4. client # "bapi" => d \notin Docs
  BY CallsAssumption DEF Arguments, Known, IInv, MockTellsNoDocs
<1>5. luw[c] = {} /\ effect'[c] = {} /\ outcome'[c] = "busy"
  BY DEF OpenCall, IInv, TypeOK
<1>6. UNCHANGED <<client, sap, luw, told, unfounded>>
  BY DEF OpenCall
<1>7. \A q \in Callers \ {c} : UNCHANGED <<call[q], luw[q], effect[q], outcome[q]>>
  BY DEF IInv, TypeOK, OpenCall
<1>8. CallerOK(c)'
  BY <1>3, <1>4, <1>5, <1>6, CallsAssumption
  DEF CallerOK, InsideIsWriter, Placed, MockAsksNoDocs, LuwChanges, AnswerIsTrue, ChangesTakeEffect
<1>9. LuwsAreApart'
  BY <1>6 DEF IInv, LuwsAreApart
<1> QED
  BY <1>6, <1>7, <1>8, <1>9, OneCaller

--------------------------------------------------------------------------------
(* Every step. *)

\* The steps in which a call ends and nothing else happens.
Ending(c) ==
  \/ ConnectionFails(c) \/ Refusal(c) \/ AnswerUnreadable(c)
  \/ MockTransportError(c) \/ RowsRead(c) \/ RowNotFound(c) \/ ReadFails(c)

LEMMA EndingEnds ==
  ASSUME NEW c \in Callers, Ending(c)
  PROVE  /\ \E how \in {"written", "unfounded", "read", "refused", "cut"} : Ends(c, how)
         /\ UNCHANGED <<client, sap, effect, told, unfounded>>
BY DEF Ending, ConnectionFails, Refusal, AnswerUnreadable, MockTransportError, RowsRead,
       RowNotFound, ReadFails

LEMMA Stutter == IInv /\ UNCHANGED vars => IInv'
<1> SUFFICES ASSUME IInv, UNCHANGED vars PROVE IInv'
  OBVIOUS
<1>1. \A c \in Callers : CallerOK(c)'
  BY Bystander DEF IInv, vars
<1>2. TypeOK'
  BY DEF IInv, TypeOK, vars
<1> QED
  BY <1>1, <1>2 DEF IInv, vars, AbsentIsNone, MockTellsNoDocs, LuwsAreApart, ToldIsTrue

LEMMA NextIInv == IInv /\ [Next]_vars => IInv'
<1> SUFFICES ASSUME IInv, [Next]_vars PROVE IInv'
  OBVIOUS
<1>1. TypeOK'
  BY NextTypeOK
<1>2. CASE UNCHANGED vars
  BY <1>2, Stutter
<1>3. ASSUME NEW c \in Callers, Ending(c) PROVE IInv'
  BY <1>1, <1>3, EndingEnds, EndsStep
<1>4. CASE Next
  BY <1>1, <1>3, <1>4, OpenCallStep, SAPCreatesStep, SAPMovesStep, SAPReversesStep,
     SAPShowsStep, SAPRejectsStep, CommitStep, CommitRefusedStep, CommitUnheardStep, AnswerStep,
     AnswerUnfoundedStep, MockCalledStep
  DEF Next, Ending
<1> QED
  BY <1>2, <1>4

\* The invariant holds of every behaviour.
THEOREM Invariance == Spec => []IInv
BY InitIInv, NextIInv, PTL DEF Spec

\* The state of clients, connections, calls and SAP stays well typed, and only a
\* connection between its function and its commit holds changes SAP has not committed.
THEOREM TypeCorrect == Spec => []TypeOK
<1>1. IInv => TypeOK
  BY DEF IInv
<1> QED
  BY <1>1, Invariance, PTL

\* What a DTO said of a document stays true in SAP, although the adapter commits
\* before it looks at RETURN and takes a change's number from its own request;
\* what was said behind a refused commit, which the client ignores, is left out.
THEOREM ToldIsTrueHolds == Spec => []ToldIsTrue
<1>1. IInv => ToldIsTrue
  BY DEF IInv
<1> QED
  BY <1>1, Invariance, PTL

--------------------------------------------------------------------------------
(* SAPCalls implements SAPCallPromise.  The mapping shows the promise the    *)
(* statuses SAP holds, and, when the client is the mock, callers that never  *)
(* call.                                                                     *)

statusOf == [d \in Docs |-> sap[d].status]
effectOf == IF Simulated THEN [c \in Callers |-> {}] ELSE effect
outcomeOf == IF Simulated THEN [c \in Callers |-> "none"] ELSE outcome

\* The promise's variables, as the mapping gives them.
LEMMA Mapping ==
  UNCHANGED <<statusOf, effectOf, outcomeOf>> => UNCHANGED Promise!promiseVars
BY DEF statusOf, effectOf, outcomeOf, Simulated, Promise!promiseVars

LEMMA InitPromise == Init => Promise!PromiseInit
<1> SUFFICES ASSUME Init PROVE Promise!PromiseInit
  OBVIOUS
<1>1. [d \in Docs |-> sap[d].status] \in [Docs -> Statuses]
  BY DEF Init, Statuses
<1> QED
  BY <1>1 DEF Init, Promise!PromiseInit, Simulated

\* With the mock the promise's state never moves.
LEMMA MockStep ==
  ASSUME IInv, [Next]_vars, client # "bapi" PROVE UNCHANGED Promise!promiseVars
<1>1. \A c \in Callers : call[c].pc # "ran"
  BY DEF IInv, CallerOK, Placed
<1>2. ASSUME NEW c \in Callers,
             \/ SAPCreates(c) \/ SAPMoves(c) \/ SAPReverses(c) \/ SAPShows(c)
             \/ SAPRejects(c) \/ CommitRefused(c)
      PROVE  UNCHANGED <<client, sap>>
  BY <1>2 DEF SAPCreates, SAPMoves, SAPReverses, SAPShows, SAPRejects, Ran, CommitRefused
<1>3. ASSUME NEW c \in Callers,
             \/ \E f \in Used : OpenCall(c, f)
             \/ Answer(c) \/ AnswerUnfounded(c) \/ MockCalled(c) \/ Ending(c)
      PROVE  UNCHANGED <<client, sap>>
  BY <1>3, EndingEnds DEF OpenCall, Answer, AnswerUnfounded, MockCalled
<1>4. \A c \in Callers : ~Commit(c) /\ ~CommitUnheard(c)
  BY <1>1 DEF Commit, CommitUnheard
<1>5. UNCHANGED <<client, sap>>
  <2>1. CASE Next
    <3>1. PICK c \in Callers :
            \/ \/ SAPCreates(c) \/ SAPMoves(c) \/ SAPReverses(c) \/ SAPShows(c)
               \/ SAPRejects(c) \/ CommitRefused(c)
            \/ \/ \E f \in Used : OpenCall(c, f)
               \/ Answer(c) \/ AnswerUnfounded(c) \/ MockCalled(c) \/ Ending(c)
            \/ Commit(c) \/ CommitUnheard(c)
      BY <2>1 DEF Next, Ending
    <3> QED
      BY <1>2, <1>3, <1>4, <3>1
  <2>2. CASE UNCHANGED vars
    BY <2>2 DEF vars
  <2> QED
    BY <2>1, <2>2
<1> QED
  BY <1>5, Mapping DEF statusOf, effectOf, outcomeOf, Simulated

\* The commit of a connection that has changed something is the one effect.
LEMMA CommitTakes ==
  ASSUME IInv, NEW c \in Callers, call[c].pc = "ran", client = "bapi", UNCHANGED client,
         sap' = Committed(c), effect' = [effect EXCEPT ![c] = Changed(c)],
         Changed(c) # {},
         UNCHANGED outcome \/ outcome' = [outcome EXCEPT ![c] = "cut"]
  PROVE  Promise!Take(c)
<1>1. outcome[c] = "busy" /\ effect[c] = {}
  BY DEF IInv, CallerOK, Placed
<1> DEFINE s == [d \in Changed(c) |-> Committed(c)[d].status]
<1>2. Committed(c) \in [Docs -> DocRow] /\ Changed(c) \in SUBSET Docs
  BY CommittedOK DEF IInv
<1>3. s \in [Changed(c) -> Statuses]
  <2>1. ASSUME NEW d \in Changed(c) PROVE Committed(c)[d].status \in Statuses
    BY <1>2 DEF DocRow
  <2> QED
    BY <2>1
<1>4. [d \in Docs |-> sap'[d].status] =
        [d \in Docs |-> IF d \in Changed(c) THEN s[d] ELSE [e \in Docs |-> sap[e].status][d]]
  <2>1. ASSUME NEW d \in Docs
        PROVE  sap'[d].status = IF d \in Changed(c) THEN s[d] ELSE sap[d].status
    <3>1. CASE d \in Changed(c)
      BY <3>1
    <3>2. CASE d \notin Changed(c)
      BY <3>2 DEF Committed
    <3> QED
      BY <3>1, <3>2
  <2> QED
    BY <2>1
<1>5. ~Simulated /\ ~Simulated'
  BY DEF Simulated
<1> HIDE DEF s
<1>6. Changed(c) \in (SUBSET Docs) \ {{}}
  BY <1>2
<1> QED
  BY <1>1, <1>3, <1>4, <1>5, <1>6 DEF Promise!Take

\* A commit of nothing is no step of the promise.
LEMMA CommitOfNothing ==
  ASSUME IInv, NEW c \in Callers, call[c].pc = "ran",
         sap' = Committed(c), effect' = [effect EXCEPT ![c] = Changed(c)], Changed(c) = {}
  PROVE  UNCHANGED <<sap, effect>>
<1>1. effect[c] = {}
  BY DEF IInv, CallerOK, Placed
<1>2. effect' = effect
  BY <1>1 DEF IInv, TypeOK
<1>3. sap' = sap
  <2>1. sap \in [Docs -> DocRow]
    BY DEF IInv, TypeOK
  <2>2. Committed(c) = [d \in Docs |-> sap[d]]
    BY DEF Committed
  <2> QED
    BY <2>1, <2>2
<1> QED
  BY <1>2, <1>3

LEMMA CommitPromise ==
  ASSUME IInv, NEW c \in Callers, client = "bapi", Commit(c)
  PROVE  Promise!Take(c) \/ UNCHANGED Promise!promiseVars
<1>1. /\ call[c].pc = "ran" /\ sap' = Committed(c)
      /\ effect' = [effect EXCEPT ![c] = Changed(c)]
      /\ UNCHANGED client /\ UNCHANGED outcome
  BY DEF Commit
<1>2. CASE Changed(c) # {}
  BY <1>1, <1>2, CommitTakes
<1>3. CASE Changed(c) = {}
  <2>1. UNCHANGED <<sap, effect>>
    BY <1>1, <1>3, CommitOfNothing
  <2> QED
    BY <1>1, <2>1, Mapping DEF statusOf, effectOf, outcomeOf, Simulated
<1> QED
  BY <1>2, <1>3

\* A call that ends as its effect says it may.
LEMMA EndsPromise ==
  ASSUME IInv, NEW c \in Callers, call[c].pc # "idle", client = "bapi",
         NEW how, Ends(c, how), UNCHANGED <<client, sap, effect>>,
         \/ how = "written" /\ effect[c] # {}
         \/ how \in {"unfounded", "read", "refused"} /\ effect[c] = {}
         \/ how = "cut"
  PROVE  Promise!End(c)
<1>1. outcome[c] = "busy"
  BY DEF IInv, CallerOK, Placed
<1>2. outcome' = [outcome EXCEPT ![c] = how]
  BY DEF Ends
<1>3. ~Simulated /\ ~Simulated'
  BY DEF Simulated
<1> QED
  BY <1>1, <1>2, <1>3 DEF Promise!End

LEMMA CommitUnheardPromise ==
  ASSUME IInv, NEW c \in Callers, client = "bapi", CommitUnheard(c)
  PROVE  Promise!Take(c) \/ Promise!End(c)
<1>1. /\ call[c].pc = "ran" /\ sap' = Committed(c)
      /\ effect' = [effect EXCEPT ![c] = Changed(c)]
      /\ UNCHANGED client /\ Ends(c, "cut")
  BY DEF CommitUnheard
<1>2. outcome' = [outcome EXCEPT ![c] = "cut"]
  BY <1>1 DEF Ends
<1>3. CASE Changed(c) # {}
  BY <1>1, <1>2, <1>3, CommitTakes
<1>4. CASE Changed(c) = {}
  BY <1>1, <1>4, CommitOfNothing, EndsPromise
<1> QED
  BY <1>3, <1>4

\* Before its function has run a call has had no effect; after, its answer says which.
LEMMA EndingPromise ==
  ASSUME IInv, NEW c \in Callers, client = "bapi",
         Ending(c) \/ Answer(c) \/ AnswerUnfounded(c)
  PROVE  Promise!End(c)
<1>1. call[c].pc = "open" => effect[c] = {}
  BY DEF IInv, CallerOK, Placed
<1>2. call[c].pc = "answered" =>
        LET takes == Accepted(call[c].ret) /\ call[c].fn.act # "get" IN
        /\ call[c].commit # "refused" => (effect[c] # {} <=> takes)
        /\ call[c].commit = "refused" => effect[c] = {} /\ takes
  BY DEF IInv, CallerOK, ChangesTakeEffect
<1>3. CASE ConnectionFails(c) \/ AnswerUnreadable(c) \/ ReadFails(c)
  <2>1. call[c].pc # "idle" /\ Ends(c, "cut") /\ UNCHANGED <<client, sap, effect>>
    BY <1>3 DEF ConnectionFails, AnswerUnreadable, ReadFails, Reading
  <2> QED
    BY <2>1, EndsPromise
<1>4. CASE Refusal(c) \/ RowNotFound(c)
  <2>1. /\ call[c].pc # "idle" /\ Ends(c, "refused") /\ UNCHANGED <<client, sap, effect>>
        /\ effect[c] = {}
    BY <1>1, <1>2, <1>4 DEF Refusal, RowNotFound, Reading
  <2> QED
    BY <2>1, EndsPromise
<1>5. CASE RowsRead(c)
  <2>1. /\ call[c].pc # "idle" /\ Ends(c, "read") /\ UNCHANGED <<client, sap, effect>>
        /\ effect[c] = {}
    BY <1>1, <1>5 DEF RowsRead, Reading
  <2> QED
    BY <2>1, EndsPromise
<1>6. CASE Answer(c)
  <2>1. /\ call[c].pc = "answered" /\ Accepted(call[c].ret) /\ call[c].commit # "refused"
        /\ Ends(c, IF call[c].fn.act = "get" THEN "read" ELSE "written")
        /\ UNCHANGED <<client, sap, effect>>
    BY <1>6 DEF Answer
  <2>2. CASE call[c].fn.act = "get"
    BY <1>2, <2>1, <2>2, EndsPromise
  <2>3. CASE call[c].fn.act # "get"
    BY <1>2, <2>1, <2>3, EndsPromise
  <2> QED
    BY <2>2, <2>3
<1>8. CASE AnswerUnfounded(c)
  <2>1. /\ call[c].pc # "idle" /\ Ends(c, "unfounded") /\ UNCHANGED <<client, sap, effect>>
        /\ effect[c] = {}
    BY <1>2, <1>8 DEF AnswerUnfounded
  <2> QED
    BY <2>1, EndsPromise
<1>7. ~MockTransportError(c)
  BY DEF MockTransportError, Scenarios
<1> QED
  BY <1>3, <1>4, <1>5, <1>6, <1>7, <1>8 DEF Ending

LEMMA OpenCallPromise ==
  ASSUME IInv, NEW c \in Callers, NEW f \in Used, client = "bapi", OpenCall(c, f)
  PROVE  Promise!Begin(c)
<1>1. outcome[c] # "busy"
  BY DEF IInv, CallerOK, Placed, OpenCall
<1>2. ~Simulated /\ ~Simulated'
  BY DEF Simulated, OpenCall
<1> QED
  BY <1>1, <1>2 DEF OpenCall, Promise!Begin

\* The function in SAP has no effect there before the commit, nor has a refused one.
LEMMA RanPromise ==
  ASSUME NEW c \in Callers,
         \/ CommitRefused(c) \/ SAPCreates(c) \/ SAPMoves(c) \/ SAPReverses(c) \/ SAPShows(c) \/ SAPRejects(c)
  PROVE  UNCHANGED Promise!promiseVars
<1>1. UNCHANGED <<client, sap, effect, outcome>>
  BY DEF CommitRefused, SAPCreates, SAPMoves, SAPReverses, SAPShows, SAPRejects, Ran
<1> QED
  BY <1>1, Mapping DEF statusOf, effectOf, outcomeOf, Simulated

LEMMA NextPromise == IInv /\ [Next]_vars => [Promise!PromiseNext]_(Promise!promiseVars)
<1> SUFFICES ASSUME IInv, [Next]_vars
             PROVE  Promise!PromiseNext \/ UNCHANGED Promise!promiseVars
  OBVIOUS
<1>1. CASE client # "bapi"
  BY <1>1, MockStep
<1>2. CASE UNCHANGED vars
  BY <1>2, Mapping DEF vars, statusOf, effectOf, outcomeOf, Simulated
<1>3. ASSUME client = "bapi", NEW c \in Callers,
             Ending(c) \/ Answer(c) \/ AnswerUnfounded(c)
      PROVE  Promise!PromiseNext
  BY <1>3, EndingPromise DEF Promise!PromiseNext
<1>4. ASSUME client = "bapi", NEW c \in Callers, NEW f \in Used, OpenCall(c, f)
      PROVE  Promise!PromiseNext
  BY <1>4, OpenCallPromise DEF Promise!PromiseNext
<1>5. ASSUME client = "bapi", NEW c \in Callers, Commit(c) \/ CommitUnheard(c)
      PROVE  Promise!PromiseNext \/ UNCHANGED Promise!promiseVars
  BY <1>5, CommitPromise, CommitUnheardPromise DEF Promise!PromiseNext
<1>6. \A c \in Callers : client = "bapi" => ~MockCalled(c)
  BY DEF MockCalled, Scenarios
<1>7. CASE client = "bapi" /\ Next
  BY <1>3, <1>4, <1>5, <1>6, <1>7, RanPromise DEF Next, Ending
<1> QED
  BY <1>1, <1>2, <1>7

\* The calls keep the ports' promise: one effect at most, none behind a refusal,
\* and one behind every DTO of a change whose commit SAP did not refuse.
THEOREM PromiseKeptHolds == Spec => PromiseKept
BY InitPromise, NextPromise, Invariance, PTL DEF Spec, PromiseKept, Promise!PromiseSpec

================================================================================
