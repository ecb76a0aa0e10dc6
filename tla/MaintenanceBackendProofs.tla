---------------------- MODULE MaintenanceBackendProofs ----------------------
(***************************************************************************)
(* Theorems about MaintenanceBackend for any number of records, users,     *)
(* transactions and requests in flight.                                    *)
(***************************************************************************)
EXTENDS MaintenanceBackend, TLAPS

AuditRow(o, tx) ==
    \E i \in DOMAIN approvals :
        approvals[i].order = o /\ approvals[i].role = "AUDITOR"
        /\ approvals[i].decision = "APPROVED" /\ approvals[i].tx = tx

\* What a handler knows at each stage.  Nothing of it can be lost while the handler
\* waits, for rows are only ever appended and a transaction that succeeded has
\* succeeded for good.
HandlerKnows(r) ==
    /\ request[r] # None /\ request[r].kind = "audit" =>
          /\ request[r].stage \in {"verify", "resolve", "record", "certify"} =>
                HasRow(request[r].order, "SUPERVISOR", "APPROVED")
          /\ request[r].stage \in {"resolve", "record", "certify"} =>
                request[r].tx \in succeeded \union {None}
          /\ request[r].stage = "certify" => AuditRow(request[r].order, request[r].tx)
    /\ request[r] # None =>
          /\ request[r].stage \in {"verify", "certify"} => request[r].kind = "audit"
          /\ request[r].stage = "insert" => request[r].user \in users
          /\ request[r].stage \in {"count_auditors", "simulate"} =>
                HasRow(request[r].order, "SUPERVISOR", "APPROVED")
          /\ request[r].stage = "simulate" => HasRow(request[r].order, "AUDITOR", "APPROVED")
          /\ request[r].stage = "events" /\ request[r].seen = "COMPLIANT" =>
                /\ HasRow(request[r].order, "SUPERVISOR", "APPROVED")
                /\ HasRow(request[r].order, "AUDITOR", "APPROVED")

\* A compliant record is backed by rows that name its transaction.
RecordsAreBacked ==
    \A o \in Orders : Stored(o) =>
        /\ orders[o].status = "COMPLIANT" =>
              HasRow(o, "SUPERVISOR", "APPROVED") /\ AuditRow(o, orders[o].tx_id)
        /\ orders[o].tx_id # None =>
              orders[o].tx_id \in succeeded /\ AuditRow(o, orders[o].tx_id)

BackendInv ==
    /\ TypeOK
    /\ \A r \in Slots : HandlerKnows(r)
    /\ RecordsAreBacked
    /\ AuditorsComeSecond

-----------------------------------------------------------------------------
\* Most steps only read the tables.
Quiet == UNCHANGED <<users, orders, approvals, succeeded>>

Writes(r) ==
    InsertOrder(r) \/ UpdateEvidence(r) \/ UpdateStatus(r) \/ Record(r) \/ Certify(r)

LEMMA FewStepsWrite ==
    ASSUME [Next]_backendVars
    PROVE  \/ Quiet
           \/ \E r \in Slots : Writes(r)
           \/ \E user \in Users : RegisterUser(user)
           \/ \E tx \in Txs : LedgerApplies(tx)
<1>1. ASSUME NEW r \in Slots, Handle(r) PROVE Quiet \/ Writes(r)
  BY <1>1 DEF Handle, Quiet, Writes, Identify, CountApprovals, VerifyTx, Resolve, Reply,
              ReadRecord, ReadEvents, CountAuditors, Simulate
<1>2. ASSUME NEW r \in Slots, Abandon(r) PROVE Quiet
  BY <1>2 DEF Abandon, Quiet
<1>3. ASSUME NEW r \in Slots, NEW kind, NEW o, NEW user, NEW evidence, NEW tx,
             Receive(r, kind, o, user, evidence, tx)
      PROVE  Quiet
  BY <1>3 DEF Receive, Quiet
<1>4. ASSUME UNCHANGED backendVars PROVE Quiet
  BY <1>4 DEF backendVars, Quiet
<1>. QED
  BY <1>1, <1>2, <1>3, <1>4 DEF Next

\* Every step either keeps the rows or appends one.
LEMMA StepsAppend ==
    ASSUME TypeOK, [Next]_backendVars
    PROVE  \/ approvals' = approvals
           \/ \E r \in Slots : /\ At(r, "record")
                               /\ approvals' = Append(approvals, RowOf(r))
  BY FewStepsWrite DEF Quiet, Writes, InsertOrder, UpdateEvidence, UpdateStatus, Record, Certify,
                       RegisterUser, LedgerApplies

LEMMA RowType ==
    ASSUME TypeOK, NEW r \in Slots, At(r, "record")
    PROVE  RowOf(r) \in ApprovalRow /\ request[r] \in Request
<1>1. request[r] \in Request /\ request[r].stage = "record"
  BY DEF TypeOK, At
<1>2. request[r].user \in Users
  BY <1>1 DEF Request, UserStages
<1>. QED
  BY <1>1, <1>2 DEF RowOf, ApprovalRow, Request

\* So no row is ever lost.
LEMMA RowsStay ==
    ASSUME TypeOK, [Next]_backendVars
    PROVE  /\ approvals' \in Seq(ApprovalRow)
           /\ Len(approvals) <= Len(approvals')
           /\ DOMAIN approvals \subseteq DOMAIN approvals'
           /\ \A i \in DOMAIN approvals : approvals'[i] = approvals[i]
<1>0. approvals \in Seq(ApprovalRow)
  BY DEF TypeOK
<1>1. CASE approvals' = approvals
  BY <1>0, <1>1
<1>2. ASSUME NEW r \in Slots, At(r, "record"), approvals' = Append(approvals, RowOf(r))
      PROVE  /\ approvals' \in Seq(ApprovalRow)
             /\ Len(approvals) <= Len(approvals')
             /\ DOMAIN approvals \subseteq DOMAIN approvals'
             /\ \A i \in DOMAIN approvals : approvals'[i] = approvals[i]
  <2>1. RowOf(r) \in ApprovalRow
    BY <1>2, RowType
  <2>. QED
    BY <1>0, <1>2, <2>1
<1>. QED
  BY <1>1, <1>2, StepsAppend

LEMMA FactsStay ==
    ASSUME TypeOK, [Next]_backendVars, NEW o, NEW tx
    PROVE  /\ \A role, decision : HasRow(o, role, decision) => HasRow(o, role, decision)'
           /\ AuditRow(o, tx) => AuditRow(o, tx)'
           /\ succeeded \subseteq succeeded'
           /\ users \subseteq users'
<1>1. /\ DOMAIN approvals \subseteq DOMAIN approvals'
      /\ \A i \in DOMAIN approvals : approvals'[i] = approvals[i]
  BY RowsStay
<1>2. succeeded \subseteq succeeded' /\ users \subseteq users'
  BY FewStepsWrite DEF Quiet, Writes, InsertOrder, UpdateEvidence, UpdateStatus, Record, Certify,
                       RegisterUser, LedgerApplies
<1>. QED
  BY <1>1, <1>2 DEF HasRow, AuditRow

-----------------------------------------------------------------------------
LEMMA AdvanceType ==
    ASSUME TypeOK, NEW r \in Slots, request[r] # None, NEW stage \in Stages,
           stage \in UserStages => request[r].kind \notin Anonymous,
           Advance(r, stage) \/ Return(r)
    PROVE  request' \in [Slots -> Request \union {None}]
<1>1. request \in [Slots -> Request \union {None}] /\ request[r] \in Request
  BY DEF TypeOK
<1>2. [request[r] EXCEPT !.stage = stage] \in Request
  BY <1>1 DEF Request
<1>3. CASE Advance(r, stage)
  BY <1>1, <1>2, <1>3 DEF Advance
<1>4. CASE Return(r)
  BY <1>1, <1>4 DEF Return
<1>. QED
  BY <1>3, <1>4

LEMMA ReceiveType ==
    ASSUME TypeOK, NEW r \in Slots, NEW kind \in Kinds, NEW o \in Orders,
           NEW user \in Senders(kind), NEW evidence \in Brought(kind), NEW tx \in Named(kind),
           Receive(r, kind, o, user, evidence, tx)
    PROVE  request' \in [Slots -> Request \union {None}]
<1>1. FirstStage(kind) \in Stages /\ (FirstStage(kind) \in UserStages => kind \notin Anonymous)
  BY DEF FirstStage, Stages, Kinds, UserStages, Anonymous
<1>2. [kind |-> kind, stage |-> FirstStage(kind), order |-> o, user |-> user,
       evidence |-> evidence, tx |-> tx, seen |-> None] \in Request
  BY <1>1 DEF Request, Senders, Brought, Named
<1>. QED
  BY <1>2 DEF Receive, TypeOK

LEMMA ReadRecordType ==
    ASSUME TypeOK, NEW r \in Slots, ReadRecord(r)
    PROVE  request' \in [Slots -> Request \union {None}]
<1>. PICK q : q = request[r]
  OBVIOUS
<1>1. q \in Request /\ q # None /\ request \in [Slots -> Request \union {None}]
  BY DEF ReadRecord, At, TypeOK
<1>2. CASE Return(r)
  BY <1>1, <1>2 DEF Return
<1>3. CASE Stored(q.order)
  <2>1. q.order \in Orders
    BY <1>1 DEF Request
  <2>2. PICK seen \in Statuses : seen = orders[q.order].status
    BY <1>3, <2>1 DEF Stored, TypeOK, OrderRow
  <2>3. [q EXCEPT !.stage = "events", !.seen = seen] \in Request
    BY <1>1 DEF Request, Stages, UserStages
  <2>4. request' = [request EXCEPT ![r] = [q EXCEPT !.stage = "events", !.seen = seen]]
    BY <1>1, <1>3, <2>2 DEF ReadRecord
  <2>. QED
    BY <1>1, <2>3, <2>4
<1>. QED
  BY <1>2, <1>3 DEF ReadRecord

LEMMA SetOrderType ==
    ASSUME TypeOK, NEW o \in Orders, NEW row, Stored(o) => row \in OrderRow, SetOrder(o, row)
    PROVE  orders' \in [Orders -> OrderRow \union {None}]
  BY DEF SetOrder, TypeOK, Stored

LEMMA StepsKeepTypes ==
    ASSUME TypeOK, [Next]_backendVars
    PROVE  TypeOK'
<1>1. approvals' \in Seq(ApprovalRow)
  BY RowsStay
<1>2. users' \subseteq Users /\ succeeded' \subseteq Txs
  BY FewStepsWrite DEF Quiet, Writes, InsertOrder, UpdateEvidence, UpdateStatus, Record, Certify,
                       RegisterUser, LedgerApplies, TypeOK
<1>3. request' \in [Slots -> Request \union {None}]
  <2>1. ASSUME NEW r \in Slots, Handle(r), ~ReadRecord(r)
        PROVE  request' \in [Slots -> Request \union {None}]
    <3>1. request[r] # None /\ request[r] \in Request
      BY <2>1 DEF Handle, Identify, InsertOrder, UpdateEvidence, UpdateStatus, CountApprovals,
           VerifyTx, Resolve, Record, Certify, Reply, ReadEvents, CountAuditors, Simulate, At,
           TypeOK
    <3>2. request[r].stage \in UserStages => request[r].kind \notin Anonymous
      BY <3>1 DEF Request
    <3>3. PICK stage \in Stages :
              /\ stage \in UserStages => request[r].kind \notin Anonymous
              /\ Advance(r, stage) \/ Return(r)
      BY <2>1, <3>1, <3>2
         DEF Handle, Identify, InsertOrder, UpdateEvidence, UpdateStatus, CountApprovals,
           VerifyTx, Resolve, Record, Certify, Reply, ReadEvents, CountAuditors, Simulate, At,
           Stages, UserStages, Anonymous, Submissions
    <3>. QED
      BY <3>1, <3>3, AdvanceType
  <2>2. ASSUME NEW r \in Slots, Abandon(r)
        PROVE  request' \in [Slots -> Request \union {None}]
    BY <2>2 DEF Abandon, Return, TypeOK
  <2>3. ASSUME NEW r \in Slots, ReadRecord(r)
        PROVE  request' \in [Slots -> Request \union {None}]
    BY <2>3, ReadRecordType
  <2>. QED
    BY <2>1, <2>2, <2>3, ReceiveType
       DEF Next, RegisterUser, LedgerApplies, backendVars, TypeOK
<1>4. orders' \in [Orders -> OrderRow \union {None}]
  <2>1. ASSUME NEW r \in Slots, InsertOrder(r) PROVE orders' \in [Orders -> OrderRow \union {None}]
    <3>1. request[r] \in Request /\ request[r].stage = "insert"
      BY <2>1 DEF InsertOrder, At, TypeOK
    <3>2. request[r].user \in Users
      BY <3>1 DEF Request, UserStages
    <3>. QED
      BY <2>1, <3>1, <3>2 DEF InsertOrder, TypeOK, OrderRow, Statuses
  <2>2. ASSUME NEW r \in Slots, UpdateEvidence(r)
        PROVE  orders' \in [Orders -> OrderRow \union {None}]
    <3>0. request[r] \in Request
      BY <2>2 DEF UpdateEvidence, At, TypeOK
    <3>. DEFINE o == request[r].order
                row == [orders[o] EXCEPT !.evidence_hash = request[r].evidence,
                                         !.status = "SUBMITTED"]
    <3>1. o \in Orders /\ request[r].evidence \in Evidence
      BY <2>2, <3>0 DEF UpdateEvidence, Request
    <3>2. Stored(o) => row \in OrderRow
      BY <3>1 DEF Stored, TypeOK, OrderRow, Statuses
    <3>. QED
      BY <2>2, <3>1, <3>2, SetOrderType DEF UpdateEvidence
  <2>3. ASSUME NEW r \in Slots, UpdateStatus(r)
        PROVE  orders' \in [Orders -> OrderRow \union {None}]
    <3>0. request[r] \in Request
      BY <2>3 DEF UpdateStatus, At, TypeOK
    <3>. DEFINE o == request[r].order
                status == IF request[r].kind = "approve" THEN "PENDING_APPROVAL" ELSE "SUBMITTED"
                row == [orders[o] EXCEPT !.status = status]
    <3>1. o \in Orders /\ status \in Statuses
      BY <3>0 DEF Request, Statuses
    <3>. HIDE DEF status
    <3>2. Stored(o) => row \in OrderRow
      BY <3>1 DEF Stored, TypeOK, OrderRow
    <3>. QED
      BY <2>3, <3>1, <3>2, SetOrderType DEF UpdateStatus, status
  <2>4. ASSUME NEW r \in Slots, Certify(r)
        PROVE  orders' \in [Orders -> OrderRow \union {None}]
    <3>0. request[r] \in Request
      BY <2>4 DEF Certify, At, TypeOK
    <3>. DEFINE o == request[r].order
                row == [orders[o] EXCEPT !.status = "COMPLIANT", !.tx_id = request[r].tx]
    <3>1. o \in Orders /\ request[r].tx \in Txs \union {None}
      BY <3>0 DEF Request
    <3>2. Stored(o) => row \in OrderRow
      BY <3>1 DEF Stored, TypeOK, OrderRow, Statuses
    <3>. QED
      BY <2>4, <3>1, <3>2, SetOrderType DEF Certify
  <2>. QED
    BY <2>1, <2>2, <2>3, <2>4, FewStepsWrite
       DEF Quiet, Writes, Record, RegisterUser, LedgerApplies, TypeOK
<1>. QED
  BY <1>1, <1>2, <1>3, <1>4 DEF TypeOK

-----------------------------------------------------------------------------
\* A step of another request, or of none, leaves what this handler knows intact.
LEMMA KnowledgeStays ==
    ASSUME TypeOK, [Next]_backendVars, NEW r \in Slots, HandlerKnows(r), request'[r] = request[r]
    PROVE  HandlerKnows(r)'
  BY FactsStay DEF HandlerKnows

\* What the stage a handler advances to relies on, said of its request's own data.
LEMMA KnowsAtStage ==
    ASSUME NEW r \in Slots, NEW q \in Request, request'[r] = q,
           q.kind = "audit" /\ q.stage \in {"verify", "resolve", "record", "certify"} =>
                HasRow(q.order, "SUPERVISOR", "APPROVED")',
           q.kind = "audit" /\ q.stage \in {"resolve", "record", "certify"} =>
                q.tx \in succeeded' \union {None},
           q.kind = "audit" /\ q.stage = "certify" => AuditRow(q.order, q.tx)',
           q.stage \in {"verify", "certify"} => q.kind = "audit",
           q.stage = "insert" => q.user \in users',
           q.stage \in {"count_auditors", "simulate"} =>
                HasRow(q.order, "SUPERVISOR", "APPROVED")',
           q.stage = "simulate" => HasRow(q.order, "AUDITOR", "APPROVED")',
           q.stage = "events" /\ q.seen = "COMPLIANT" =>
                /\ HasRow(q.order, "SUPERVISOR", "APPROVED")'
                /\ HasRow(q.order, "AUDITOR", "APPROVED")'
    PROVE  HandlerKnows(r)'
  BY DEF HandlerKnows, HasRow, AuditRow

LEMMA AuditRowIsRow ==
    \A o, tx : AuditRow(o, tx) => HasRow(o, "AUDITOR", "APPROVED")
  BY DEF AuditRow, HasRow

\* A handler that advances learns what its next stage relies on.
LEMMA HandlersLearn ==
    ASSUME TypeOK, RecordsAreBacked, NEW r \in Slots, HandlerKnows(r), Handle(r),
           [Next]_backendVars
    PROVE  HandlerKnows(r)'
<1>. PICK p : p = request[r]
  OBVIOUS
<1>0. p # None /\ p \in Request /\ request \in [Slots -> Request \union {None}]
  BY DEF Handle, Identify, InsertOrder, UpdateEvidence, UpdateStatus, CountApprovals, VerifyTx,
         Resolve, Record, Certify, Reply, ReadRecord, ReadEvents, CountAuditors, Simulate, At,
         TypeOK
<1>1. CASE Return(r)
  BY <1>0, <1>1 DEF HandlerKnows, Return
<1>2. ASSUME NEW stage \in Stages, Advance(r, stage),
             stage \in UserStages => p.kind \notin Anonymous
      PROVE  /\ request'[r] = [p EXCEPT !.stage = stage]
             /\ [p EXCEPT !.stage = stage] \in Request
  BY <1>0, <1>2 DEF Advance, Request
<1>3. /\ \A role, decision : HasRow(p.order, role, decision) => HasRow(p.order, role, decision)'
      /\ succeeded \subseteq succeeded' /\ users \subseteq users'
  BY FactsStay
<1>4. ASSUME NEW stage \in Stages, Advance(r, stage), stage # "events",
             stage \in UserStages => p.kind \notin Anonymous,
             p.kind = "audit" /\ stage \in {"verify", "resolve", "record", "certify"} =>
                HasRow(p.order, "SUPERVISOR", "APPROVED")',
             p.kind = "audit" /\ stage \in {"resolve", "record", "certify"} =>
                p.tx \in succeeded' \union {None},
             p.kind = "audit" /\ stage = "certify" => AuditRow(p.order, p.tx)',
             stage \in {"verify", "certify"} => p.kind = "audit",
             stage = "insert" => p.user \in users',
             stage \in {"count_auditors", "simulate"} =>
                HasRow(p.order, "SUPERVISOR", "APPROVED")',
             stage = "simulate" => HasRow(p.order, "AUDITOR", "APPROVED")'
      PROVE  HandlerKnows(r)'
  <2>1. PICK q \in Request : q = [p EXCEPT !.stage = stage]
    BY <1>2, <1>4
  <2>2. q.stage = stage /\ q.kind = p.kind /\ q.order = p.order /\ q.tx = p.tx /\ q.user = p.user
    BY <1>0, <2>1 DEF Request
  <2>3. request'[r] = q
    BY <1>2, <1>4, <2>1
  <2>. HIDE <2>1
  <2>. QED
    BY <1>4, <2>2, <2>3, KnowsAtStage
<1>a. p.stage \in UserStages \/ p.kind \in {"audit", "approve", "reject"} =>
         p.kind \notin Anonymous
  BY <1>0 DEF Request, Anonymous
<1>5. CASE Identify(r)
  BY <1>0, <1>1, <1>3, <1>4, <1>5, <1>a DEF Identify, Stages, UserStages, At
<1>6. CASE InsertOrder(r) \/ UpdateEvidence(r) \/ Reply(r) \/ ReadEvents(r) \/ Simulate(r)
  BY <1>1, <1>4, <1>6
     DEF InsertOrder, UpdateEvidence, Reply, ReadEvents, Simulate, Stages, UserStages
<1>7. CASE UpdateStatus(r)
  BY <1>1, <1>4, <1>7, <1>a DEF UpdateStatus, Stages
<1>8. CASE CountApprovals(r)
  BY <1>1, <1>3, <1>4, <1>8, <1>a DEF CountApprovals, Stages, UserStages, At, HandlerKnows
<1>9. CASE VerifyTx(r)
  BY <1>0, <1>1, <1>3, <1>4, <1>9, <1>a DEF VerifyTx, Stages, UserStages, At, HandlerKnows
<1>10. CASE Resolve(r)
  BY <1>0, <1>1, <1>3, <1>4, <1>10, <1>a DEF Resolve, Stages, UserStages, At, HandlerKnows
<1>11. CASE Record(r)
  <2>1. CASE Advance(r, "reply")
    BY <1>4, <2>1 DEF Stages, UserStages
  <2>2. CASE p.kind = "audit" /\ Advance(r, "certify") /\ approvals' = Append(approvals, RowOf(r))
    <3>1. approvals \in Seq(ApprovalRow) /\ RowOf(r) \in ApprovalRow
      BY <1>11, RowType DEF Record, TypeOK
    <3>2. Len(approvals) + 1 \in DOMAIN approvals' /\ approvals'[Len(approvals) + 1] = RowOf(r)
      BY <2>2, <3>1
    <3>3. /\ RowOf(r).order = p.order /\ RowOf(r).role = "AUDITOR"
          /\ RowOf(r).decision = "APPROVED" /\ RowOf(r).tx = p.tx
      BY <2>2 DEF RowOf
    <3>4. AuditRow(p.order, p.tx)'
      BY <3>2, <3>3 DEF AuditRow
    <3>. QED
      BY <1>0, <1>3, <1>4, <1>11, <2>2, <3>4 DEF Record, Stages, UserStages, At, HandlerKnows
  <2>. QED
    BY <1>1, <1>11, <2>1, <2>2 DEF Record
<1>12. CASE Certify(r)
  BY <1>1, <1>4, <1>12 DEF Certify, Stages, UserStages
<1>13. CASE CountAuditors(r)
  BY <1>1, <1>3, <1>4, <1>13 DEF CountAuditors, Stages, UserStages, At, HandlerKnows
<1>14. CASE ReadRecord(r)
  <2>1. p.order \in Orders
    BY <1>0 DEF Request
  <2>2. CASE Stored(p.order)
    <3>1. PICK seen \in Statuses : seen = orders[p.order].status
      BY <2>1, <2>2 DEF Stored, TypeOK, OrderRow
    <3>2. PICK q : q = [p EXCEPT !.stage = "events", !.seen = seen]
      OBVIOUS
    <3>3. q \in Request /\ q.stage = "events" /\ q.seen = seen /\ q.order = p.order
      BY <1>0, <3>2 DEF Request, Stages, UserStages
    <3>4. request'[r] = q
      BY <1>0, <1>14, <2>2, <3>1, <3>2 DEF ReadRecord
    <3>5. seen = "COMPLIANT" => /\ HasRow(p.order, "SUPERVISOR", "APPROVED")
                                /\ HasRow(p.order, "AUDITOR", "APPROVED")
      BY <2>1, <2>2, <3>1, AuditRowIsRow DEF RecordsAreBacked
    <3>. HIDE <3>2
    <3>. QED
      BY <1>3, <3>3, <3>4, <3>5, KnowsAtStage
  <2>. QED
    BY <1>1, <1>14, <2>2 DEF ReadRecord
<1>. QED
  BY <1>5, <1>6, <1>7, <1>8, <1>9, <1>10, <1>11, <1>12, <1>13, <1>14 DEF Handle

LEMMA StepsKeepKnowledge ==
    ASSUME TypeOK, RecordsAreBacked, \A r \in Slots : HandlerKnows(r), [Next]_backendVars,
           NEW r \in Slots
    PROVE  HandlerKnows(r)'
<1>0. request \in [Slots -> Request \union {None}]
  BY DEF TypeOK
<1>1. CASE request'[r] = request[r]
  BY <1>1, KnowledgeStays
<1>2. CASE request'[r] = None
  BY <1>2 DEF HandlerKnows
<1>3. CASE Handle(r)
  BY <1>3, HandlersLearn
<1>4. ASSUME NEW kind \in Kinds, NEW o \in Orders, NEW user \in Senders(kind),
             NEW evidence \in Brought(kind), NEW tx \in Named(kind),
             Receive(r, kind, o, user, evidence, tx)
      PROVE  HandlerKnows(r)'
  <2>1. PICK q : q = [kind |-> kind, stage |-> FirstStage(kind), order |-> o, user |-> user,
                      evidence |-> evidence, tx |-> tx, seen |-> None]
    OBVIOUS
  <2>2. q \in Request
    BY <1>4, <2>1 DEF Request, Senders, Brought, Named, FirstStage, Stages, Kinds, UserStages,
                      Anonymous
  <2>3. q.stage = FirstStage(q.kind) /\ q.kind \in Kinds
    BY <2>1
  <2>4. q.stage \in {"identify", "read", "count", "update"}
    BY <2>3 DEF FirstStage, Kinds
  <2>5. request'[r] = q
    BY <1>0, <1>4, <2>1 DEF Receive
  <2>. QED
    BY <2>2, <2>4, <2>5, KnowsAtStage
<1>5. ASSUME NEW s \in Slots, s # r,
             \/ Handle(s) \/ Abandon(s)
             \/ \E kind \in Kinds, o \in Orders : \E user, evidence, tx :
                   Receive(s, kind, o, user, evidence, tx)
      PROVE  request'[r] = request[r]
  BY <1>0, <1>5
     DEF Handle, Identify, InsertOrder, UpdateEvidence, UpdateStatus, CountApprovals, VerifyTx,
         Resolve, Record, Certify, Reply, ReadRecord, ReadEvents, CountAuditors, Simulate,
         Abandon, Receive, Advance, Return
<1>6. CASE Abandon(r)
  BY <1>0, <1>2, <1>6 DEF Abandon, Return
<1>7. CASE UNCHANGED request
  BY <1>1, <1>7
<1>. QED
  BY <1>1, <1>3, <1>4, <1>5, <1>6, <1>7 DEF Next, RegisterUser, LedgerApplies, backendVars

LEMMA SetOrderEffect ==
    ASSUME TypeOK, NEW p, NEW row, SetOrder(p, row), NEW o \in Orders
    PROVE  orders'[o] = orders[o] \/ (orders[o] # None /\ p = o /\ orders'[o] = row)
  BY DEF SetOrder, TypeOK, Stored

\* A record's own statement or none: what backs it is never lost.
LEMMA StepsKeepBacking ==
    ASSUME BackendInv, [Next]_backendVars, NEW o \in Orders, NEW old, NEW new,
           old = orders[o], new = orders'[o], new # None
    PROVE  /\ new.status = "COMPLIANT" =>
              HasRow(o, "SUPERVISOR", "APPROVED")' /\ AuditRow(o, new.tx_id)'
           /\ new.tx_id # None =>
              new.tx_id \in succeeded' /\ AuditRow(o, new.tx_id)'
<1>0. /\ HasRow(o, "SUPERVISOR", "APPROVED") => HasRow(o, "SUPERVISOR", "APPROVED")'
      /\ \A tx : AuditRow(o, tx) => AuditRow(o, tx)'
      /\ succeeded \subseteq succeeded'
  BY FactsStay DEF BackendInv
<1>1. /\ orders \in [Orders -> OrderRow \union {None}]
      /\ new \in OrderRow /\ new # None
      /\ old # None => old \in OrderRow
      /\ old # None =>
            /\ old.status = "COMPLIANT" =>
                  HasRow(o, "SUPERVISOR", "APPROVED") /\ AuditRow(o, old.tx_id)
            /\ old.tx_id # None => old.tx_id \in succeeded /\ AuditRow(o, old.tx_id)
  BY StepsKeepTypes DEF BackendInv, RecordsAreBacked, Stored, TypeOK
<1>. DEFINE Goal == /\ new.status = "COMPLIANT" =>
                          HasRow(o, "SUPERVISOR", "APPROVED")' /\ AuditRow(o, new.tx_id)'
                    /\ new.tx_id # None =>
                          new.tx_id \in succeeded' /\ AuditRow(o, new.tx_id)'
<1>2. ASSUME old = new PROVE Goal
  BY <1>0, <1>1, <1>2
<1>3. ASSUME new.status # "COMPLIANT", old # None, new.tx_id = old.tx_id PROVE Goal
  BY <1>0, <1>1, <1>3
<1>4. ASSUME NEW r \in Slots, InsertOrder(r) PROVE Goal
  <2>1. PICK user : orders' = [orders EXCEPT ![request[r].order] =
            [technician |-> user, status |-> "OPEN", evidence_hash |-> "PENDING",
             tx_id |-> None]]
    BY <1>4 DEF InsertOrder
  <2>2. old = new \/ new = [technician |-> user, status |-> "OPEN", evidence_hash |-> "PENDING",
                            tx_id |-> None]
    BY <1>1, <2>1
  <2>3. old = new \/ (new.tx_id = None /\ new.status = "OPEN")
    BY <2>2
  <2>. QED
    BY <1>2, <2>3
<1>5. ASSUME NEW r \in Slots, UpdateEvidence(r) PROVE Goal
  <2>1. PICK p, row : /\ SetOrder(p, row)
                      /\ row = [orders[p] EXCEPT !.evidence_hash = request[r].evidence,
                                                 !.status = "SUBMITTED"]
    BY <1>5 DEF UpdateEvidence
  <2>2. old = new \/ (old # None /\ p = o /\ new = row)
    BY <2>1, SetOrderEffect DEF BackendInv
  <2>3. old = new \/ (old # None /\ new.tx_id = old.tx_id /\ new.status = "SUBMITTED")
    BY <1>1, <2>1, <2>2 DEF OrderRow
  <2>. QED
    BY <1>2, <1>3, <2>3
<1>6. ASSUME NEW r \in Slots, UpdateStatus(r) PROVE Goal
  <2>. DEFINE verdict == IF request[r].kind = "approve" THEN "PENDING_APPROVAL" ELSE "SUBMITTED"
  <2>0. PICK status \in {"PENDING_APPROVAL", "SUBMITTED"} : status = verdict
    OBVIOUS
  <2>1. PICK p, row : SetOrder(p, row) /\ row = [orders[p] EXCEPT !.status = status]
    BY <1>6, <2>0 DEF UpdateStatus
  <2>2. old = new \/ (old # None /\ p = o /\ new = row)
    BY <2>1, SetOrderEffect DEF BackendInv
  <2>3. old = new \/ (old # None /\ new.tx_id = old.tx_id /\ new.status # "COMPLIANT")
    BY <1>1, <2>1, <2>2 DEF OrderRow
  <2>. QED
    BY <1>2, <1>3, <2>3
<1>7. ASSUME NEW r \in Slots, Certify(r) PROVE Goal
  <2>. PICK q : q = request[r]
    OBVIOUS
  <2>1. q # None /\ q \in Request /\ q.stage = "certify" /\ HandlerKnows(r)
    BY <1>7 DEF Certify, At, BackendInv, TypeOK
  <2>2. /\ HasRow(q.order, "SUPERVISOR", "APPROVED") /\ AuditRow(q.order, q.tx)
        /\ q.tx \in succeeded \union {None}
    BY <2>1 DEF HandlerKnows
  <2>3. PICK row : /\ SetOrder(q.order, row)
                   /\ row = [orders[q.order] EXCEPT !.status = "COMPLIANT", !.tx_id = q.tx]
    BY <1>7 DEF Certify
  <2>4. old = new \/ (old # None /\ q.order = o /\ new = row)
    BY <2>3, SetOrderEffect DEF BackendInv
  <2>5. old = new \/ (q.order = o /\ new.tx_id = q.tx)
    BY <1>1, <2>3, <2>4 DEF OrderRow
  <2>. QED
    BY <1>0, <1>2, <2>2, <2>5
<1>8. ASSUME UNCHANGED orders PROVE Goal
  BY <1>2, <1>8
<1>. HIDE DEF Goal
<1>9. Goal
  BY <1>4, <1>5, <1>6, <1>7, <1>8, FewStepsWrite
     DEF Quiet, Writes, Record, RegisterUser, LedgerApplies
<1>. QED
  BY <1>9 DEF Goal

\* An auditor's row is appended by a handler that knows of a supervisor's approval.
LEMMA StepsKeepOrder ==
    ASSUME BackendInv, [Next]_backendVars
    PROVE  AuditorsComeSecond'
<1>0. /\ approvals \in Seq(ApprovalRow) /\ approvals' \in Seq(ApprovalRow)
      /\ DOMAIN approvals = 1..Len(approvals) /\ Len(approvals) \in Nat
      /\ DOMAIN approvals \subseteq DOMAIN approvals'
      /\ \A i \in DOMAIN approvals : approvals'[i] = approvals[i]
  BY RowsStay DEF BackendInv, TypeOK
<1>. DEFINE Approves(row, o) ==
              row.order = o /\ row.role = "SUPERVISOR" /\ row.decision = "APPROVED"
<1>1. ASSUME NEW i \in DOMAIN approvals, approvals'[i].role = "AUDITOR"
      PROVE  \E j \in 1..i : Approves(approvals'[j], approvals'[i].order)
  <2>1. PICK j \in 1..i : Approves(approvals[j], approvals[i].order)
    BY <1>0, <1>1 DEF BackendInv, AuditorsComeSecond
  <2>2. j \in DOMAIN approvals
    BY <1>0, <1>1, <2>1
  <2>. QED
    BY <1>0, <1>1, <2>1, <2>2
<1>2. CASE approvals' = approvals
  BY <1>2 DEF BackendInv, AuditorsComeSecond
<1>3. ASSUME NEW r \in Slots, At(r, "record"), approvals' = Append(approvals, RowOf(r))
      PROVE  AuditorsComeSecond'
  <2>. PICK q : q = request[r]
    OBVIOUS
  <2>. DEFINE last == Len(approvals) + 1
  <2>1. q # None /\ q \in Request /\ q.stage = "record" /\ RowOf(r) \in ApprovalRow
    BY <1>3, RowType DEF At, BackendInv
  <2>2. approvals'[last] = RowOf(r) /\ DOMAIN approvals' = (DOMAIN approvals) \union {last}
    BY <1>0, <1>3, <2>1
  <2>3. RowOf(r).order = q.order /\ (RowOf(r).role = "AUDITOR" => q.kind = "audit")
    BY DEF RowOf
  <2>4. ASSUME RowOf(r).role = "AUDITOR"
        PROVE  \E j \in 1..last : Approves(approvals'[j], approvals'[last].order)
    <3>1. HasRow(q.order, "SUPERVISOR", "APPROVED")
      BY <2>1, <2>3, <2>4 DEF BackendInv, HandlerKnows
    <3>2. PICK j \in DOMAIN approvals : Approves(approvals[j], q.order)
      BY <3>1 DEF HasRow
    <3>3. j \in 1..last
      BY <1>0, <3>2
    <3>. QED
      BY <1>0, <2>2, <2>3, <3>2, <3>3
  <2>5. ASSUME NEW i \in DOMAIN approvals', approvals'[i].role = "AUDITOR"
        PROVE  \E j \in 1..i : Approves(approvals'[j], approvals'[i].order)
    BY <1>1, <2>2, <2>4, <2>5
  <2>. QED
    BY <2>5 DEF AuditorsComeSecond
<1>. QED
  BY <1>2, <1>3, StepsAppend DEF BackendInv

LEMMA InitInv ==
    ASSUME Init
    PROVE  BackendInv
<1>1. TypeOK
  BY DEF Init, TypeOK
<1>2. AuditorsComeSecond
  BY DEF Init, AuditorsComeSecond
<1>3. RecordsAreBacked /\ \A r \in Slots : HandlerKnows(r)
  BY DEF Init, RecordsAreBacked, Stored, HandlerKnows
<1>. QED
  BY <1>1, <1>2, <1>3 DEF BackendInv

LEMMA StepsKeepInv ==
    ASSUME BackendInv, [Next]_backendVars
    PROVE  BackendInv'
<1>1. TypeOK' /\ AuditorsComeSecond' /\ \A r \in Slots : HandlerKnows(r)'
  BY StepsKeepTypes, StepsKeepOrder, StepsKeepKnowledge DEF BackendInv
<1>2. ASSUME NEW o \in Orders, NEW new, new = orders'[o], new # None
      PROVE  /\ new.status = "COMPLIANT" =>
                  HasRow(o, "SUPERVISOR", "APPROVED")' /\ AuditRow(o, new.tx_id)'
             /\ new.tx_id # None =>
                  new.tx_id \in succeeded' /\ AuditRow(o, new.tx_id)'
  BY <1>2, StepsKeepBacking
<1>3. RecordsAreBacked'
  BY <1>2 DEF RecordsAreBacked, Stored
<1>. QED
  BY <1>1, <1>3 DEF BackendInv

\* The tables and the requests in flight keep their types.
THEOREM TypeCorrect == Spec => []TypeOK
<1>1. BackendInv => TypeOK
  BY DEF BackendInv
<1>. QED
  BY <1>1, InitInv, StepsKeepInv, PTL DEF Spec

\* For any number of requests in flight, wherever each of them stops, a compliant
\* record has both approvals on record.
THEOREM CompliantApproved == Spec => []CompliantIsApproved
<1>1. BackendInv => CompliantIsApproved
  BY DEF BackendInv, RecordsAreBacked, CompliantIsApproved, AuditRow, HasRow
<1>. QED
  BY <1>1, InitInv, StepsKeepInv, PTL DEF Spec

\* Auditors approve behind supervisors in the audit trail of every record.
THEOREM AuditorsSecond == Spec => []AuditorsComeSecond
<1>1. BackendInv => AuditorsComeSecond
  BY DEF BackendInv
<1>. QED
  BY <1>1, InitInv, StepsKeepInv, PTL DEF Spec

\* The transaction a record names succeeded and is named by an auditor's row too.
THEOREM TxBooked == Spec => []TxIsBooked
<1>1. BackendInv => TxIsBooked
  BY DEF BackendInv, RecordsAreBacked, TxIsBooked, AuditRow
<1>. QED
  BY <1>1, InitInv, StepsKeepInv, PTL DEF Spec

\* However many statements an answer takes, it says compliant or eligible only of a
\* record with both approvals.
THEOREM AnswersBacked == Spec => []AnswersAreBacked
<1>1. BackendInv => AnswersAreBacked
  BY DEF BackendInv, HandlerKnows, AnswersAreBacked, At
<1>. QED
  BY <1>1, InitInv, StepsKeepInv, PTL DEF Spec

\* No recorded decision is ever changed, dropped or moved.
THEOREM AppendOnly == Spec => ApprovalsAreAppendOnly
<1>. DEFINE Kept == /\ Len(approvals) <= Len(approvals')
                    /\ \A i \in DOMAIN approvals : approvals'[i] = approvals[i]
<1>1. TypeOK /\ [Next]_backendVars => [Kept]_backendVars
  BY RowsStay
<1>. QED
  BY <1>1, TypeCorrect, PTL DEF Spec, ApprovalsAreAppendOnly

-----------------------------------------------------------------------------
(* MaintenanceBackend implements RecordPromise *)

\* A handler that may still insert a record.
Creating(r) == request[r] # None /\ request[r].stage \in {"identify", "insert"}

\* The id a creation has drawn is its own until it inserts the record.
IdsAreFresh ==
    /\ \A r \in Slots : Creating(r) =>
          request[r].kind = "create" /\ ~Stored(request[r].order)
    /\ \A r, s \in Slots : r # s /\ Creating(r) /\ Creating(s) =>
          request[r].order # request[s].order

\* Whoever creates in the next state did so before, or has just been received.
LEMMA CreatorsStay ==
    ASSUME TypeOK, NEW r \in Slots, Handle(r) \/ Abandon(r), NEW s \in Slots, Creating(s)'
    PROVE  /\ Creating(s) /\ request'[s].order = request[s].order
           /\ request'[s].kind = request[s].kind
           /\ s = r => UNCHANGED orders
<1>0. request \in [Slots -> Request \union {None}]
  BY DEF TypeOK
<1>1. CASE Return(r)
  <2>1. s # r /\ request'[s] = request[s]
    BY <1>0, <1>1 DEF Return, Creating
  <2>. QED
    BY <2>1 DEF Creating
<1>2. ASSUME NEW stage, Advance(r, stage), request[r] # None,
             (stage = "insert" /\ Identify(r)) \/ stage \notin {"identify", "insert"}
      PROVE  /\ Creating(s) /\ request'[s].order = request[s].order
             /\ request'[s].kind = request[s].kind
             /\ s = r => UNCHANGED orders
  <2>1. CASE s # r
    <3>1. request'[s] = request[s]
      BY <1>0, <1>2, <2>1 DEF Advance
    <3>. QED
      BY <2>1, <3>1 DEF Creating
  <2>2. CASE s = r
    <3>1. request[r] \in Request /\ request'[r] = [request[r] EXCEPT !.stage = stage]
      BY <1>0, <1>2 DEF Advance
    <3>2. request'[r].stage = stage /\ request'[r].order = request[r].order
          /\ request'[r].kind = request[r].kind
      BY <3>1 DEF Request
    <3>. QED
      BY <1>2, <2>2, <3>2 DEF Creating, Identify, At
  <2>. QED
    BY <2>1, <2>2
<1>3. CASE ReadRecord(r) /\ ~Return(r)
  <2>1. /\ request[r] \in Request
        /\ \E seen : request' = [request EXCEPT ![r].stage = "events", ![r].seen = seen]
    BY <1>0, <1>3 DEF ReadRecord, At
  <2>2. \A t \in Slots : t # r => request'[t] = request[t]
    BY <1>0, <2>1
  <2>3. request'[r].stage = "events"
    BY <1>0, <2>1 DEF Request
  <2>. QED
    BY <2>2, <2>3 DEF Creating
<1>4. CASE Identify(r)
  BY <1>1, <1>2, <1>4 DEF Identify, At
<1>5. ASSUME Handle(r), ~Identify(r), ~ReadRecord(r), ~Return(r)
      PROVE  \E stage : /\ Advance(r, stage) /\ request[r] # None
                        /\ stage \notin {"identify", "insert"}
  BY <1>5 DEF Handle, InsertOrder, UpdateEvidence, UpdateStatus, CountApprovals, VerifyTx,
              Resolve, Record, Certify, Reply, ReadEvents, CountAuditors, Simulate, At
<1>6. ASSUME Abandon(r) PROVE Return(r)
  BY <1>6 DEF Abandon
<1>. QED
  BY <1>1, <1>2, <1>3, <1>4, <1>5, <1>6

\* Only the handler of a creation stores a record that was not there.
LEMMA StoredByInsert ==
    ASSUME TypeOK, [Next]_backendVars, NEW o \in Orders, ~Stored(o), Stored(o)'
    PROVE  \E r \in Slots : InsertOrder(r) /\ request[r].order = o
<1>1. ASSUME NEW r \in Slots, Writes(r), ~InsertOrder(r) PROVE ~Stored(o)'
  <2>1. UNCHANGED orders \/ \E p, row : SetOrder(p, row)
    BY <1>1 DEF Writes, UpdateEvidence, UpdateStatus, Record, Certify
  <2>. QED
    BY <2>1, SetOrderEffect DEF Stored
<1>2. PICK r \in Slots : InsertOrder(r)
  BY <1>1, FewStepsWrite DEF Quiet, RegisterUser, LedgerApplies, Stored
<1>3. request[r].order = o
  BY <1>2 DEF InsertOrder, TypeOK, Stored
<1>. QED
  BY <1>2, <1>3

LEMMA StepsKeepFresh ==
    ASSUME TypeOK, IdsAreFresh, [Next]_backendVars
    PROVE  IdsAreFresh'
<1>0. request \in [Slots -> Request \union {None}]
  BY DEF TypeOK
<1>1. ASSUME NEW r \in Slots, Handle(r) \/ Abandon(r)
      PROVE  IdsAreFresh'
  <2>1. ASSUME NEW s \in Slots, Creating(s)'
        PROVE  request'[s].kind = "create" /\ ~Stored(request[s].order)'
    <3>1. /\ Creating(s) /\ request'[s].order = request[s].order
          /\ request'[s].kind = "create" /\ ~Stored(request[s].order)
          /\ s = r => UNCHANGED orders
      BY <1>1, <2>1, CreatorsStay DEF IdsAreFresh
    <3>2. request[s].order \in Orders
      BY <1>0, <3>1 DEF Creating, Request
    <3>3. ASSUME Stored(request[s].order)' PROVE FALSE
      <4>1. PICK t \in Slots : InsertOrder(t) /\ request[t].order = request[s].order
        BY <3>1, <3>2, <3>3, StoredByInsert
      <4>2. Creating(t) /\ s # r
        BY <3>1, <3>3, <4>1 DEF InsertOrder, At, Creating, Stored
      <4>3. s = t
        BY <3>1, <4>1, <4>2 DEF IdsAreFresh
      <4>4. request'[t].stage = "reply"
        BY <1>0, <4>1 DEF InsertOrder, At, Advance, Request
      <4>. QED
        BY <2>1, <4>3, <4>4 DEF Creating
    <3>. QED
      BY <3>1, <3>3
  <2>2. ASSUME NEW p \in Slots, NEW s \in Slots, p # s, Creating(p)', Creating(s)'
        PROVE  request'[p].order # request'[s].order
    BY <1>1, <2>2, CreatorsStay DEF IdsAreFresh
  <2>. QED
    BY <2>1, <2>2 DEF IdsAreFresh
<1>2. ASSUME NEW r \in Slots, NEW kind \in Kinds, NEW o \in Orders, NEW user, NEW evidence,
             NEW tx, Receive(r, kind, o, user, evidence, tx)
      PROVE  IdsAreFresh'
  <2>1. /\ \A s \in Slots : s # r => request'[s] = request[s]
        /\ UNCHANGED orders
        /\ request'[r].kind = kind /\ request'[r].order = o
        /\ request'[r].stage = FirstStage(kind)
    BY <1>0, <1>2 DEF Receive
  <2>2. FirstStage(kind) \in {"identify", "insert"} => kind = "create"
    BY DEF FirstStage, Kinds
  <2>3. Creating(r)' => kind = "create"
    BY <2>1, <2>2 DEF Creating
  <2>4. kind = "create" => /\ ~Stored(o)
                           /\ \A s \in Slots : Creating(s) => request[s].order # o
    BY <1>2 DEF Receive, IdsAreFresh, Creating
  <2>5. \A s \in Slots : s # r /\ Creating(s)' => Creating(s)
    BY <2>1 DEF Creating
  <2>. QED
    BY <2>1, <2>3, <2>4, <2>5 DEF IdsAreFresh, Stored
<1>3. ASSUME UNCHANGED <<orders, request>> PROVE IdsAreFresh'
  BY <1>3 DEF IdsAreFresh, Creating, Stored
<1>. QED
  BY <1>1, <1>2, <1>3 DEF Next, RegisterUser, LedgerApplies, backendVars

\* A step of the promise for one record.
LEMMA OfOneRecord ==
    ASSUME NEW p \in Orders, NEW tx \in Txs \union {None},
           Promise!Reopen(p) \/ Promise!Approve(p) \/ Promise!Sign(p, tx) \/ Promise!Certify(p, tx)
    PROVE  Promise!Next
  BY DEF Promise!Next

\* Steps that write neither table stutter.
LEMMA QuietMaps ==
    ASSUME UNCHANGED <<orders, approvals>>
    PROVE  UNCHANGED Promise!promiseVars
<1>1. Technicians' = Technicians /\ SignedWith' = SignedWith
  BY DEF Technicians, SignedWith, Stored
<1>2. {o \in Orders : HasRow(o, "SUPERVISOR", "APPROVED")}'
        = {o \in Orders : HasRow(o, "SUPERVISOR", "APPROVED")}
  BY DEF HasRow
<1>3. {o \in Orders : Stored(o) /\ orders[o].status = "COMPLIANT"}'
        = {o \in Orders : Stored(o) /\ orders[o].status = "COMPLIANT"}
  BY DEF Stored
<1>4. [o \in Orders |-> IF Stored(o) THEN orders[o].tx_id ELSE None]'
        = [o \in Orders |-> IF Stored(o) THEN orders[o].tx_id ELSE None]
  BY DEF Stored
<1>. QED
  BY <1>1, <1>2, <1>3, <1>4 DEF Promise!promiseVars

\* As long as no row is added, what the approvals say stays.
LEMMA SameApprovals ==
    ASSUME UNCHANGED approvals
    PROVE  /\ SignedWith' = SignedWith
           /\ {o \in Orders : HasRow(o, "SUPERVISOR", "APPROVED")}'
                = {o \in Orders : HasRow(o, "SUPERVISOR", "APPROVED")}
  BY DEF SignedWith, HasRow

LEMMA InsertMaps ==
    ASSUME TypeOK, IdsAreFresh, NEW r \in Slots, InsertOrder(r)
    PROVE  Promise!Next
<1>. DEFINE o == request[r].order
            row == [technician |-> request[r].user, status |-> "OPEN",
                    evidence_hash |-> "PENDING", tx_id |-> None]
<1>1. /\ request[r] \in Request /\ request[r].stage = "insert"
      /\ orders \in [Orders -> OrderRow \union {None}]
      /\ UNCHANGED approvals /\ orders' = [orders EXCEPT ![o] = row] /\ ~Stored(o)
  BY DEF InsertOrder, At, TypeOK, IdsAreFresh, Creating
<1>2. o \in Orders /\ request[r].user \in Users /\ row \in OrderRow
  BY <1>1 DEF Request, UserStages, OrderRow, Statuses
<1>3. row # None
  BY <1>2, AbsentAssumption
<1>. HIDE DEF o
<1>4. Technicians' = [Technicians EXCEPT ![o] = request[r].user] /\ Technicians[o] = None
  BY <1>1, <1>2, <1>3 DEF Technicians, Stored
<1>5. {p \in Orders : Stored(p) /\ orders[p].status = "COMPLIANT"}'
        = {p \in Orders : Stored(p) /\ orders[p].status = "COMPLIANT"}
  BY <1>1, <1>2, <1>3 DEF Stored
<1>6. [p \in Orders |-> IF Stored(p) THEN orders[p].tx_id ELSE None]'
        = [p \in Orders |-> IF Stored(p) THEN orders[p].tx_id ELSE None]
  BY <1>1, <1>2, <1>3 DEF Stored
<1>7. Promise!Open(o, request[r].user)
  BY <1>1, <1>4, <1>5, <1>6, SameApprovals DEF Promise!Open, Promise!Opened
<1>. QED
  BY <1>2, <1>7 DEF Promise!Next

\* A step that sets the row of o, keeping its technician.
LEMMA SetOrderMaps ==
    ASSUME TypeOK, NEW o \in Orders, Stored(o), NEW row \in OrderRow, SetOrder(o, row),
           row.technician = orders[o].technician
    PROVE  /\ Technicians' = Technicians
           /\ {p \in Orders : Stored(p) /\ orders[p].status = "COMPLIANT"}'
                = IF row.status = "COMPLIANT"
                    THEN {p \in Orders : Stored(p) /\ orders[p].status = "COMPLIANT"} \union {o}
                    ELSE {p \in Orders : Stored(p) /\ orders[p].status = "COMPLIANT"} \ {o}
           /\ [p \in Orders |-> IF Stored(p) THEN orders[p].tx_id ELSE None]'
                = [[p \in Orders |-> IF Stored(p) THEN orders[p].tx_id ELSE None]
                     EXCEPT ![o] = row.tx_id]
<1>1. /\ orders \in [Orders -> OrderRow \union {None}] /\ row # None
      /\ orders' = [orders EXCEPT ![o] = row]
  BY AbsentAssumption DEF TypeOK, SetOrder
<1>2. \A p \in Orders : Stored(p)' <=> Stored(p)
  BY <1>1 DEF Stored
<1>3. \A p \in Orders : p # o => orders'[p] = orders[p]
  BY <1>1
<1>4. orders'[o] = row
  BY <1>1
<1>. QED
  BY <1>2, <1>3, <1>4 DEF Technicians

\* New evidence and decisions reopen a record, if there is one.
LEMMA UpdateMaps ==
    ASSUME TypeOK, NEW r \in Slots, UpdateEvidence(r) \/ UpdateStatus(r)
    PROVE  Promise!Next \/ UNCHANGED Promise!promiseVars
<1>. PICK o : o = request[r].order
  OBVIOUS
<1>1. /\ request[r] \in Request /\ UNCHANGED approvals
      /\ orders \in [Orders -> OrderRow \union {None}]
  BY DEF UpdateEvidence, UpdateStatus, At, TypeOK
<1>2. o \in Orders
  BY <1>1 DEF Request
<1>3. CASE ~Stored(o)
  <2>1. UNCHANGED orders
    BY <1>3 DEF UpdateEvidence, UpdateStatus, SetOrder
  <2>. QED
    BY <1>1, <2>1, QuietMaps
<1>4. CASE Stored(o)
  <2>1. orders[o] \in OrderRow
    BY <1>1, <1>2, <1>4 DEF Stored
  <2>2. PICK row \in OrderRow :
            /\ SetOrder(o, row) /\ row.status # "COMPLIANT"
            /\ row.technician = orders[o].technician /\ row.tx_id = orders[o].tx_id
    <3>1. CASE UpdateEvidence(r)
      <4>. DEFINE row == [orders[o] EXCEPT !.evidence_hash = request[r].evidence,
                                           !.status = "SUBMITTED"]
      <4>1. request[r].evidence \in Evidence /\ SetOrder(o, row)
        BY <1>1, <3>1 DEF UpdateEvidence, Request
      <4>2. /\ row \in OrderRow /\ row.status # "COMPLIANT"
            /\ row.technician = orders[o].technician /\ row.tx_id = orders[o].tx_id
        BY <2>1, <4>1 DEF OrderRow, Statuses
      <4>. QED
        BY <4>1, <4>2
    <3>2. CASE UpdateStatus(r)
      <4>1. PICK status \in {"PENDING_APPROVAL", "SUBMITTED"} :
                SetOrder(o, [orders[o] EXCEPT !.status = status])
        BY <3>2 DEF UpdateStatus
      <4>. DEFINE row == [orders[o] EXCEPT !.status = status]
      <4>2. /\ row \in OrderRow /\ row.status # "COMPLIANT"
            /\ row.technician = orders[o].technician /\ row.tx_id = orders[o].tx_id
        BY <2>1 DEF OrderRow, Statuses
      <4>. QED
        BY <4>1, <4>2
    <3>. QED
      BY <3>1, <3>2
  <2>3. [[p \in Orders |-> IF Stored(p) THEN orders[p].tx_id ELSE None]
            EXCEPT ![o] = row.tx_id]
          = [p \in Orders |-> IF Stored(p) THEN orders[p].tx_id ELSE None]
    BY <1>2, <1>4, <2>2
  <2>4. Promise!Reopen(o)
    BY <1>1, <1>2, <1>4, <2>2, <2>3, SetOrderMaps, SameApprovals DEF Promise!Reopen
  <2>5. Promise!Next
    BY <1>2, <2>4, OfOneRecord
  <2>. QED
    BY <2>5
<1>. QED
  BY <1>3, <1>4

\* The auditor's handler knows that a row with its transaction is on file.
LEMMA CertifyMaps ==
    ASSUME BackendInv, NEW r \in Slots, Certify(r)
    PROVE  Promise!Next \/ UNCHANGED Promise!promiseVars
<1>. PICK o : o = request[r].order
  OBVIOUS
<1>. PICK tx : tx = request[r].tx
  OBVIOUS
<1>. DEFINE row == [orders[o] EXCEPT !.status = "COMPLIANT", !.tx_id = tx]
<1>1. /\ TypeOK /\ request[r] \in Request /\ UNCHANGED approvals /\ SetOrder(o, row)
      /\ orders \in [Orders -> OrderRow \union {None}] /\ AuditRow(o, tx)
  BY DEF Certify, At, BackendInv, TypeOK, HandlerKnows
<1>2. o \in Orders /\ tx \in Txs \union {None}
  BY <1>1 DEF Request
<1>3. CASE ~Stored(o)
  BY <1>1, <1>3, QuietMaps DEF SetOrder
<1>4. CASE Stored(o)
  <2>1. orders[o] \in OrderRow
    BY <1>1, <1>2, <1>4 DEF Stored
  <2>2. /\ row \in OrderRow /\ row.status = "COMPLIANT" /\ row.tx_id = tx
        /\ row.technician = orders[o].technician
    BY <1>2, <2>1 DEF OrderRow, Statuses
  <2>. HIDE DEF row
  <2>3. tx \in SignedWith[o]
    BY <1>1, <1>2 DEF SignedWith, AuditRow
  <2>4. Technicians[o] # None
    BY <1>2, <1>4, <2>1, NoneAssumption DEF Technicians, OrderRow
  <2>5. Promise!Certify(o, tx)
    BY <1>1, <1>2, <1>4, <2>2, <2>3, <2>4, SetOrderMaps, SameApprovals
       DEF Promise!Certify, Promise!Opened
  <2>6. Promise!Next
    BY <1>2, <2>5, OfOneRecord
  <2>. QED
    BY <2>6
<1>. QED
  BY <1>3, <1>4

\* What an appended row adds to the book of approvals.
LEMMA AppendMaps ==
    ASSUME approvals \in Seq(ApprovalRow), NEW row \in ApprovalRow,
           approvals' = Append(approvals, row)
    PROVE  /\ {o \in Orders : HasRow(o, "SUPERVISOR", "APPROVED")}'
                = {o \in Orders : HasRow(o, "SUPERVISOR", "APPROVED")}
                    \union (IF row.role = "SUPERVISOR" /\ row.decision = "APPROVED"
                              THEN {row.order} ELSE {})
           /\ SignedWith' = IF row.role = "AUDITOR"
                              THEN [SignedWith EXCEPT ![row.order] = @ \union {row.tx}]
                              ELSE SignedWith
<1>. DEFINE last == Len(approvals) + 1
<1>1. /\ DOMAIN approvals' = DOMAIN approvals \union {last} /\ approvals'[last] = row
      /\ \A i \in DOMAIN approvals : approvals'[i] = approvals[i]
  OBVIOUS
<1>2. row.order \in Orders
  BY DEF ApprovalRow
<1>. HIDE DEF last
<1>3. \A o \in Orders : HasRow(o, "SUPERVISOR", "APPROVED")' <=>
          \/ HasRow(o, "SUPERVISOR", "APPROVED")
          \/ row.order = o /\ row.role = "SUPERVISOR" /\ row.decision = "APPROVED"
  BY <1>1 DEF HasRow
<1>4. ASSUME NEW o \in Orders
      PROVE  SignedWith'[o] = SignedWith[o] \union
                (IF row.role = "AUDITOR" /\ row.order = o THEN {row.tx} ELSE {})
  BY <1>1 DEF SignedWith
<1>5. SignedWith = [o \in Orders |-> SignedWith[o]] /\ SignedWith' = [o \in Orders |-> SignedWith'[o]]
  BY DEF SignedWith
<1>6. CASE row.role = "AUDITOR"
  <2>1. \A o \in Orders : SignedWith'[o] =
            [SignedWith EXCEPT ![row.order] = @ \union {row.tx}][o]
    BY <1>2, <1>4, <1>5, <1>6
  <2>. QED
    BY <1>2, <1>3, <1>5, <1>6, <2>1
<1>7. CASE row.role # "AUDITOR"
  <2>1. \A o \in Orders : SignedWith'[o] = SignedWith[o]
    BY <1>4, <1>7
  <2>. QED
    BY <1>2, <1>3, <1>5, <1>7, <2>1
<1>. QED
  BY <1>6, <1>7

\* A row is a supervisor's approval, an auditor's signature, or a rejection.
LEMMA RecordMaps ==
    ASSUME BackendInv, NEW r \in Slots, Record(r)
    PROVE  Promise!Next \/ UNCHANGED Promise!promiseVars
<1>. DEFINE o == request[r].order
            tx == request[r].tx
<1>1. /\ TypeOK /\ At(r, "record") /\ RowOf(r) \in ApprovalRow /\ request[r] \in Request
      /\ UNCHANGED orders /\ approvals \in Seq(ApprovalRow)
      /\ orders \in [Orders -> OrderRow \union {None}]
  BY RowType DEF Record, BackendInv, TypeOK
<1>2. o \in Orders /\ tx \in Txs \union {None} /\ RowOf(r).order = o /\ RowOf(r).tx = tx
  BY <1>1 DEF Request, RowOf
<1>3. CASE ~Stored(o)
  BY <1>1, <1>3, QuietMaps DEF Record
<1>4. CASE Stored(o)
  <2>1. approvals' = Append(approvals, RowOf(r))
    BY <1>4 DEF Record
  <2>2. /\ Technicians' = Technicians
        /\ {p \in Orders : Stored(p) /\ orders[p].status = "COMPLIANT"}'
             = {p \in Orders : Stored(p) /\ orders[p].status = "COMPLIANT"}
        /\ [p \in Orders |-> IF Stored(p) THEN orders[p].tx_id ELSE None]'
             = [p \in Orders |-> IF Stored(p) THEN orders[p].tx_id ELSE None]
    BY <1>1 DEF Technicians, Stored
  <2>3. Technicians[o] # None
    BY <1>1, <1>2, <1>4, NoneAssumption DEF Technicians, OrderRow, Stored
  <2>4. CASE RowOf(r).role = "AUDITOR"
    <3>1. request[r] # None /\ request[r].kind = "audit" /\ request[r].stage = "record"
      BY <1>1, <2>4 DEF RowOf, At
    <3>2. HasRow(o, "SUPERVISOR", "APPROVED")
      BY <3>1 DEF BackendInv, HandlerKnows
    <3>3. Promise!Sign(o, tx)
      BY <1>1, <1>2, <2>1, <2>2, <2>4, <3>2, AppendMaps DEF Promise!Sign
    <3>. QED
      BY <1>2, <3>3 DEF Promise!Next
  <2>5. CASE RowOf(r).role = "SUPERVISOR" /\ RowOf(r).decision = "APPROVED"
    <3>1. Promise!Approve(o)
      BY <1>1, <1>2, <2>1, <2>2, <2>3, <2>5, AppendMaps DEF Promise!Approve, Promise!Opened
    <3>. QED
      BY <1>2, <3>1 DEF Promise!Next
  <2>6. CASE RowOf(r).role = "SUPERVISOR" /\ RowOf(r).decision # "APPROVED"
    BY <1>1, <2>1, <2>2, <2>6, AppendMaps DEF Promise!promiseVars
  <2>. QED
    BY <1>1, <2>4, <2>5, <2>6 DEF ApprovalRow
<1>. QED
  BY <1>3, <1>4

LEMMA StepsMap ==
    ASSUME BackendInv, IdsAreFresh, [Next]_backendVars
    PROVE  [Promise!Next]_(Promise!promiseVars)
<1>1. ASSUME NEW r \in Slots, Writes(r)
      PROVE  Promise!Next \/ UNCHANGED Promise!promiseVars
  BY <1>1, InsertMaps, UpdateMaps, RecordMaps, CertifyMaps DEF Writes, BackendInv
<1>2. ASSUME UNCHANGED <<orders, approvals>>
      PROVE  UNCHANGED Promise!promiseVars
  BY <1>2, QuietMaps
<1>. QED
  BY <1>1, <1>2, FewStepsWrite DEF Quiet, RegisterUser, LedgerApplies

LEMMA InitMaps ==
    ASSUME Init
    PROVE  Promise!Init /\ IdsAreFresh
<1>1. /\ orders = [o \in Orders |-> None] /\ approvals = <<>>
      /\ request = [r \in Slots |-> None]
  BY DEF Init
<1>2. \A o \in Orders : ~Stored(o) /\ ~HasRow(o, "SUPERVISOR", "APPROVED")
  <2>1. DOMAIN approvals = {}
    BY <1>1
  <2>2. \A o \in Orders : ~Stored(o)
    BY <1>1 DEF Stored
  <2>. QED
    BY <2>1, <2>2 DEF HasRow
<1>3. Technicians = [o \in Orders |-> None]
  BY <1>2 DEF Technicians
<1>4. SignedWith = [o \in Orders |-> {}]
  BY <1>1 DEF SignedWith
<1>5. /\ {o \in Orders : HasRow(o, "SUPERVISOR", "APPROVED")} = {}
      /\ {o \in Orders : Stored(o) /\ orders[o].status = "COMPLIANT"} = {}
      /\ [o \in Orders |-> IF Stored(o) THEN orders[o].tx_id ELSE None] = [o \in Orders |-> None]
  BY <1>2
<1>6. IdsAreFresh
  BY <1>1 DEF IdsAreFresh, Creating
<1>. QED
  BY <1>3, <1>4, <1>5, <1>6 DEF Promise!Init

\* Refinement, for any number of records and requests in flight: every behaviour of the
\* handlers is a behaviour of RecordPromise.
THEOREM BackendKeepsPromise == Spec => KeepsRecordPromise
<1>1. Init => Promise!Init /\ BackendInv /\ IdsAreFresh
  BY InitMaps, InitInv
<1>2. BackendInv /\ IdsAreFresh /\ [Next]_backendVars =>
          /\ [Promise!Next]_(Promise!promiseVars)
          /\ BackendInv' /\ IdsAreFresh'
  BY StepsMap, StepsKeepInv, StepsKeepFresh DEF BackendInv
<1>. QED
  BY <1>1, <1>2, PTL DEF Spec, KeepsRecordPromise, Promise!Spec

-----------------------------------------------------------------------------
(* What main.rs:507 promises, for approvals that come to their end *)

\* An approval past its first statement and before its last.
Deciding(r) ==
    /\ request[r] # None /\ request[r].kind = "approve"
    /\ request[r].stage \in {"resolve", "record"}
    /\ Stored(request[r].order)

\* No approval ends there: nothing stops it, and its approver has a row in users (Resolve
\* without one ends the handler as Abandon does).
DecisionsFinish == [][\A r \in Slots : Deciding(r) => ~Abandon(r)]_backendVars

\* A record pending approval has the approval, or a handler that is about to record it.
ApprovalsAreComing ==
    \A o \in Orders : Stored(o) /\ orders[o].status = "PENDING_APPROVAL" =>
        \/ HasRow(o, "SUPERVISOR", "APPROVED")
        \/ \E r \in Slots : Deciding(r) /\ request[r].order = o

\* The row an update writes, and the one update that writes this status.
LEMMA UpdateWrites ==
    ASSUME TypeOK, NEW r \in Slots, UpdateEvidence(r) \/ UpdateStatus(r) \/ Certify(r)
    PROVE  \/ UNCHANGED orders
           \/ \E row \in OrderRow :
                 /\ Stored(request[r].order)
                 /\ orders' = [orders EXCEPT ![request[r].order] = row]
                 /\ row.status = "PENDING_APPROVAL" =>
                       UpdateStatus(r) /\ request[r].kind = "approve"
<1>. PICK q : q = request[r]
  OBVIOUS
<1>1. q \in Request /\ orders \in [Orders -> OrderRow \union {None}]
  BY DEF UpdateEvidence, UpdateStatus, Certify, At, TypeOK
<1>2. q.order \in Orders /\ q.tx \in Txs \union {None}
  BY <1>1 DEF Request
<1>3. CASE ~Stored(q.order)
  BY <1>3 DEF UpdateEvidence, UpdateStatus, Certify, SetOrder
<1>4. CASE Stored(q.order)
  <2>1. orders[q.order] \in OrderRow
    BY <1>1, <1>2, <1>4 DEF Stored
  <2>2. CASE UpdateEvidence(r)
    <3>. DEFINE row == [orders[q.order] EXCEPT !.evidence_hash = q.evidence,
                                               !.status = "SUBMITTED"]
    <3>1. q.evidence \in Evidence /\ orders' = [orders EXCEPT ![q.order] = row]
      BY <1>1, <1>4, <2>2 DEF UpdateEvidence, Request, SetOrder
    <3>2. row \in OrderRow /\ row.status = "SUBMITTED"
      BY <2>1, <3>1 DEF OrderRow, Statuses
    <3>. QED
      BY <1>4, <3>1, <3>2
  <2>3. CASE UpdateStatus(r)
    <3>1. PICK status \in {"PENDING_APPROVAL", "SUBMITTED"} :
              /\ orders' = [orders EXCEPT ![q.order] = [orders[q.order] EXCEPT !.status = status]]
              /\ status = "PENDING_APPROVAL" => q.kind = "approve"
      BY <1>4, <2>3 DEF UpdateStatus, SetOrder
    <3>. DEFINE row == [orders[q.order] EXCEPT !.status = status]
    <3>2. row \in OrderRow /\ row.status = status
      BY <2>1 DEF OrderRow, Statuses
    <3>. QED
      BY <1>4, <2>3, <3>1, <3>2
  <2>4. CASE Certify(r)
    <3>. DEFINE row == [orders[q.order] EXCEPT !.status = "COMPLIANT", !.tx_id = q.tx]
    <3>1. orders' = [orders EXCEPT ![q.order] = row]
      BY <1>4, <2>4 DEF Certify, SetOrder
    <3>2. row \in OrderRow /\ row.status = "COMPLIANT"
      BY <1>2, <2>1 DEF OrderRow, Statuses
    <3>. QED
      BY <1>4, <3>1, <3>2
  <2>. QED
    BY <2>2, <2>3, <2>4
<1>. QED
  BY <1>3, <1>4

\* Records are never deleted, and pending approval is what an approval left behind.
LEMMA PendingByUpdate ==
    ASSUME TypeOK, IdsAreFresh, [Next]_backendVars
    PROVE  /\ \A o \in Orders : Stored(o) => Stored(o)'
           /\ \/ \A o \in Orders : Stored(o)' /\ orders'[o].status = "PENDING_APPROVAL" =>
                    Stored(o) /\ orders[o].status = "PENDING_APPROVAL"
              \/ \E r \in Slots :
                    /\ UpdateStatus(r) /\ request[r].kind = "approve"
                    /\ Stored(request[r].order)
                    /\ \A o \in Orders \ {request[r].order} : orders'[o] = orders[o]
<1>0. orders \in [Orders -> OrderRow \union {None}]
  BY DEF TypeOK
<1>. DEFINE Kept == \A o \in Orders : Stored(o) => Stored(o)'
            Old == \A o \in Orders : Stored(o)' /\ orders'[o].status = "PENDING_APPROVAL" =>
                      Stored(o) /\ orders[o].status = "PENDING_APPROVAL"
            New(r) == /\ UpdateStatus(r) /\ request[r].kind = "approve"
                      /\ Stored(request[r].order)
                      /\ \A o \in Orders \ {request[r].order} : orders'[o] = orders[o]
<1>1. ASSUME UNCHANGED orders PROVE Kept /\ Old
  BY <1>1 DEF Stored
<1>2. ASSUME NEW r \in Slots, InsertOrder(r) PROVE Kept /\ Old
  <2>. PICK p : p = request[r].order
    OBVIOUS
  <2>1. ~Stored(p) /\ p \in Orders
    BY <1>2 DEF InsertOrder, At, IdsAreFresh, Creating, TypeOK, Request
  <2>. DEFINE row == [technician |-> request[r].user, status |-> "OPEN",
                      evidence_hash |-> "PENDING", tx_id |-> None]
  <2>2. orders' = [orders EXCEPT ![p] = row] /\ row.status = "OPEN"
    BY <1>2 DEF InsertOrder
  <2>. HIDE DEF row
  <2>3. \A o \in Orders : orders'[o] = IF o = p THEN row ELSE orders[o]
    BY <1>0, <2>2
  <2>4. Kept
    BY <2>1, <2>3 DEF Stored
  <2>5. Old
    BY <2>1, <2>2, <2>3 DEF Stored
  <2>. QED
    BY <2>4, <2>5
<1>3. ASSUME NEW r \in Slots, UpdateEvidence(r) \/ UpdateStatus(r) \/ Certify(r)
      PROVE  Kept /\ (Old \/ New(r))
  <2>. PICK p : p = request[r].order
    OBVIOUS
  <2>1. CASE UNCHANGED orders
    BY <1>1, <2>1
  <2>2. ASSUME NEW row \in OrderRow, Stored(p), orders' = [orders EXCEPT ![p] = row],
               row.status = "PENDING_APPROVAL" => UpdateStatus(r) /\ request[r].kind = "approve"
        PROVE  Kept /\ (Old \/ New(r))
    <3>1. row # None
      BY AbsentAssumption
    <3>2. Kept
      BY <1>0, <2>2, <3>1 DEF Stored
    <3>3. \A o \in Orders \ {p} : orders'[o] = orders[o]
      BY <1>0, <2>2
    <3>4. CASE row.status = "PENDING_APPROVAL"
      BY <2>2, <3>2, <3>3, <3>4
    <3>5. CASE row.status # "PENDING_APPROVAL"
      BY <1>0, <2>2, <3>2, <3>3, <3>5 DEF Stored
    <3>. QED
      BY <3>4, <3>5
  <2>. QED
    BY <1>3, <2>1, <2>2, UpdateWrites
<1>. HIDE DEF Kept, Old, New
<1>4. \/ UNCHANGED orders
      \/ \E r \in Slots : \/ InsertOrder(r)
                          \/ UpdateEvidence(r) \/ UpdateStatus(r) \/ Certify(r)
  BY FewStepsWrite DEF Quiet, Writes, Record, RegisterUser, LedgerApplies
<1>5. Kept /\ (Old \/ \E r \in Slots : New(r))
  BY <1>1, <1>2, <1>3, <1>4
<1>. QED
  BY <1>5 DEF Kept, Old, New

\* An approval goes on until it is recorded, whatever else happens.
LEMMA DecidersGoOn ==
    ASSUME TypeOK, Next, NEW r \in Slots, Deciding(r), ~Abandon(r), NEW o, o = request[r].order,
           \A p \in Orders : Stored(p) => Stored(p)'
    PROVE  \/ Deciding(r)' /\ request'[r].order = o
           \/ HasRow(o, "SUPERVISOR", "APPROVED")'
<1>. PICK q : q = request[r]
  OBVIOUS
<1>0. /\ request \in [Slots -> Request \union {None}] /\ q \in Request /\ q # None
      /\ o = q.order /\ o \in Orders /\ Stored(o)' /\ Stored(o)
      /\ q.kind = "approve" /\ q.stage \in {"resolve", "record"}
  BY DEF TypeOK, Deciding, Request
<1>1. CASE request'[r] = q
  BY <1>0, <1>1 DEF Deciding
<1>2. CASE Resolve(r)
  <2>1. ~Return(r) \/ Abandon(r)
    BY <1>0, <1>2 DEF Resolve, Abandon
  <2>2. request' = [request EXCEPT ![r] = [q EXCEPT !.stage = "record"]]
    BY <1>2, <2>1 DEF Resolve, Advance
  <2>3. request'[r] \in Request /\ request'[r].kind = "approve" /\ request'[r].stage = "record"
        /\ request'[r].order = o
    BY <1>0, <2>2 DEF Request, Stages, UserStages
  <2>. QED
    BY <1>0, <2>3, AbsentAssumption DEF Deciding
<1>3. CASE Record(r)
  <2>1. approvals \in Seq(ApprovalRow) /\ RowOf(r) \in ApprovalRow
    BY <1>3, RowType DEF Record, TypeOK
  <2>2. approvals' = Append(approvals, RowOf(r))
    BY <1>0, <1>3 DEF Record
  <2>3. /\ Len(approvals) + 1 \in DOMAIN approvals'
        /\ approvals'[Len(approvals) + 1] = RowOf(r)
    BY <2>1, <2>2
  <2>4. RowOf(r).order = o /\ RowOf(r).role = "SUPERVISOR" /\ RowOf(r).decision = "APPROVED"
    BY <1>0 DEF RowOf
  <2>. QED
    BY <2>3, <2>4 DEF HasRow
<1>4. ASSUME Handle(r) PROVE Resolve(r) \/ Record(r)
  BY <1>0, <1>4 DEF Handle, Identify, InsertOrder, UpdateEvidence, UpdateStatus, CountApprovals,
           VerifyTx, Certify, Reply, ReadRecord, ReadEvents, CountAuditors, Simulate, At
<1>5. ASSUME NEW s \in Slots, s # r, Handle(s) \/ Abandon(s) PROVE request'[r] = q
  <2>1. \/ Return(s) \/ \E stage : Advance(s, stage)
        \/ \E seen : request' = [request EXCEPT ![s].stage = "events", ![s].seen = seen]
    BY <1>5 DEF Handle, Abandon, Identify, InsertOrder, UpdateEvidence, UpdateStatus,
         CountApprovals, VerifyTx, Resolve, Record, Certify, Reply, ReadRecord, ReadEvents,
         CountAuditors, Simulate
  <2>. QED
    BY <1>0, <1>5, <2>1 DEF Return, Advance
<1>6. ASSUME NEW s \in Slots, NEW kind, NEW p, NEW user, NEW evidence, NEW tx,
             Receive(s, kind, p, user, evidence, tx)
      PROVE  request'[r] = q
  BY <1>0, <1>6 DEF Receive
<1>7. CASE UNCHANGED request
  BY <1>1, <1>7
<1>. QED
  BY <1>1, <1>2, <1>3, <1>4, <1>5, <1>6, <1>7 DEF Next, RegisterUser, LedgerApplies

LEMMA ApprovalsComingStep ==
    ASSUME BackendInv, IdsAreFresh, ApprovalsAreComing, [Next]_backendVars,
           [\A r \in Slots : Deciding(r) => ~Abandon(r)]_backendVars
    PROVE  ApprovalsAreComing'
<1>0. TypeOK /\ request \in [Slots -> Request \union {None}]
  BY DEF BackendInv, TypeOK
<1>1. CASE UNCHANGED backendVars
  BY <1>1 DEF backendVars, ApprovalsAreComing, Stored, HasRow, Deciding
<1>2. ASSUME Next, \A r \in Slots : Deciding(r) => ~Abandon(r)
      PROVE  ApprovalsAreComing'
  <2>. SUFFICES ASSUME NEW o \in Orders, Stored(o)', orders'[o].status = "PENDING_APPROVAL"
                PROVE  \/ HasRow(o, "SUPERVISOR", "APPROVED")'
                       \/ \E r \in Slots : Deciding(r)' /\ request'[r].order = o
    BY DEF ApprovalsAreComing
  <2>0. \A p \in Orders : Stored(p) => Stored(p)'
    BY <1>0, <1>2, PendingByUpdate
  <2>1. CASE Stored(o) /\ orders[o].status = "PENDING_APPROVAL"
    <3>1. CASE HasRow(o, "SUPERVISOR", "APPROVED")
      BY <1>0, <1>2, <3>1, FactsStay
    <3>2. ASSUME NEW r \in Slots, Deciding(r), request[r].order = o
          PROVE  \/ HasRow(o, "SUPERVISOR", "APPROVED")'
                 \/ Deciding(r)' /\ request'[r].order = o
      BY <1>0, <1>2, <2>0, <3>2, DecidersGoOn
    <3>. QED
      BY <2>1, <3>1, <3>2 DEF ApprovalsAreComing
  <2>2. ASSUME NEW r \in Slots, UpdateStatus(r), request[r].kind = "approve",
               Stored(request[r].order), o = request[r].order
        PROVE  Deciding(r)' /\ request'[r].order = o
    <3>. PICK q : q = request[r]
      OBVIOUS
    <3>1. /\ q \in Request /\ q # None
          /\ request' = [request EXCEPT ![r] = [q EXCEPT !.stage = "resolve"]]
      BY <1>0, <2>2 DEF UpdateStatus, At, Advance
    <3>2. /\ [q EXCEPT !.stage = "resolve"] \in Request
          /\ [q EXCEPT !.stage = "resolve"].order = o
          /\ [q EXCEPT !.stage = "resolve"].kind = "approve"
          /\ [q EXCEPT !.stage = "resolve"].stage = "resolve"
      BY <2>2, <3>1 DEF Request, Stages, UserStages, Anonymous
    <3>3. request'[r] = [q EXCEPT !.stage = "resolve"]
      BY <1>0, <3>1
    <3>. QED
      BY <2>0, <2>2, <3>2, <3>3, AbsentAssumption DEF Deciding
  <2>3. \/ Stored(o) /\ orders[o].status = "PENDING_APPROVAL"
        \/ \E r \in Slots : /\ UpdateStatus(r) /\ request[r].kind = "approve"
                            /\ Stored(request[r].order)
                            /\ o = request[r].order \/ orders'[o] = orders[o]
    BY <1>0, <1>2, PendingByUpdate
  <2>. QED
    BY <2>1, <2>2, <2>3 DEF Stored
<1>. QED
  BY <1>1, <1>2

\* The only way to what the finding backend_pending shows is an approval that ends half-way.
\* If none does, a record pending approval has a supervisor's approval once no handler
\* works on it, however approvals, rejections, evidence and audits interleave.
THEOREM PendingApproved == Spec /\ DecisionsFinish => []PendingIsApproved
<1>1. Init => ApprovalsAreComing
  BY DEF Init, ApprovalsAreComing, Stored
<1>2. BackendInv /\ IdsAreFresh /\ ApprovalsAreComing /\ [Next]_backendVars
        /\ [\A r \in Slots : Deciding(r) => ~Abandon(r)]_backendVars
          => ApprovalsAreComing'
  BY ApprovalsComingStep
<1>3. ApprovalsAreComing => PendingIsApproved
  BY DEF ApprovalsAreComing, PendingIsApproved, Deciding
<1>4. Init => BackendInv /\ IdsAreFresh
  BY InitInv DEF Init, IdsAreFresh, Creating
<1>5. BackendInv /\ IdsAreFresh /\ [Next]_backendVars => BackendInv' /\ IdsAreFresh'
  BY StepsKeepInv, StepsKeepFresh DEF BackendInv
<1>. QED
  BY <1>1, <1>2, <1>3, <1>4, <1>5, PTL DEF Spec, DecisionsFinish
=============================================================================
