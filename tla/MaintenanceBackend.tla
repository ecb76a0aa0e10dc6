------------------------- MODULE MaintenanceBackend -------------------------
(***************************************************************************)
(* The backend's handlers that write maintenance records and approvals,    *)
(* and the two that answer from both.                                      *)
(* Every SQL statement commits on its own (no handler opens a transaction) *)
(* and every await lets another handler run, so one action is one          *)
(* statement, and a handler is a walk of its request through the stages.   *)
(* A handler may stop at any await: a database error, a client that hangs  *)
(* up, a restart of the process.  What it has committed by then stays.     *)
(***************************************************************************)
EXTENDS Integers, Sequences

CONSTANTS
    Orders,         \* maintenance ids; create_maintenance_order draws a fresh one
    Users,          \* session addresses, one users row each once registered
    Evidence,       \* evidence hashes submitted later than the initial 'PENDING'
    Txs,            \* transaction hashes
    Slots,          \* requests in flight at a time
    MaxApprovals,   \* bound on the rows of approvals
    None            \* an absent transaction_hash, an absent row, no request

ASSUME NoneAssumption == None \notin Users \union Txs

ASSUME BoundAssumption == MaxApprovals \in Nat

VARIABLES
    users,          \* the users with a row in users
    orders,         \* maintenance_records
    approvals,      \* the rows of approvals, in the order of insertion
    request,        \* slot -> the request its handler works on
    succeeded       \* external: the transactions the network reports as SUCCESS

backendVars == <<users, orders, approvals, request, succeeded>>

Statuses == {"OPEN", "SUBMITTED", "PENDING_APPROVAL", "COMPLIANT"}

\* Fields no handler decides on (equipment_id, created_at, note) are left out.
OrderRow ==
    [technician: Users, status: Statuses, evidence_hash: Evidence \union {"PENDING"},
     tx_id: Txs \union {None}]

ApprovalRow ==
    [order: Orders, approver: Users, role: {"SUPERVISOR", "AUDITOR"},
     decision: {"APPROVED", "REJECTED"}, tx: Txs \union {None}]

Kinds == {"create", "submit", "upload", "approve", "reject", "audit", "trail", "eligible"}

\* Handlers that do not look at who sends the request, and those that bring evidence.
Anonymous == {"upload", "trail", "eligible"}

Submissions == {"submit", "upload"}

\* stage: the statement the handler executes next.
Stages == {"identify", "insert", "update", "count", "verify", "resolve", "record",
           "certify", "reply", "read", "events", "count_auditors", "simulate"}

\* Those of handlers that know their user.
UserStages == {"identify", "insert", "verify", "resolve", "record"}

\* seen: the status get_audit_trail has read.
Request ==
    {req \in [kind: Kinds, stage: Stages, order: Orders, user: Users \union {None},
              evidence: Evidence \union {None}, tx: Txs \union {None},
              seen: Statuses \union {None}] :
        /\ req.kind \notin Anonymous => req.user \in Users
        /\ req.kind \in Submissions => req.evidence \in Evidence
        /\ req.stage \in UserStages => req.kind \notin Anonymous}

ASSUME AbsentAssumption == None \notin OrderRow /\ None \notin Request

Stored(o) == orders[o] # None

\* A row of approvals for this order.
HasRow(o, role, decision) ==
    \E i \in DOMAIN approvals :
        approvals[i].order = o /\ approvals[i].role = role /\ approvals[i].decision = decision

At(r, stage) == request[r] # None /\ request[r].stage = stage

Advance(r, stage) == request' = [request EXCEPT ![r].stage = stage]

\* The handler returns, with an answer or with an error.
Return(r) == request' = [request EXCEPT ![r] = None]

FirstStage(kind) ==
    CASE kind = "create" -> "identify"
      [] kind = "trail" -> "read"
      [] kind \in {"audit", "eligible"} -> "count"
      [] OTHER -> "update"

\* What requests of a kind come with: a session's user, evidence, a transaction.
Senders(kind) == IF kind \in Anonymous THEN {None} ELSE Users

Brought(kind) == IF kind \in Submissions THEN Evidence ELSE {None}

Named(kind) == IF kind = "audit" THEN Txs \union {None} ELSE {None}

\* A request passes the middlewares.  An id is drawn for one creation only;
\* any other request may name an id that has no record.
Receive(r, kind, o, user, evidence, tx) ==
    /\ request[r] = None
    /\ kind = "create" => ~Stored(o) /\ \A s \in Slots : request[s] # None =>
                                              request[s].kind # "create" \/ request[s].order # o
    /\ request' = [request EXCEPT ![r] =
          [kind |-> kind, stage |-> FirstStage(kind), order |-> o, user |-> user,
           evidence |-> evidence, tx |-> tx, seen |-> None]]
    /\ UNCHANGED <<users, orders, approvals, succeeded>>

\* verify_uuid_identity: the technician_id of the body is the caller's own row.
Identify(r) ==
    /\ At(r, "identify")
    /\ IF request[r].user \in users THEN Advance(r, "insert") ELSE Return(r)
    /\ UNCHANGED <<users, orders, approvals, succeeded>>

\* Mutant of InsertOrder: two values are bound in the wrong order.
InsertOrderSwapped(r) ==
    /\ At(r, "insert")
    /\ orders' = [orders EXCEPT ![request[r].order] =
          [technician |-> request[r].user, status |-> "PENDING", evidence_hash |-> "OPEN",
           tx_id |-> None]]
    /\ Advance(r, "reply")
    /\ UNCHANGED <<users, approvals, succeeded>>

InsertOrder(r) ==
    /\ At(r, "insert")
    /\ orders' = [orders EXCEPT ![request[r].order] =
          [technician |-> request[r].user, status |-> "OPEN", evidence_hash |-> "PENDING",
           tx_id |-> None]]
    /\ Advance(r, "reply")
    /\ UNCHANGED <<users, approvals, succeeded>>

\* An update of an id that has no row succeeds and changes nothing.
SetOrder(o, row) == orders' = IF Stored(o) THEN [orders EXCEPT ![o] = row] ELSE orders

\* submit_evidence and upload_evidence_file: from any status; only the first of them
\* reads the record back.
UpdateEvidence(r) ==
    /\ At(r, "update") /\ request[r].kind \in Submissions
    /\ SetOrder(request[r].order,
          [orders[request[r].order] EXCEPT !.evidence_hash = request[r].evidence,
                                           !.status = "SUBMITTED"])
    /\ IF request[r].kind = "submit" THEN Advance(r, "reply") ELSE Return(r)
    /\ UNCHANGED <<users, approvals, succeeded>>

\* Mutant of UpdateStatus: an approval makes the record compliant at once.
UpdateStatusAtOnce(r) ==
    /\ At(r, "update") /\ request[r].kind \in {"approve", "reject"}
    /\ SetOrder(request[r].order,
          [orders[request[r].order] EXCEPT !.status =
              IF request[r].kind = "approve" THEN "COMPLIANT" ELSE "SUBMITTED"])
    /\ Advance(r, "resolve")
    /\ UNCHANGED <<users, approvals, succeeded>>

\* supervisor_decision writes the status first, from any status.
UpdateStatus(r) ==
    /\ At(r, "update") /\ request[r].kind \in {"approve", "reject"}
    /\ SetOrder(request[r].order,
          [orders[request[r].order] EXCEPT !.status =
              IF request[r].kind = "approve" THEN "PENDING_APPROVAL" ELSE "SUBMITTED"])
    /\ Advance(r, "resolve")
    /\ UNCHANGED <<users, approvals, succeeded>>

\* Mutant of CountApprovals: rows are counted whatever their decision.
CountDecisions(r) ==
    /\ At(r, "count")
    /\ IF \E decision \in {"APPROVED", "REJECTED"} :
             HasRow(request[r].order, "SUPERVISOR", decision)
          THEN Advance(r, IF request[r].kind = "audit" THEN "verify" ELSE "count_auditors")
          ELSE Return(r)
    /\ UNCHANGED <<users, orders, approvals, succeeded>>

\* approve_by_auditor, 1, and is_eligible_for_compliance: some supervisor approval was
\* ever recorded.  Without one the second count changes nothing of the answer "no".
CountApprovals(r) ==
    /\ At(r, "count")
    /\ IF HasRow(request[r].order, "SUPERVISOR", "APPROVED")
          THEN Advance(r, IF request[r].kind = "audit" THEN "verify" ELSE "count_auditors")
          ELSE Return(r)
    /\ UNCHANGED <<users, orders, approvals, succeeded>>

\* Mutant of CountAuditors: the first count once more, its role not replaced.
CountAuditorsCopied(r) ==
    /\ At(r, "count_auditors")
    /\ IF HasRow(request[r].order, "SUPERVISOR", "APPROVED")
          THEN Advance(r, "simulate") ELSE Return(r)
    /\ UNCHANGED <<users, orders, approvals, succeeded>>

\* is_eligible_for_compliance: with both, the chain is asked.
CountAuditors(r) ==
    /\ At(r, "count_auditors")
    /\ IF HasRow(request[r].order, "AUDITOR", "APPROVED")
          THEN Advance(r, "simulate") ELSE Return(r)
    /\ UNCHANGED <<users, orders, approvals, succeeded>>

\* verify_compliance: whatever the simulation answers, no row depends on it.
Simulate(r) ==
    /\ At(r, "simulate")
    /\ Return(r)
    /\ UNCHANGED <<users, orders, approvals, succeeded>>

\* get_audit_trail: the record, 404 without one, and then its events.
ReadRecord(r) ==
    /\ At(r, "read")
    /\ IF Stored(request[r].order)
          THEN request' = [request EXCEPT ![r].stage = "events",
                                          ![r].seen = orders[request[r].order].status]
          ELSE Return(r)
    /\ UNCHANGED <<users, orders, approvals, succeeded>>

ReadEvents(r) ==
    /\ At(r, "events")
    /\ Return(r)
    /\ UNCHANGED <<users, orders, approvals, succeeded>>

\* Mutant of VerifyTx: any transaction hash is believed.
VerifyTxBlind(r) ==
    /\ At(r, "verify")
    /\ Advance(r, "resolve")
    /\ UNCHANGED <<users, orders, approvals, succeeded>>

\* approve_by_auditor, 2: a transaction hash, if there is one, must have succeeded;
\* verify_transaction asks for no more, the network's answer names no "source".
VerifyTx(r) ==
    /\ At(r, "verify")
    /\ IF request[r].tx \in succeeded \union {None} THEN Advance(r, "resolve") ELSE Return(r)
    /\ UNCHANGED <<users, orders, approvals, succeeded>>

\* resolve_user_id_from_address: 400 for an address that has no row.
Resolve(r) ==
    /\ At(r, "resolve")
    /\ IF request[r].user \in users THEN Advance(r, "record") ELSE Return(r)
    /\ UNCHANGED <<users, orders, approvals, succeeded>>

RowOf(r) ==
    [order |-> request[r].order, approver |-> request[r].user,
     role |-> IF request[r].kind = "audit" THEN "AUDITOR" ELSE "SUPERVISOR",
     decision |-> IF request[r].kind = "reject" THEN "REJECTED" ELSE "APPROVED",
     tx |-> request[r].tx]

\* The insert into approvals; its foreign key refuses an id that has no record.
Record(r) ==
    /\ At(r, "record")
    /\ Len(approvals) < MaxApprovals
    /\ IF Stored(request[r].order)
          THEN /\ approvals' = Append(approvals, RowOf(r))
               /\ Advance(r, IF request[r].kind = "audit" THEN "certify" ELSE "reply")
          ELSE Return(r) /\ UNCHANGED approvals
    /\ UNCHANGED <<users, orders, succeeded>>

\* Mutant of Certify: the status is written first, as supervisor_decision does.
CertifyFirst(r) ==
    /\ \/ At(r, "certify") /\ Advance(r, "reply")
       \/ At(r, "resolve") /\ request[r].kind = "audit" /\ Advance(r, "record")
    /\ SetOrder(request[r].order,
          [orders[request[r].order] EXCEPT !.status = "COMPLIANT", !.tx_id = request[r].tx])
    /\ UNCHANGED <<users, approvals, succeeded>>

\* approve_by_auditor, 4: from any status, whatever was decided meanwhile.
Certify(r) ==
    /\ At(r, "certify")
    /\ SetOrder(request[r].order,
          [orders[request[r].order] EXCEPT !.status = "COMPLIANT", !.tx_id = request[r].tx])
    /\ Advance(r, "reply")
    /\ UNCHANGED <<users, approvals, succeeded>>

\* The select of the answer, 500 if the id has no record.
Reply(r) ==
    /\ At(r, "reply")
    /\ Return(r)
    /\ UNCHANGED <<users, orders, approvals, succeeded>>

\* The handler ends before its last statement.
Abandon(r) ==
    /\ request[r] # None
    /\ Return(r)
    /\ UNCHANGED <<users, orders, approvals, succeeded>>

\* register_user: the unique stellar_address refuses a second row.
RegisterUser(user) ==
    /\ user \notin users
    /\ users' = users \union {user}
    /\ UNCHANGED <<orders, approvals, request, succeeded>>

LedgerApplies(tx) ==
    /\ tx \notin succeeded
    /\ succeeded' = succeeded \union {tx}
    /\ UNCHANGED <<users, orders, approvals, request>>

-----------------------------------------------------------------------------
Init ==
    /\ users = {}
    /\ orders = [o \in Orders |-> None]
    /\ approvals = <<>>
    /\ request = [r \in Slots |-> None]
    /\ succeeded = {}

Handle(r) ==
    \/ Identify(r) \/ InsertOrder(r)
    \/ UpdateEvidence(r) \/ UpdateStatus(r)
    \/ CountApprovals(r) \/ VerifyTx(r)
    \/ Resolve(r) \/ Record(r) \/ Certify(r) \/ Reply(r)
    \/ ReadRecord(r) \/ ReadEvents(r) \/ CountAuditors(r) \/ Simulate(r)

Next ==
    \/ \E r \in Slots :
          \/ \E kind \in Kinds, o \in Orders :
                \E user \in Senders(kind), evidence \in Brought(kind), tx \in Named(kind) :
                   Receive(r, kind, o, user, evidence, tx)
          \/ Handle(r)
          \/ Abandon(r)
    \/ \E user \in Users : RegisterUser(user)
    \/ \E tx \in Txs : LedgerApplies(tx)

Spec == Init /\ [][Next]_backendVars

-----------------------------------------------------------------------------
TypeOK ==
    /\ users \subseteq Users
    /\ orders \in [Orders -> OrderRow \union {None}]
    /\ approvals \in Seq(ApprovalRow)
    /\ request \in [Slots -> Request \union {None}]
    /\ succeeded \subseteq Txs

\* main.rs:509, "after both approvals exist": however the handlers interleave and
\* wherever they stop, a compliant record has a supervisor's and an auditor's
\* approval on record.
CompliantIsApproved ==
    \A o \in Orders : Stored(o) /\ orders[o].status = "COMPLIANT" =>
        HasRow(o, "SUPERVISOR", "APPROVED") /\ HasRow(o, "AUDITOR", "APPROVED")

\* The audit trail reads as one certification: in the order of insertion every
\* auditor's approval stands behind a supervisor's approval of the same record.
AuditorsComeSecond ==
    \A i \in DOMAIN approvals : approvals[i].role = "AUDITOR" =>
        \E j \in 1..i : /\ approvals[j].order = approvals[i].order
                        /\ approvals[j].role = "SUPERVISOR"
                        /\ approvals[j].decision = "APPROVED"

\* A tx_id on a record was seen to succeed, and an auditor's row of the same
\* record names it too, although two statements write the two.
TxIsBooked ==
    \A o \in Orders : Stored(o) /\ orders[o].tx_id # None =>
        /\ orders[o].tx_id \in succeeded
        /\ \E i \in DOMAIN approvals :
              /\ approvals[i].order = o
              /\ approvals[i].role = "AUDITOR"
              /\ approvals[i].tx = orders[o].tx_id

\* What get_audit_trail and check_eligibility answer is put together from several
\* statements: a trail that says COMPLIANT lists both approvals, and the chain is asked
\* only about a record that has both, whatever is decided between the statements.
AnswersAreBacked ==
    \A r \in Slots :
        (At(r, "events") /\ request[r].seen = "COMPLIANT") \/ At(r, "simulate") =>
            /\ HasRow(request[r].order, "SUPERVISOR", "APPROVED")
            /\ HasRow(request[r].order, "AUDITOR", "APPROVED")

\* 0001_init.sql:19, "approvals are append-only": no step changes, drops or
\* reorders a recorded decision.
ApprovalsAreAppendOnly ==
    [][/\ Len(approvals) <= Len(approvals')
       /\ \A i \in DOMAIN approvals : approvals'[i] = approvals[i]]_backendVars

\* The tables, read as the variables of RecordPromise.
Technicians == [o \in Orders |-> IF Stored(o) THEN orders[o].technician ELSE None]

SignedWith ==
    [o \in Orders |->
        {approvals[i].tx : i \in {j \in DOMAIN approvals :
                                     approvals[j].order = o /\ approvals[j].role = "AUDITOR"}}]

Promise == INSTANCE RecordPromise WITH
    technician <- Technicians, signed <- SignedWith,
    approved <- {o \in Orders : HasRow(o, "SUPERVISOR", "APPROVED")},
    compliant <- {o \in Orders : Stored(o) /\ orders[o].status = "COMPLIANT"},
    named <- [o \in Orders |-> IF Stored(o) THEN orders[o].tx_id ELSE None]

\* Refinement: seen from the tables, every interleaving of the handlers' statements, and
\* every handler that stops half-way, is a behaviour of the promise; a record is certified
\* only at a moment when the signature that names its transaction is on file.
KeepsRecordPromise == Promise!Spec

-----------------------------------------------------------------------------
(* What the repository's documents say of the records and the code does not do *)

\* main.rs:507, "Record supervisor approval + set status to PENDING_APPROVAL": once
\* no handler works on it, a record pending approval has a supervisor's approval.
PendingIsApproved ==
    \A o \in Orders :
        /\ Stored(o) /\ orders[o].status = "PENDING_APPROVAL"
        /\ \A r \in Slots : request[r] # None => request[r].order # o
        => HasRow(o, "SUPERVISOR", "APPROVED")
=============================================================================
