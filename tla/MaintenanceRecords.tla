------------------------ MODULE MaintenanceRecords ------------------------
(***************************************************************************)
(* The MaintenanceRecords contract: one order per maintenance id, moved    *)
(* through its statuses, and the one address that may complete orders.     *)
(* As in MultiPartyApproval a call is one atomic step, and a panic is no   *)
(* step.  equipment_id and created_at are written once by create_record    *)
(* and read by no call, so an order is modelled by the rest of its fields. *)
(* ComplianceChain composes these calls with those of the other contracts. *)
(***************************************************************************)
CONSTANTS
    Ids,            \* maintenance ids
    Addresses,      \* everything that can authorise a call: accounts, contracts
    Evidence,       \* evidence hashes
    None,           \* Option::None
    NoRecord        \* no order stored under this id

Status == {"Open", "Submitted", "PendingApproval", "Compliant", "Rejected",
           "PendingAudit"}

VARIABLES
    records,        \* maintenance id -> MaintenanceOrder
    completer       \* DataKey::AuthorizedCompleter

MaintenanceOrder ==
    [tech_id: Addresses, status: Status, evidence_hash: Evidence \union {None}]

Exists(id) == records[id] # NoRecord

HasStatus(id, status) == Exists(id) /\ records[id].status = status

CreateRecord(id, tech_id) ==
    /\ ~Exists(id)
    /\ records' = [records EXCEPT ![id] =
          [tech_id |-> tech_id, status |-> "Open", evidence_hash |-> None]]
    /\ UNCHANGED completer

\* Mutant of SubmitEvidence: the order is rebuilt with the caller as technician.
SubmitEvidenceAsCaller(id, evidence, caller) ==
    /\ Exists(id)
    /\ records' = [records EXCEPT ![id] =
          [tech_id |-> caller, status |-> "Submitted", evidence_hash |-> evidence]]
    /\ UNCHANGED completer

\* From any status, a compliant order included.
SubmitEvidence(id, evidence, caller) ==
    /\ Exists(id)
    /\ caller = records[id].tech_id
    /\ records' = [records EXCEPT ![id].evidence_hash = evidence,
                                  ![id].status = "Submitted"]
    /\ UNCHANGED completer

\* Asks for no authorisation and looks at no status.
UpdateStatus(id, new_status) ==
    /\ Exists(id)
    /\ records' = [records EXCEPT ![id].status = new_status]
    /\ UNCHANGED completer

\* Mutant of SetAuthorizedCompleter: anybody may move the post.
SetAuthorizedCompleterFreely(authorized, caller) ==
    /\ completer' = authorized
    /\ UNCHANGED records

\* The first caller sets the completer freely, later only the completer may.
SetAuthorizedCompleter(authorized, caller) ==
    /\ completer \in {None, caller}
    /\ completer' = authorized
    /\ UNCHANGED records

\* Mutant of Complete: the caller is not compared with the completer.
CompleteByAnyone(id, attestation_contract) ==
    /\ HasStatus(id, "PendingApproval")
    /\ records' = [records EXCEPT ![id].status = "Compliant"]
    /\ UNCHANGED completer

Complete(id, attestation_contract) ==
    /\ completer = attestation_contract
    /\ HasStatus(id, "PendingApproval")
    /\ records' = [records EXCEPT ![id].status = "Compliant"]
    /\ UNCHANGED completer

-----------------------------------------------------------------------------
Init ==
    /\ records = [id \in Ids |-> NoRecord]
    /\ completer = None

-----------------------------------------------------------------------------
TypeOK ==
    /\ records \in [Ids -> MaintenanceOrder \union {NoRecord}]
    /\ completer \in Addresses \union {None}
=============================================================================
