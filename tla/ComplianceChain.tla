-------------------------- MODULE ComplianceChain --------------------------
(***************************************************************************)
(* The three contracts that decide compliance, composed: MultiPartyApproval *)
(* collects the approvals, MaintenanceRecords keeps the orders, and        *)
(* ComplianceAttestation issues a certificate by calling both inside one   *)
(* transaction, which the ledger applies as a whole or not at all.  Which  *)
(* two contracts it calls is for its caller to say, who signs nothing: the *)
(* audit page names the deployed ones, anybody may name others.            *)
(***************************************************************************)
CONSTANTS
    Ids, Users, Evidence, None, NoState, NoRecord,
    StatusUpdates,  \* the statuses that callers of update_status ask for
    Attestation,    \* the address of the ComplianceAttestation contract
    ApprovalId,     \* the id of the deployed MultiPartyApproval contract
    RecordsId,      \* the id of the deployed MaintenanceRecords contract
    OtherIds,       \* ids of contracts with a verify and a complete of their own
    CertHashes,     \* certificate hashes
    NoCert          \* no attestation stored under this id

VARIABLES
    approval, records, completer,   \* see the two contracts
    attestation,    \* ComplianceAttestation: maintenance id -> cert_hash
    named           \* history: the contracts the last certificate of an id rests on

chainVars == <<approval, records, completer, attestation, named>>

Approvals == INSTANCE MultiPartyApproval
Orders == INSTANCE MaintenanceRecords
            WITH Addresses <- Users \union {Attestation}

ASSUME ChainAssumption ==
    /\ None \notin Users \union Evidence
    /\ Attestation \notin Users \union {None}
    /\ NoState \notin Approvals!ApprovalState
    /\ NoRecord \notin Orders!MaintenanceOrder
    /\ NoCert \notin CertHashes \union OtherIds \union {ApprovalId}
    /\ ApprovalId \notin OtherIds /\ RecordsId \notin OtherIds
    /\ StatusUpdates \subseteq Orders!Status

\* A call of MultiPartyApproval signed by a user.
PartyCall(id, caller) ==
    /\ \/ \E required \in BOOLEAN : Approvals!SetAuditorRequired(id, required, caller)
       \/ Approvals!ApproveByTechnician(id, caller)
       \/ Approvals!ApproveByAuditor(id, caller)
    /\ UNCHANGED <<records, completer, attestation, named>>

SupervisorCall(id, caller) ==
    /\ \/ \E byte \in {0, 1} : Approvals!ApproveBySupervisor(id, byte, caller)
       \/ Approvals!RejectBySupervisor(id, caller)
    /\ UNCHANGED <<records, completer, attestation, named>>

\* A call of MaintenanceRecords signed by a user, who may be the completer.
OrderCall(id, caller) ==
    /\ \/ Orders!CreateRecord(id, caller)
       \/ \E evidence \in Evidence : Orders!SubmitEvidence(id, evidence, caller)
       \/ \E status \in StatusUpdates : Orders!UpdateStatus(id, status)
       \/ Orders!Complete(id, caller)
    /\ UNCHANGED <<approval, attestation, named>>

CompleterCall(authorized, caller) ==
    /\ Orders!SetAuthorizedCompleter(authorized, caller)
    /\ UNCHANGED <<approval, attestation, named>>

\* The answer of verify and the effect of complete, in the contract that was named.
\* A contract that is not ours answers what it likes, and has no say in our records:
\* complete there is for the attestation contract to authorise, by calling it itself.
VerifyAt(contract, id) == contract = ApprovalId => Approvals!Verified(id)

CompleteAt(contract, id) ==
    \/ contract = RecordsId /\ Orders!Complete(id, Attestation)
    \/ contract # RecordsId /\ UNCHANGED <<records, completer>>

\* Mutant of IssueCertificate: a refused complete leaves the attestation behind.
IssueCertificateUnbound(approval_contract_id, records_contract_id, id, cert_hash) ==
    /\ VerifyAt(approval_contract_id, id)
    /\ attestation' = [attestation EXCEPT ![id] = cert_hash]
    /\ named' = [named EXCEPT ![id] =
                    [approval |-> approval_contract_id, records |-> records_contract_id]]
    /\ CompleteAt(records_contract_id, id) \/ UNCHANGED <<records, completer>>
    /\ UNCHANGED approval

\* Mutant of IssueCertificate: key and value are swapped, both are BytesN<32>.
IssueCertificateSwapped(approval_contract_id, records_contract_id, id, cert_hash) ==
    /\ VerifyAt(approval_contract_id, id)
    /\ attestation' = [key \in DOMAIN attestation \union {cert_hash} |->
                          IF key = cert_hash THEN id ELSE attestation[key]]
    /\ named' = [named EXCEPT ![id] =
                    [approval |-> approval_contract_id, records |-> records_contract_id]]
    /\ CompleteAt(records_contract_id, id)
    /\ UNCHANGED approval

\* verify, then the attestation, then complete as the attestation contract;
\* a refusal of either call takes the attestation back with it.
IssueCertificate(approval_contract_id, records_contract_id, id, cert_hash) ==
    /\ VerifyAt(approval_contract_id, id)
    /\ attestation' = [attestation EXCEPT ![id] = cert_hash]
    /\ named' = [named EXCEPT ![id] =
                    [approval |-> approval_contract_id, records |-> records_contract_id]]
    /\ CompleteAt(records_contract_id, id)
    /\ UNCHANGED approval

-----------------------------------------------------------------------------
Init ==
    /\ Approvals!Init
    /\ Orders!Init
    /\ attestation = [id \in Ids |-> NoCert]
    /\ named = [id \in Ids |-> NoCert]

\* Anybody issues a certificate, naming any contracts.
CertificateCall(id, cert_hash) ==
    \E approval_contract_id \in OtherIds \union {ApprovalId},
       records_contract_id \in OtherIds \union {RecordsId} :
          IssueCertificate(approval_contract_id, records_contract_id, id, cert_hash)

Next ==
    \/ \E id \in Ids, caller \in Users :
          PartyCall(id, caller) \/ SupervisorCall(id, caller) \/ OrderCall(id, caller)
    \/ \E authorized \in Users \union {Attestation}, caller \in Users :
          CompleterCall(authorized, caller)
    \/ \E id \in Ids, cert_hash \in CertHashes : CertificateCall(id, cert_hash)

Spec == Init /\ [][Next]_chainVars

-----------------------------------------------------------------------------
Certified(id) == attestation[id] # NoCert

TypeOK ==
    /\ Approvals!TypeOK
    /\ Orders!TypeOK
    /\ attestation \in [Ids -> CertHashes \union {NoCert}]
    /\ named \in [Ids -> [approval: OtherIds \union {ApprovalId},
                         records: OtherIds \union {RecordsId}] \union {NoCert}]

RestsOn(id, approval_contract_id) ==
    Certified(id) /\ named[id].approval = approval_contract_id

CompletedAt(id, records_contract_id) ==
    Certified(id) /\ named[id].records = records_contract_id

\* A certificate is worth what the contracts are worth that its caller named
\* (issue_certificate).  With the deployed approval contract the technician's approval
\* is in place and a supervisor is on record; with the deployed records contract its
\* order exists, and the contract that issued it is still the one completer.  Either
\* holds whatever the other argument was, and whatever is called afterwards.
CertificatesAreBacked ==
    \A id \in Ids :
        /\ RestsOn(id, ApprovalId) =>
              /\ approval[id] # NoState
              /\ approval[id].tech_approved
              /\ approval[id].supervisor # None
        /\ CompletedAt(id, RecordsId) =>
              /\ Orders!Exists(id)
              /\ completer = Attestation

\* Once the attestation contract is the completer it stays so: only it could
\* hand the post on (set_authorized_completer), and it has no call that does.
CompleterIsFinal ==
    [][completer = Attestation => completer' = Attestation]_chainVars

\* As long as update_status is not asked for Compliant, and the attestation contract is
\* the completer, an order becomes compliant only in the step that writes its
\* certificate, and that certificate names the contract that was asked for the approvals:
\* if it is the deployed one, verify holds at this very moment.
ComplianceIsCertified ==
    [][\A id \in Ids :
          completer = Attestation /\ ~Orders!HasStatus(id, "Compliant")
             /\ Orders!HasStatus(id, "Compliant")'
          => /\ CompletedAt(id, RecordsId)'
             /\ RestsOn(id, ApprovalId)' => Approvals!Verified(id)
             /\ approval' = approval]_chainVars

\* What an order says of the work outlives every later call: the technician
\* create_record named stays, and evidence once submitted may be replaced by
\* newer evidence but is never lost, whatever the statuses and certificates do.
OrdersAreKept ==
    [][\A id \in Ids : Orders!Exists(id) =>
          /\ records'[id] # NoRecord
          /\ records'[id].tech_id = records[id].tech_id
          /\ records[id].evidence_hash # None => records'[id].evidence_hash # None]_chainVars

\* What the contracts store, read as the variables of CompliancePromise.
Parties ==
    [id \in Ids |-> [role \in Approvals!Seats |-> Approvals!Stored(id)[role]]]

Assents ==
    [id \in Ids |->
        {role \in Approvals!Seats :
            \/ role = "technician" /\ Approvals!Stored(id).tech_approved
            \/ role = "supervisor" /\ Approvals!Stored(id).supervisor_approved
            \/ role = "auditor" /\ Approvals!Stored(id).auditor_approved}]

Needs ==
    [id \in Ids |->
        Approvals!Seats \ (IF Approvals!Stored(id).auditor_required THEN {} ELSE {"auditor"})]

Words == [id \in Ids |-> IF Certified(id) THEN named[id].approval ELSE NoCert]

Promise == INSTANCE CompliancePromise WITH
    Vouchers <- OtherIds \union {ApprovalId}, Register <- ApprovalId, Nobody <- NoCert,
    party <- Parties, assent <- Assents, needed <- Needs, word <- Words

\* Refinement: whatever the three contracts do is a behaviour of the promise.  A
\* certificate on the word of the deployed approval contract is issued only while every
\* needed role assents, one on another contract's word whenever somebody asks; seats are
\* for good, and only a supervisor withdraws an assent.
KeepsPromise == Promise!Spec

=============================================================================
