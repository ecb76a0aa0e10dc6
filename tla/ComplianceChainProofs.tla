--------------------- MODULE ComplianceChainProofs ---------------------
(***************************************************************************)
(* Proofs about ComplianceChain, for every set of ids, users, evidence,    *)
(* certificate hashes and status updates.                                  *)
(***************************************************************************)
EXTENDS ComplianceChain, TLAPS

\* The state a call of MultiPartyApproval starts from is an approval state.
LEMMA StoredType ==
    ASSUME Approvals!TypeOK, NEW id \in Ids
    PROVE  Approvals!Stored(id) \in Approvals!ApprovalState
  BY DEF Approvals!TypeOK, Approvals!Stored, Approvals!Blank, Approvals!ApprovalState

\* What a call of MultiPartyApproval by somebody other than the supervisor stores.
LEMMA PartyCallStores ==
    ASSUME TypeOK, NEW id \in Ids, NEW caller \in Users, PartyCall(id, caller)
    PROVE  \E s \in Approvals!ApprovalState :
              /\ approval' = [approval EXCEPT ![id] = s]
              /\ Approvals!Stored(id).tech_approved => s.tech_approved
              /\ s.supervisor = Approvals!Stored(id).supervisor
              /\ s.supervisor_approved = Approvals!Stored(id).supervisor_approved
<1>. DEFINE t == Approvals!Stored(id)
<1>1. t \in Approvals!ApprovalState
  BY StoredType DEF TypeOK
<1>. HIDE DEF t
<1>. DEFINE Stores(s) == /\ s \in Approvals!ApprovalState
                         /\ approval' = [approval EXCEPT ![id] = s]
                         /\ t.tech_approved => s.tech_approved
                         /\ s.supervisor = t.supervisor
                         /\ s.supervisor_approved = t.supervisor_approved
<1>2. ASSUME NEW required \in BOOLEAN, Approvals!SetAuditorRequired(id, required, caller)
      PROVE  Stores([t EXCEPT !.technician = caller, !.auditor_required = required])
  BY <1>1, <1>2 DEF Approvals!SetAuditorRequired, Approvals!ApprovalState, t
<1>3. ASSUME Approvals!ApproveByTechnician(id, caller)
      PROVE  Stores([t EXCEPT !.technician = caller, !.tech_approved = TRUE])
  BY <1>1, <1>3 DEF Approvals!ApproveByTechnician, Approvals!ApprovalState, t
<1>4. ASSUME Approvals!ApproveByAuditor(id, caller)
      PROVE  Stores([t EXCEPT !.auditor = caller, !.auditor_approved = TRUE])
  BY <1>1, <1>4 DEF Approvals!ApproveByAuditor, Approvals!ApprovalState, t
<1>5. \E s : Stores(s)
  <2>. HIDE DEF Stores
  <2>. QED
    BY <1>2, <1>3, <1>4 DEF PartyCall
<1>. QED
  BY <1>5 DEF t

\* What the supervisor's calls store: the caller sits, the verdict is recorded.
LEMMA SupervisorCallStores ==
    ASSUME TypeOK, NEW id \in Ids, NEW caller \in Users, SupervisorCall(id, caller)
    PROVE  \E verdict \in BOOLEAN :
              /\ approval' = [approval EXCEPT ![id] =
                    [Approvals!Stored(id) EXCEPT !.supervisor = caller,
                                                 !.supervisor_approved = verdict]]
              /\ Approvals!MaySit(Approvals!Stored(id).supervisor, caller)
<1>. DEFINE Stores(verdict) ==
              /\ approval' = [approval EXCEPT ![id] =
                    [Approvals!Stored(id) EXCEPT !.supervisor = caller,
                                                 !.supervisor_approved = verdict]]
              /\ Approvals!MaySit(Approvals!Stored(id).supervisor, caller)
<1>1. ASSUME NEW byte \in {0, 1}, Approvals!ApproveBySupervisor(id, byte, caller)
      PROVE  Stores(byte = 1)
  BY <1>1 DEF Approvals!ApproveBySupervisor
<1>2. ASSUME Approvals!RejectBySupervisor(id, caller)
      PROVE  Stores(FALSE)
  BY <1>2 DEF Approvals!RejectBySupervisor
<1>3. \E verdict \in BOOLEAN : Stores(verdict)
  <2>. HIDE DEF Stores
  <2>. QED
    BY <1>1, <1>2 DEF SupervisorCall
<1>. QED
  BY <1>3

\* What a call of MaintenanceRecords stores: an order, whoever calls.
LEMMA OrderCallStores ==
    ASSUME TypeOK, NEW id \in Ids, NEW caller \in Users, OrderCall(id, caller)
    PROVE  \E order \in Orders!MaintenanceOrder :
              records' = [records EXCEPT ![id] = order]
<1>. USE DEF TypeOK, Orders!TypeOK, Orders!MaintenanceOrder, Orders!Exists, Orders!HasStatus
<1>1. ASSUME Orders!Exists(id) PROVE records[id] \in Orders!MaintenanceOrder
  BY <1>1
<1>2. CASE Orders!CreateRecord(id, caller)
  BY <1>2 DEF Orders!CreateRecord, Orders!Status
<1>3. ASSUME NEW evidence \in Evidence, Orders!SubmitEvidence(id, evidence, caller)
      PROVE  \E order \in Orders!MaintenanceOrder : records' = [records EXCEPT ![id] = order]
  <2>1. [records[id] EXCEPT !.evidence_hash = evidence, !.status = "Submitted"]
            \in Orders!MaintenanceOrder
    BY <1>1, <1>3 DEF Orders!SubmitEvidence, Orders!Status
  <2>2. records' = [records EXCEPT ![id] =
            [records[id] EXCEPT !.evidence_hash = evidence, !.status = "Submitted"]]
    BY <1>1, <1>3 DEF Orders!SubmitEvidence
  <2>. QED
    BY <2>1, <2>2
<1>4. ASSUME NEW status \in StatusUpdates, Orders!UpdateStatus(id, status)
      PROVE  \E order \in Orders!MaintenanceOrder : records' = [records EXCEPT ![id] = order]
  BY <1>1, <1>4, ChainAssumption DEF Orders!UpdateStatus
<1>5. CASE Orders!Complete(id, caller)
  BY <1>1, <1>5 DEF Orders!Complete, Orders!Status
<1>. QED
  BY <1>2, <1>3, <1>4, <1>5 DEF OrderCall

\* Issuing a certificate on the word of a, and completing the order in r: with the
\* deployed contracts verify holds and the order is completed, with others nothing is
\* known and our records stay as they are.
Issued(id, cert_hash, a, r) ==
    /\ a = ApprovalId => Approvals!Verified(id)
    /\ attestation' = [attestation EXCEPT ![id] = cert_hash]
    /\ named' = [named EXCEPT ![id] = [approval |-> a, records |-> r]]
    /\ UNCHANGED <<approval, completer>>
    /\ \/ /\ r = RecordsId /\ completer = Attestation /\ Orders!Exists(id)
          /\ \E order \in Orders!MaintenanceOrder : records' = [records EXCEPT ![id] = order]
       \/ r # RecordsId /\ UNCHANGED records

LEMMA CertificateStores ==
    ASSUME TypeOK, NEW id \in Ids, NEW cert_hash \in CertHashes,
           CertificateCall(id, cert_hash)
    PROVE  \E a \in OtherIds \union {ApprovalId}, r \in OtherIds \union {RecordsId} :
              Issued(id, cert_hash, a, r)
<1>1. PICK a \in OtherIds \union {ApprovalId}, r \in OtherIds \union {RecordsId} :
          IssueCertificate(a, r, id, cert_hash)
  BY DEF CertificateCall
<1>2. CASE r = RecordsId
  <2>1. /\ completer = Attestation /\ completer' = completer
        /\ records[id] \in Orders!MaintenanceOrder /\ records[id] # NoRecord
        /\ records' = [records EXCEPT ![id].status = "Compliant"]
    BY <1>1, <1>2 DEF IssueCertificate, CompleteAt, Orders!Complete, Orders!HasStatus,
                      Orders!Exists, TypeOK, Orders!TypeOK
  <2>2. [records[id] EXCEPT !.status = "Compliant"] \in Orders!MaintenanceOrder
    BY <2>1 DEF Orders!MaintenanceOrder, Orders!Status
  <2>. QED
    BY <1>1, <1>2, <2>1, <2>2 DEF IssueCertificate, VerifyAt, Issued, Orders!Exists
<1>3. CASE r # RecordsId
  BY <1>1, <1>3 DEF IssueCertificate, VerifyAt, CompleteAt, Issued
<1>. QED
  BY <1>2, <1>3

\* Every step keeps the types.
LEMMA StepsKeepTypes ==
    ASSUME TypeOK, [Next]_chainVars
    PROVE  TypeOK'
<1>1. ASSUME NEW id \in Ids, NEW caller \in Users, PartyCall(id, caller) PROVE TypeOK'
  BY <1>1, PartyCallStores DEF PartyCall, TypeOK, Approvals!TypeOK, Orders!TypeOK
<1>2. ASSUME NEW id \in Ids, NEW caller \in Users, SupervisorCall(id, caller)
      PROVE  TypeOK'
  <2>1. PICK verdict \in BOOLEAN : approval' = [approval EXCEPT ![id] =
            [Approvals!Stored(id) EXCEPT !.supervisor = caller,
                                         !.supervisor_approved = verdict]]
    BY <1>2, SupervisorCallStores
  <2>2. Approvals!Stored(id) \in Approvals!ApprovalState
    BY StoredType DEF TypeOK
  <2>3. [Approvals!Stored(id) EXCEPT !.supervisor = caller, !.supervisor_approved = verdict]
            \in Approvals!ApprovalState
    BY <2>2 DEF Approvals!ApprovalState
  <2>4. Approvals!TypeOK'
    BY <2>1, <2>3 DEF TypeOK, Approvals!TypeOK
  <2>. QED
    BY <1>2, <2>4 DEF SupervisorCall, TypeOK, Orders!TypeOK
<1>3. ASSUME NEW id \in Ids, NEW caller \in Users, OrderCall(id, caller) PROVE TypeOK'
  <2>1. completer' = completer
    BY <1>3 DEF OrderCall, Orders!CreateRecord, Orders!SubmitEvidence, Orders!UpdateStatus,
                Orders!Complete
  <2>. QED
    BY <1>3, <2>1, OrderCallStores DEF OrderCall, TypeOK, Approvals!TypeOK, Orders!TypeOK
<1>4. ASSUME NEW authorized \in Users \union {Attestation}, NEW caller \in Users,
             CompleterCall(authorized, caller)
      PROVE  TypeOK'
  BY <1>4 DEF CompleterCall, Orders!SetAuthorizedCompleter, TypeOK, Approvals!TypeOK,
              Orders!TypeOK
<1>5. ASSUME NEW id \in Ids, NEW cert_hash \in CertHashes, CertificateCall(id, cert_hash)
      PROVE  TypeOK'
  BY <1>5, CertificateStores DEF Issued, TypeOK, Approvals!TypeOK, Orders!TypeOK
<1>6. CASE UNCHANGED chainVars
  BY <1>6 DEF chainVars, TypeOK, Approvals!TypeOK, Orders!TypeOK
<1>. QED
  BY <1>1, <1>2, <1>3, <1>4, <1>5, <1>6 DEF Next

\* The three contracts' storage is well typed in every reachable state.
THEOREM TypeCorrect == Spec => []TypeOK
<1>1. Init => TypeOK
  BY DEF Init, TypeOK, Approvals!Init, Approvals!TypeOK, Orders!Init, Orders!TypeOK
<1>. QED
  BY <1>1, StepsKeepTypes, PTL DEF Spec

\* The post of completer, once the attestation contract's, never moves.
LEMMA CompleterStays ==
    ASSUME Next, completer = Attestation
    PROVE  completer' = Attestation
<1>1. ASSUME NEW authorized, NEW caller \in Users, CompleterCall(authorized, caller)
      PROVE  FALSE
  BY <1>1, ChainAssumption DEF CompleterCall, Orders!SetAuthorizedCompleter
<1>2. ASSUME NEW id \in Ids, NEW caller \in Users,
             PartyCall(id, caller) \/ SupervisorCall(id, caller) \/ OrderCall(id, caller)
      PROVE  completer' = completer
  BY <1>2 DEF PartyCall, SupervisorCall, OrderCall, Orders!CreateRecord,
              Orders!SubmitEvidence, Orders!UpdateStatus, Orders!Complete
<1>3. ASSUME NEW id \in Ids, NEW cert_hash \in CertHashes, CertificateCall(id, cert_hash)
      PROVE  completer' = completer
  BY <1>3 DEF CertificateCall, IssueCertificate, CompleteAt, Orders!Complete
<1>. QED
  BY <1>1, <1>2, <1>3 DEF Next

\* The completer is final once it is the attestation contract.
THEOREM CompleterFinal == Spec => CompleterIsFinal
<1>1. [Next]_chainVars => [completer = Attestation => completer' = Attestation]_chainVars
  BY CompleterStays
<1>. QED
  BY <1>1, PTL DEF Spec, CompleterIsFinal

\* Every call leaves the technician and the existence of evidence of each order.
THEOREM OrdersKept == Spec => OrdersAreKept
<1>. DEFINE Kept == \A id \in Ids : Orders!Exists(id) =>
          /\ records'[id] # NoRecord
          /\ records'[id].tech_id = records[id].tech_id
          /\ records[id].evidence_hash # None => records'[id].evidence_hash # None
<1>1. ASSUME TypeOK, Next PROVE Kept
  <2>1. SUFFICES ASSUME NEW i \in Ids, Orders!Exists(i)
                 PROVE  /\ records'[i] # NoRecord
                        /\ records'[i].tech_id = records[i].tech_id
                        /\ records[i].evidence_hash # None => records'[i].evidence_hash # None
    OBVIOUS
  <2>2. /\ records \in [Ids -> Orders!MaintenanceOrder \union {NoRecord}]
        /\ records[i] \in Orders!MaintenanceOrder
    BY <1>1, <2>1 DEF TypeOK, Orders!TypeOK, Orders!Exists
  <2>3. records'[i] # NoRecord
    <3>1. records' \in [Ids -> Orders!MaintenanceOrder \union {NoRecord}]
      BY <1>1, StepsKeepTypes DEF TypeOK, Orders!TypeOK
    <3>2. ASSUME records' = records PROVE records'[i] # NoRecord
      BY <2>1, <3>2 DEF Orders!Exists
    <3>3. ASSUME NEW id \in Ids, NEW order \in Orders!MaintenanceOrder,
                 records' = [records EXCEPT ![id] = order]
          PROVE  records'[i] # NoRecord
      BY <2>1, <2>2, <3>3, ChainAssumption DEF Orders!Exists
    <3>4. ASSUME NEW id \in Ids, NEW caller \in Users, OrderCall(id, caller)
          PROVE  records'[i] # NoRecord
      BY <1>1, <3>3, <3>4, OrderCallStores
    <3>5. ASSUME NEW id \in Ids, NEW cert_hash \in CertHashes, CertificateCall(id, cert_hash)
          PROVE  records'[i] # NoRecord
      BY <1>1, <3>2, <3>3, <3>5, CertificateStores DEF Issued
    <3>. QED
      BY <1>1, <3>2, <3>4, <3>5
         DEF Next, PartyCall, SupervisorCall, CompleterCall, Orders!SetAuthorizedCompleter
  <2>4. /\ records'[i].tech_id = records[i].tech_id
        /\ records[i].evidence_hash # None => records'[i].evidence_hash # None
    <3>. DEFINE Same == /\ records'[i].tech_id = records[i].tech_id
                        /\ records[i].evidence_hash # None => records'[i].evidence_hash # None
    <3>. USE <2>1, <2>2 DEF Orders!Exists, Orders!MaintenanceOrder
    <3>1. ASSUME NEW id \in Ids, NEW caller \in Users, Orders!CreateRecord(id, caller)
          PROVE  Same
      BY <3>1 DEF Orders!CreateRecord
    <3>2. ASSUME NEW id \in Ids, NEW caller \in Users, NEW evidence \in Evidence,
                 Orders!SubmitEvidence(id, evidence, caller)
          PROVE  Same
      BY <3>2, ChainAssumption DEF Orders!SubmitEvidence
    <3>3. ASSUME NEW id \in Ids, NEW status, Orders!UpdateStatus(id, status) PROVE Same
      BY <3>3 DEF Orders!UpdateStatus
    <3>4. ASSUME NEW id \in Ids, NEW caller, Orders!Complete(id, caller) PROVE Same
      BY <3>4 DEF Orders!Complete
    <3>5. ASSUME NEW id \in Ids, NEW caller \in Users, OrderCall(id, caller) PROVE Same
      BY <3>1, <3>2, <3>3, <3>4, <3>5 DEF OrderCall
    <3>6. ASSUME records' = records PROVE Same
      BY <3>6
    <3>7. ASSUME NEW id \in Ids, NEW cert_hash \in CertHashes, CertificateCall(id, cert_hash)
          PROVE  Same
      BY <3>4, <3>6, <3>7 DEF CertificateCall, IssueCertificate, CompleteAt
    <3>. QED
      BY <1>1, <3>5, <3>6, <3>7
         DEF Next, PartyCall, SupervisorCall, CompleterCall, Orders!SetAuthorizedCompleter
  <2>. QED
    BY <2>3, <2>4
<1>2. TypeOK /\ [Next]_chainVars => [Kept]_chainVars
  BY <1>1
<1>. QED
  BY <1>2, TypeCorrect, PTL DEF Spec, OrdersAreKept

\* The strengthening CertificatesAreBacked needs: a supervisor's approval has a
\* supervisor, one part of ApprovalsHaveHolders.
SupervisorsAreKnown ==
    \A id \in Ids : approval[id] # NoState /\ approval[id].supervisor_approved
                        => approval[id].supervisor # None

ChainInv == TypeOK /\ SupervisorsAreKnown /\ CertificatesAreBacked

\* The approval contract's calls name the supervisor with the approval.
LEMMA StepsKeepSupervisors ==
    ASSUME TypeOK, SupervisorsAreKnown, [Next]_chainVars
    PROVE  SupervisorsAreKnown'
<1>1. ASSUME NEW id \in Ids, NEW caller \in Users, PartyCall(id, caller)
      PROVE  SupervisorsAreKnown'
  <2>1. PICK s \in Approvals!ApprovalState :
              /\ approval' = [approval EXCEPT ![id] = s]
              /\ s.supervisor = Approvals!Stored(id).supervisor
              /\ s.supervisor_approved = Approvals!Stored(id).supervisor_approved
    BY <1>1, PartyCallStores
  <2>2. Approvals!Stored(id).supervisor_approved => Approvals!Stored(id).supervisor # None
    BY DEF SupervisorsAreKnown, Approvals!Stored, Approvals!Blank
  <2>3. s.supervisor_approved => s.supervisor # None
    BY <2>1, <2>2
  <2>. QED
    BY <2>1, <2>3 DEF SupervisorsAreKnown, TypeOK, Approvals!TypeOK
<1>2. ASSUME NEW id \in Ids, NEW caller \in Users, SupervisorCall(id, caller)
      PROVE  SupervisorsAreKnown'
  <2>1. PICK verdict \in BOOLEAN : approval' = [approval EXCEPT ![id] =
            [Approvals!Stored(id) EXCEPT !.supervisor = caller,
                                         !.supervisor_approved = verdict]]
    BY <1>2, SupervisorCallStores
  <2>2. Approvals!Stored(id) \in Approvals!ApprovalState
    BY StoredType DEF TypeOK
  <2>3. approval'[id].supervisor = caller
    BY <2>1, <2>2 DEF TypeOK, Approvals!TypeOK, Approvals!ApprovalState
  <2>. QED
    BY <2>1, <2>3, ChainAssumption DEF SupervisorsAreKnown, TypeOK, Approvals!TypeOK
<1>3. ASSUME UNCHANGED approval PROVE SupervisorsAreKnown'
  BY <1>3 DEF SupervisorsAreKnown
<1>. QED
  BY <1>1, <1>2, <1>3 DEF Next, OrderCall, CompleterCall, CertificateCall, IssueCertificate, chainVars

\* Calls of the approval contract leave certificates alone, and what they rest on.
LEMMA ApprovalsKeepBacking ==
    ASSUME TypeOK, CertificatesAreBacked, NEW id \in Ids, NEW s \in Approvals!ApprovalState,
           approval' = [approval EXCEPT ![id] = s],
           Approvals!Stored(id).tech_approved => s.tech_approved,
           Approvals!Stored(id).supervisor # None => s.supervisor # None,
           UNCHANGED <<records, completer, attestation, named>>
    PROVE  CertificatesAreBacked'
<1>1. s # NoState
  BY ChainAssumption
<1>. QED
  BY <1>1 DEF CertificatesAreBacked, RestsOn, CompletedAt, Certified, Orders!Exists,
              Approvals!Stored, TypeOK, Approvals!TypeOK

\* Nobody but issue_certificate can put a certificate in place, and every other call
\* keeps what a certificate rests on.
LEMMA StepsKeepBacking ==
    ASSUME ChainInv, [Next]_chainVars
    PROVE  CertificatesAreBacked'
<1>. USE DEF ChainInv
<1>1. ASSUME Next, completer = Attestation PROVE completer' = Attestation
  BY <1>1, CompleterStays
<1>2. ASSUME NEW id \in Ids, NEW caller \in Users, PartyCall(id, caller)
      PROVE  CertificatesAreBacked'
  BY <1>2, PartyCallStores, ApprovalsKeepBacking DEF PartyCall
<1>3. ASSUME NEW id \in Ids, NEW caller \in Users, SupervisorCall(id, caller)
      PROVE  CertificatesAreBacked'
  <2>1. PICK verdict \in BOOLEAN : approval' = [approval EXCEPT ![id] =
            [Approvals!Stored(id) EXCEPT !.supervisor = caller,
                                         !.supervisor_approved = verdict]]
    BY <1>3, SupervisorCallStores
  <2>. DEFINE s == [Approvals!Stored(id) EXCEPT !.supervisor = caller,
                                                !.supervisor_approved = verdict]
  <2>2. Approvals!Stored(id) \in Approvals!ApprovalState
    BY StoredType DEF TypeOK
  <2>3. /\ s \in Approvals!ApprovalState /\ s.supervisor # None
        /\ s.tech_approved = Approvals!Stored(id).tech_approved
    BY <2>2, ChainAssumption DEF Approvals!ApprovalState
  <2>4. approval' = [approval EXCEPT ![id] = s]
    BY <2>1
  <2>. HIDE DEF s
  <2>. QED
    BY <1>3, <2>3, <2>4, ApprovalsKeepBacking DEF SupervisorCall
<1>4. ASSUME NEW id \in Ids, NEW caller \in Users, OrderCall(id, caller)
      PROVE  CertificatesAreBacked'
  <2>1. PICK order \in Orders!MaintenanceOrder : records' = [records EXCEPT ![id] = order]
    BY <1>4, OrderCallStores
  <2>2. order # NoRecord
    BY ChainAssumption
  <2>3. Next
    BY <1>4 DEF Next
  <2>. QED
    BY <1>1, <1>4, <2>1, <2>2, <2>3
       DEF OrderCall, CertificatesAreBacked, RestsOn, CompletedAt, Certified,
           Orders!Exists, TypeOK, Orders!TypeOK
<1>5. ASSUME NEW authorized \in Users \union {Attestation}, NEW caller \in Users,
             CompleterCall(authorized, caller)
      PROVE  CertificatesAreBacked'
  <2>1. Next
    BY <1>5 DEF Next
  <2>. QED
    BY <1>1, <1>5, <2>1
       DEF CompleterCall, Orders!SetAuthorizedCompleter, CertificatesAreBacked, RestsOn,
           CompletedAt, Certified, Orders!Exists
<1>6. ASSUME NEW id \in Ids, NEW cert_hash \in CertHashes, CertificateCall(id, cert_hash)
      PROVE  CertificatesAreBacked'
  <2>1. PICK a \in OtherIds \union {ApprovalId}, r \in OtherIds \union {RecordsId} :
            Issued(id, cert_hash, a, r)
    BY <1>6, CertificateStores
  <2>2. a = ApprovalId => /\ approval[id] # NoState
                          /\ approval[id].tech_approved
                          /\ approval[id].supervisor # None
    BY <2>1 DEF Issued, Approvals!Verified, SupervisorsAreKnown
  <2>3. ASSUME NEW i \in Ids, RestsOn(i, ApprovalId)'
        PROVE  /\ approval'[i] # NoState
               /\ approval'[i].tech_approved
               /\ approval'[i].supervisor # None
    <3>1. CASE i = id
      BY <2>1, <2>2, <2>3, <3>1 DEF Issued, RestsOn, TypeOK
    <3>2. CASE i # id
      BY <2>1, <2>3, <3>2 DEF Issued, RestsOn, Certified, CertificatesAreBacked, TypeOK
    <3>. QED
      BY <3>1, <3>2
  <2>4. ASSUME NEW i \in Ids, CompletedAt(i, RecordsId)'
        PROVE  Orders!Exists(i)' /\ completer' = Attestation
    <3>1. completer' = completer
      BY <2>1 DEF Issued
    <3>2. CASE i = id
      BY <2>1, <2>4, <3>1, <3>2, ChainAssumption
         DEF Issued, CompletedAt, Orders!Exists, TypeOK, Orders!TypeOK
    <3>3. CASE i # id
      <4>1. Orders!Exists(i) /\ completer = Attestation
        BY <2>1, <2>4, <3>3 DEF Issued, CompletedAt, Certified, CertificatesAreBacked, TypeOK
      <4>2. records'[i] = records[i]
        BY <2>1, <3>3 DEF Issued, TypeOK, Orders!TypeOK
      <4>. QED
        BY <3>1, <4>1, <4>2 DEF Orders!Exists
    <3>. QED
      BY <3>2, <3>3
  <2>. QED
    BY <2>3, <2>4 DEF CertificatesAreBacked
<1>7. CASE UNCHANGED chainVars
  BY <1>7 DEF chainVars, CertificatesAreBacked, RestsOn, CompletedAt, Certified, Orders!Exists
<1>. QED
  BY <1>2, <1>3, <1>4, <1>5, <1>6, <1>7 DEF Next

\* In every reachable state a certificate is backed by each deployed contract its
\* caller named, whatever contracts callers name for other certificates.
THEOREM CertificatesBacked == Spec => []CertificatesAreBacked
<1>1. Init => ChainInv
  BY DEF Init, ChainInv, TypeOK, SupervisorsAreKnown, CertificatesAreBacked, RestsOn,
         CompletedAt, Certified, Approvals!Init, Approvals!TypeOK, Orders!Init, Orders!TypeOK
<1>2. ChainInv /\ [Next]_chainVars => ChainInv'
  BY StepsKeepTypes, StepsKeepSupervisors, StepsKeepBacking DEF ChainInv
<1>3. ChainInv => CertificatesAreBacked
  BY DEF ChainInv
<1>. QED
  BY <1>1, <1>2, <1>3, PTL DEF Spec

\* While nobody asks update_status for Compliant, an order of a deployment whose
\* completer is the attestation contract becomes compliant only by a certificate; if
\* that rests on the deployed approval contract, verify holds.
THEOREM ComplianceCertified ==
    ASSUME "Compliant" \notin StatusUpdates
    PROVE  Spec => ComplianceIsCertified
<1>. DEFINE Step == \A id \in Ids :
          completer = Attestation /\ ~Orders!HasStatus(id, "Compliant")
             /\ Orders!HasStatus(id, "Compliant")'
          => /\ CompletedAt(id, RecordsId)'
             /\ RestsOn(id, ApprovalId)' => Approvals!Verified(id)
             /\ approval' = approval
<1>1. ASSUME TypeOK, Next PROVE Step
  <2>1. SUFFICES ASSUME NEW i \in Ids, completer = Attestation,
                        ~Orders!HasStatus(i, "Compliant"), Orders!HasStatus(i, "Compliant")'
                 PROVE  /\ CompletedAt(i, RecordsId)'
                        /\ RestsOn(i, ApprovalId)' => Approvals!Verified(i)
                        /\ approval' = approval
    OBVIOUS
  <2>2. ASSUME NEW id \in Ids, NEW caller \in Users,
               PartyCall(id, caller) \/ SupervisorCall(id, caller)
        PROVE  FALSE
    BY <2>1, <2>2 DEF PartyCall, SupervisorCall, Orders!HasStatus, Orders!Exists
  <2>3. ASSUME NEW id \in Ids, NEW caller \in Users, OrderCall(id, caller)
        PROVE  FALSE
    <3>. USE <1>1, <2>1 DEF TypeOK, Orders!TypeOK, Orders!HasStatus, Orders!Exists,
                            Orders!MaintenanceOrder
    <3>1. CASE Orders!CreateRecord(id, caller)
      BY <3>1 DEF Orders!CreateRecord
    <3>2. ASSUME NEW evidence \in Evidence, Orders!SubmitEvidence(id, evidence, caller)
          PROVE  FALSE
      BY <3>2 DEF Orders!SubmitEvidence
    <3>3. ASSUME NEW status \in StatusUpdates, Orders!UpdateStatus(id, status)
          PROVE  FALSE
      BY <3>3 DEF Orders!UpdateStatus
    <3>4. CASE Orders!Complete(id, caller)
      BY <3>4, ChainAssumption DEF Orders!Complete
    <3>. QED
      BY <2>3, <3>1, <3>2, <3>3, <3>4 DEF OrderCall
  <2>4. ASSUME NEW authorized, NEW caller \in Users, CompleterCall(authorized, caller)
        PROVE  FALSE
    BY <2>1, <2>4, ChainAssumption DEF CompleterCall, Orders!SetAuthorizedCompleter
  <2>5. ASSUME NEW id \in Ids, NEW cert_hash \in CertHashes, CertificateCall(id, cert_hash)
        PROVE  /\ CompletedAt(i, RecordsId)'
               /\ RestsOn(i, ApprovalId)' => Approvals!Verified(i)
               /\ approval' = approval
    <3>1. PICK a \in OtherIds \union {ApprovalId}, r \in OtherIds \union {RecordsId} :
              Issued(id, cert_hash, a, r)
      BY <1>1, <2>5, CertificateStores
    <3>2. i = id /\ r = RecordsId
      BY <1>1, <2>1, <3>1 DEF Issued, Orders!HasStatus, Orders!Exists, TypeOK, Orders!TypeOK
    <3>. QED
      BY <1>1, <3>1, <3>2, ChainAssumption
         DEF Issued, CompletedAt, RestsOn, Certified, TypeOK
  <2>. QED
    BY <1>1, <2>2, <2>3, <2>4, <2>5 DEF Next
<1>2. TypeOK /\ [Next]_chainVars => [Step]_chainVars
  BY <1>1
<1>. QED
  BY <1>2, TypeCorrect, PTL DEF Spec, ComplianceIsCertified

-----------------------------------------------------------------------------
(* The refinement: one lemma for each call, then every step of the chain.    *)

\* A call replaces the approval state of one id.
LEMMA StoredAfter ==
    ASSUME TypeOK, NEW id \in Ids, NEW s \in Approvals!ApprovalState,
           approval' = [approval EXCEPT ![id] = s]
    PROVE  \A i \in Ids : Approvals!Stored(i)' = IF i = id THEN s ELSE Approvals!Stored(i)
  BY ChainAssumption DEF TypeOK, Approvals!TypeOK, Approvals!Stored

\* A call whose caller sits in one seat, the others as before, is a Seat step.
LEMMA SeatTaken ==
    ASSUME TypeOK, NEW id \in Ids, NEW s \in Approvals!ApprovalState,
           approval' = [approval EXCEPT ![id] = s],
           NEW caller \in Users, NEW seat \in Approvals!Seats,
           Approvals!MaySit(Approvals!Stored(id)[seat], caller), s[seat] = caller,
           \A other \in Approvals!Seats \ {seat} : s[other] = Approvals!Stored(id)[other]
    PROVE  Promise!Seat(id, seat, caller)
<1>1. Parties[id][seat] \in {None, caller}
  BY DEF Parties, Approvals!MaySit
<1>2. ASSUME NEW i \in Ids
      PROVE  Parties'[i] = [Parties EXCEPT ![id][seat] = caller][i]
  BY StoredAfter DEF Parties
<1>3. Parties' = [Parties EXCEPT ![id][seat] = caller]
  BY <1>2 DEF Parties
<1>. QED
  BY <1>1, <1>3 DEF Promise!Seat

\* Assents and needs are read from the approval state of the id alone.
LEMMA MapAfter ==
    ASSUME TypeOK, NEW id \in Ids, NEW s \in Approvals!ApprovalState,
           approval' = [approval EXCEPT ![id] = s]
    PROVE  /\ Assents' = [Assents EXCEPT ![id] =
                {role \in Approvals!Seats :
                    \/ role = "technician" /\ s.tech_approved
                    \/ role = "supervisor" /\ s.supervisor_approved
                    \/ role = "auditor" /\ s.auditor_approved}]
           /\ Needs' = [Needs EXCEPT ![id] =
                Approvals!Seats \ (IF s.auditor_required THEN {} ELSE {"auditor"})]
  BY StoredAfter DEF Assents, Needs

\* What MapAfter computes, in the words of the promise: one role's assent given.
LEMMA AssentGiven ==
    ASSUME TypeOK, NEW id \in Ids, NEW caller \in Users, NEW role \in Approvals!Seats,
           Promise!Seat(id, role, caller),
           Assents' = [Assents EXCEPT ![id] = Assents[id] \union {role}],
           Needs' = Needs, UNCHANGED <<attestation, named>>
    PROVE  Promise!Next
<1>1. Promise!Assent(id, role, caller)
  BY DEF Promise!Assent, Words, Certified
<1>. QED
  BY <1>1 DEF Promise!Next, Promise!Roles, Approvals!Seats

LEMMA AssentTaken ==
    ASSUME TypeOK, NEW id \in Ids, NEW caller \in Users,
           Promise!Seat(id, "supervisor", caller),
           Assents' = [Assents EXCEPT ![id] = Assents[id] \ {"supervisor"}],
           Needs' = Needs, UNCHANGED <<attestation, named>>
    PROVE  Promise!Next
<1>1. Promise!Dissent(id, caller)
  BY DEF Promise!Dissent, Words, Certified
<1>. QED
  BY <1>1 DEF Promise!Next

\* The needs of an id change only with auditor_required.
LEMMA NeedsStay ==
    ASSUME TypeOK, NEW id \in Ids, NEW s \in Approvals!ApprovalState,
           approval' = [approval EXCEPT ![id] = s],
           s.auditor_required = Approvals!Stored(id).auditor_required
    PROVE  Needs' = Needs
<1>1. ASSUME NEW i \in Ids
      PROVE  Needs'[i] = Needs[i]
  BY StoredAfter DEF Needs
<1>. QED
  BY <1>1 DEF Needs

\* approve_by_technician is an assent in the technician's role.
LEMMA TechnicianAssents ==
    ASSUME TypeOK, NEW id \in Ids, NEW caller \in Users,
           Approvals!ApproveByTechnician(id, caller), UNCHANGED <<attestation, named>>
    PROVE  Promise!Next
<1>. DEFINE t == Approvals!Stored(id)
            s == [t EXCEPT !.technician = caller, !.tech_approved = TRUE]
<1>1. t \in Approvals!ApprovalState
  BY StoredType DEF TypeOK
<1>. HIDE DEF t
<1>2. /\ s \in Approvals!ApprovalState
      /\ s.technician = caller
      /\ s.auditor_required = t.auditor_required
      /\ \A other \in Approvals!Seats \ {"technician"} : s[other] = t[other]
  BY <1>1 DEF Approvals!ApprovalState, Approvals!Seats
<1>3. /\ s.tech_approved /\ s.supervisor_approved = t.supervisor_approved
      /\ s.auditor_approved = t.auditor_approved
  BY <1>1 DEF Approvals!ApprovalState
<1>4. approval' = [approval EXCEPT ![id] = s] /\ Approvals!MaySit(t["technician"], caller)
  BY DEF Approvals!ApproveByTechnician, t
<1>. HIDE DEF s
<1>5. Promise!Seat(id, "technician", caller)
  BY <1>2, <1>4, SeatTaken DEF Approvals!Seats, t
<1>6. Needs' = Needs
  BY <1>2, <1>4, NeedsStay DEF t
<1>7. Assents' = [Assents EXCEPT ![id] = Assents[id] \union {"technician"}]
  <2>1. ASSUME NEW i \in Ids
        PROVE  Assents'[i] = [Assents EXCEPT ![id] = Assents[id] \union {"technician"}][i]
    BY <1>2, <1>3, <1>4, StoredAfter DEF Assents, Approvals!Seats, t
  <2>. QED
    BY <2>1 DEF Assents
<1>. QED
  BY <1>5, <1>6, <1>7, AssentGiven DEF Approvals!Seats

\* approve_by_auditor is an assent in the auditor's role.
LEMMA AuditorAssents ==
    ASSUME TypeOK, NEW id \in Ids, NEW caller \in Users,
           Approvals!ApproveByAuditor(id, caller), UNCHANGED <<attestation, named>>
    PROVE  Promise!Next
<1>. DEFINE t == Approvals!Stored(id)
            s == [t EXCEPT !.auditor = caller, !.auditor_approved = TRUE]
<1>1. t \in Approvals!ApprovalState
  BY StoredType DEF TypeOK
<1>. HIDE DEF t
<1>2. /\ s \in Approvals!ApprovalState
      /\ s.auditor = caller
      /\ s.auditor_required = t.auditor_required
      /\ \A other \in Approvals!Seats \ {"auditor"} : s[other] = t[other]
  BY <1>1 DEF Approvals!ApprovalState, Approvals!Seats
<1>3. /\ s.auditor_approved /\ s.supervisor_approved = t.supervisor_approved
      /\ s.tech_approved = t.tech_approved
  BY <1>1 DEF Approvals!ApprovalState
<1>4. approval' = [approval EXCEPT ![id] = s] /\ Approvals!MaySit(t["auditor"], caller)
  BY DEF Approvals!ApproveByAuditor, t
<1>. HIDE DEF s
<1>5. Promise!Seat(id, "auditor", caller)
  BY <1>2, <1>4, SeatTaken DEF Approvals!Seats, t
<1>6. Needs' = Needs
  BY <1>2, <1>4, NeedsStay DEF t
<1>7. Assents' = [Assents EXCEPT ![id] = Assents[id] \union {"auditor"}]
  <2>1. ASSUME NEW i \in Ids
        PROVE  Assents'[i] = [Assents EXCEPT ![id] = Assents[id] \union {"auditor"}][i]
    BY <1>2, <1>3, <1>4, StoredAfter DEF Assents, Approvals!Seats, t
  <2>. QED
    BY <2>1 DEF Assents
<1>. QED
  BY <1>5, <1>6, <1>7, AssentGiven DEF Approvals!Seats

\* A decision of the supervisor is an assent or a dissent.
LEMMA SupervisorDecides ==
    ASSUME TypeOK, NEW id \in Ids, NEW caller \in Users, SupervisorCall(id, caller)
    PROVE  Promise!Next
<1>. DEFINE t == Approvals!Stored(id)
<1>1. PICK verdict \in BOOLEAN :
          approval' = [approval EXCEPT ![id] =
              [t EXCEPT !.supervisor = caller, !.supervisor_approved = verdict]]
  BY SupervisorCallStores
<1>. DEFINE s == [t EXCEPT !.supervisor = caller, !.supervisor_approved = verdict]
<1>2. t \in Approvals!ApprovalState
  BY StoredType DEF TypeOK
<1>3. Approvals!MaySit(t["supervisor"], caller) /\ UNCHANGED <<attestation, named>>
  BY DEF SupervisorCall, Approvals!ApproveBySupervisor, Approvals!RejectBySupervisor
<1>. HIDE DEF t
<1>4. /\ s \in Approvals!ApprovalState
      /\ s.supervisor = caller
      /\ s.auditor_required = t.auditor_required
      /\ \A other \in Approvals!Seats \ {"supervisor"} : s[other] = t[other]
  BY <1>2 DEF Approvals!ApprovalState, Approvals!Seats
<1>5. s.tech_approved = t.tech_approved /\ s.auditor_approved = t.auditor_approved
  BY <1>2 DEF Approvals!ApprovalState
<1>6. s.supervisor_approved = verdict
  BY <1>2 DEF Approvals!ApprovalState
<1>7. approval' = [approval EXCEPT ![id] = s]
  BY <1>1
<1>. HIDE DEF s
<1>8. Promise!Seat(id, "supervisor", caller)
  BY <1>3, <1>4, <1>7, SeatTaken DEF Approvals!Seats, t
<1>9. Needs' = Needs
  BY <1>4, <1>7, NeedsStay DEF t
<1>10. CASE verdict = TRUE
  <2>0. s.supervisor_approved
    BY <1>6, <1>10
  <2>1. ASSUME NEW i \in Ids
        PROVE  Assents'[i] = [Assents EXCEPT ![id] = Assents[id] \union {"supervisor"}][i]
    BY <1>4, <1>5, <2>0, <1>7, StoredAfter DEF Assents, Approvals!Seats, t
  <2>2. Assents' = [Assents EXCEPT ![id] = Assents[id] \union {"supervisor"}]
    BY <2>1 DEF Assents
  <2>. QED
    BY <1>3, <1>8, <1>9, <2>2, AssentGiven DEF Approvals!Seats
<1>11. CASE verdict = FALSE
  <2>0. ~s.supervisor_approved
    BY <1>6, <1>11
  <2>1. ASSUME NEW i \in Ids
        PROVE  Assents'[i] = [Assents EXCEPT ![id] = Assents[id] \ {"supervisor"}][i]
    BY <1>4, <1>5, <2>0, <1>7, StoredAfter DEF Assents, Approvals!Seats, t
  <2>2. Assents' = [Assents EXCEPT ![id] = Assents[id] \ {"supervisor"}]
    BY <2>1 DEF Assents
  <2>. QED
    BY <1>3, <1>8, <1>9, <2>2, AssentTaken
<1>. QED
  BY <1>10, <1>11

\* set_auditor_required says which roles are needed.
LEMMA TechnicianRequires ==
    ASSUME TypeOK, NEW id \in Ids, NEW caller \in Users, NEW required \in BOOLEAN,
           Approvals!SetAuditorRequired(id, required, caller), UNCHANGED <<attestation, named>>
    PROVE  Promise!Next
<1>. DEFINE t == Approvals!Stored(id)
            s == [t EXCEPT !.technician = caller, !.auditor_required = required]
            roles == Approvals!Seats \ (IF required THEN {} ELSE {"auditor"})
<1>1. t \in Approvals!ApprovalState
  BY StoredType DEF TypeOK
<1>. HIDE DEF t
<1>2. /\ s \in Approvals!ApprovalState
      /\ s.technician = caller
      /\ \A other \in Approvals!Seats \ {"technician"} : s[other] = t[other]
  BY <1>1 DEF Approvals!ApprovalState, Approvals!Seats
<1>3. /\ s.tech_approved = t.tech_approved
      /\ s.supervisor_approved = t.supervisor_approved
      /\ s.auditor_approved = t.auditor_approved
  BY <1>1 DEF Approvals!ApprovalState
<1>4. s.auditor_required = required
  BY <1>1 DEF Approvals!ApprovalState
<1>5. approval' = [approval EXCEPT ![id] = s] /\ Approvals!MaySit(t["technician"], caller)
  BY DEF Approvals!SetAuditorRequired, t
<1>. HIDE DEF s
<1>6. Promise!Seat(id, "technician", caller)
  BY <1>2, <1>5, SeatTaken DEF Approvals!Seats, t
<1>7. Needs' = [Needs EXCEPT ![id] = roles]
  BY <1>2, <1>4, <1>5, MapAfter
<1>8. Assents' = Assents
  <2>1. ASSUME NEW i \in Ids
        PROVE  Assents'[i] = Assents[i]
    BY <1>2, <1>3, <1>5, StoredAfter DEF Assents, Approvals!Seats, t
  <2>. QED
    BY <2>1 DEF Assents
<1>9. Promise!Require(id, roles, caller)
  BY <1>6, <1>7, <1>8 DEF Promise!Require, Words, Certified
<1>10. roles \in {Promise!AlwaysNeeded, Promise!Roles}
  BY DEF Promise!AlwaysNeeded, Promise!Roles, Approvals!Seats
<1>. HIDE DEF roles
<1>. QED
  BY <1>9, <1>10 DEF Promise!Next

\* verify asks for exactly the assents that are needed.
LEMMA VerifiedMeansAssent ==
    ASSUME TypeOK, NEW id \in Ids, Approvals!Verified(id)
    PROVE  Needs[id] \subseteq Assents[id]
  BY DEF TypeOK, Approvals!TypeOK, Approvals!Verified, Approvals!Stored, Approvals!Seats,
         Needs, Assents

\* The mapped variables are read from approval and attestation alone.
LEMMA MapFrame ==
    ASSUME UNCHANGED approval
    PROVE  UNCHANGED <<Parties, Assents, Needs>>
  BY DEF Parties, Assents, Needs, Approvals!Stored

\* A certificate is one on the word of the contract its caller named.
LEMMA IssueCertifies ==
    ASSUME TypeOK, NEW id \in Ids, NEW cert_hash \in CertHashes,
           CertificateCall(id, cert_hash)
    PROVE  Promise!Next
<1>1. PICK a \in OtherIds \union {ApprovalId}, r \in OtherIds \union {RecordsId} :
          Issued(id, cert_hash, a, r)
  BY CertificateStores
<1>2. UNCHANGED <<Parties, Assents, Needs>>
  BY <1>1, MapFrame DEF Issued
<1>3. Words' = [Words EXCEPT ![id] = a]
  <2>1. ASSUME NEW i \in Ids PROVE Words'[i] = [Words EXCEPT ![id] = a][i]
    BY <1>1, ChainAssumption DEF Issued, Words, Certified, TypeOK
  <2>. QED
    BY <2>1 DEF Words
<1>4. Promise!Certify(id, a)
  BY <1>1, <1>2, <1>3, VerifiedMeansAssent DEF Promise!Certify, Issued
<1>. QED
  BY <1>4 DEF Promise!Next

LEMMA InitMaps ==
    ASSUME Init
    PROVE  Promise!Init
<1>1. \A id \in Ids : Approvals!Stored(id) = Approvals!Blank
  BY DEF Init, Approvals!Init, Approvals!Stored
<1>2. Parties = [id \in Ids |-> [role \in Promise!Roles |-> None]]
  BY <1>1 DEF Parties, Approvals!Seats, Promise!Roles, Approvals!Blank
<1>3. Assents = [id \in Ids |-> {}]
  BY <1>1 DEF Assents, Approvals!Seats, Approvals!Blank
<1>4. Needs = [id \in Ids |-> Promise!AlwaysNeeded]
  BY <1>1 DEF Needs, Approvals!Seats, Promise!AlwaysNeeded, Approvals!Blank
<1>5. Words = [id \in Ids |-> NoCert]
  BY DEF Init, Words, Certified
<1>. QED
  BY <1>2, <1>3, <1>4, <1>5 DEF Promise!Init

LEMMA StepsMap ==
    ASSUME TypeOK, [Next]_chainVars
    PROVE  [Promise!Next]_(Promise!promiseVars)
<1>1. ASSUME NEW id \in Ids, NEW caller \in Users, PartyCall(id, caller)
      PROVE  Promise!Next
  BY <1>1, TechnicianRequires, TechnicianAssents, AuditorAssents DEF PartyCall
<1>2. ASSUME NEW id \in Ids, NEW caller \in Users, SupervisorCall(id, caller)
      PROVE  Promise!Next
  BY <1>2, SupervisorDecides
<1>3. ASSUME UNCHANGED <<approval, attestation, named>>
      PROVE  UNCHANGED Promise!promiseVars
  BY <1>3, MapFrame DEF Promise!promiseVars, Words, Certified
<1>4. ASSUME NEW id \in Ids, NEW cert_hash \in CertHashes, CertificateCall(id, cert_hash)
      PROVE  Promise!Next
  BY <1>4, IssueCertifies
<1>. QED
  BY <1>1, <1>2, <1>3, <1>4 DEF Next, OrderCall, CompleterCall, chainVars

\* Refinement, for any number of ids, users and certificates: every behaviour of
\* the three contracts is a behaviour of CompliancePromise.
THEOREM ChainKeepsPromise == Spec => KeepsPromise
<1>1. Init => Promise!Init
  BY InitMaps
<1>2. TypeOK /\ [Next]_chainVars => [Promise!Next]_(Promise!promiseVars)
  BY StepsMap
<1>. QED
  BY <1>1, <1>2, TypeCorrect, PTL DEF Spec, KeepsPromise, Promise!Spec
=============================================================================
