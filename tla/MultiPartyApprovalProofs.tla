-------------------- MODULE MultiPartyApprovalProofs --------------------
(***************************************************************************)
(* Proofs about MultiPartyApproval, for every set of ids and of users.     *)
(***************************************************************************)
EXTENDS MultiPartyApproval, TLAPS

\* The state a call starts from is an approval state, stored or blank.
LEMMA StoredType ==
    ASSUME TypeOK, NEW id \in Ids
    PROVE  Stored(id) \in ApprovalState
  BY DEF TypeOK, Stored, Blank, ApprovalState

\* Each call keeps the types: it overwrites one seat with its caller and one flag.
LEMMA CallsKeepTypes ==
    ASSUME TypeOK, Next
    PROVE  TypeOK'
<1>1. PICK id \in Ids, caller \in Users :
        \/ \E required \in BOOLEAN : SetAuditorRequired(id, required, caller)
        \/ ApproveByTechnician(id, caller)
        \/ \E byte \in FirstBytes : ApproveBySupervisor(id, byte, caller)
        \/ RejectBySupervisor(id, caller)
        \/ ApproveByAuditor(id, caller)
  BY DEF Next
<1>2. Stored(id) \in ApprovalState
  BY StoredType
<1>3. ASSUME NEW required \in BOOLEAN, SetAuditorRequired(id, required, caller)
      PROVE  TypeOK'
  BY <1>2, <1>3 DEF SetAuditorRequired, TypeOK, ApprovalState
<1>4. CASE ApproveByTechnician(id, caller)
  BY <1>2, <1>4 DEF ApproveByTechnician, TypeOK, ApprovalState
<1>5. ASSUME NEW byte \in FirstBytes, ApproveBySupervisor(id, byte, caller)
      PROVE  TypeOK'
  <2>1. (byte = 1) \in BOOLEAN
    OBVIOUS
  <2>. QED
    BY <1>2, <1>5, <2>1 DEF ApproveBySupervisor, TypeOK, ApprovalState
<1>6. CASE RejectBySupervisor(id, caller)
  BY <1>2, <1>6 DEF RejectBySupervisor, TypeOK, ApprovalState
<1>7. CASE ApproveByAuditor(id, caller)
  BY <1>2, <1>7 DEF ApproveByAuditor, TypeOK, ApprovalState
<1>. QED
  BY <1>1, <1>3, <1>4, <1>5, <1>6, <1>7

\* The stored approval states are well typed in every reachable state.
THEOREM TypeCorrect == Spec => []TypeOK
<1>1. Init => TypeOK
  BY DEF Init, TypeOK
<1>2. TypeOK /\ UNCHANGED approval => TypeOK'
  BY DEF TypeOK
<1>. QED
  BY <1>1, <1>2, CallsKeepTypes, PTL DEF Spec

\* No approval is ever in place without an approver on record.
THEOREM HoldersOnRecord == Spec => []ApprovalsHaveHolders
<1>1. Init => ApprovalsHaveHolders
  BY DEF Init, ApprovalsHaveHolders
<1>2. ASSUME TypeOK, ApprovalsHaveHolders, [Next]_approval
      PROVE  ApprovalsHaveHolders'
  <2>1. CASE UNCHANGED approval
    BY <1>2, <2>1 DEF ApprovalsHaveHolders
  <2>2. CASE Next
    <3>1. PICK id \in Ids, caller \in Users :
            \/ \E required \in BOOLEAN : SetAuditorRequired(id, required, caller)
            \/ ApproveByTechnician(id, caller)
            \/ \E byte \in FirstBytes : ApproveBySupervisor(id, byte, caller)
            \/ RejectBySupervisor(id, caller)
            \/ ApproveByAuditor(id, caller)
      BY <2>2 DEF Next
    <3>2. Stored(id) \in ApprovalState /\ caller # None
      BY <1>2, StoredType, SentinelsAssumption
    <3>3. /\ Stored(id).tech_approved => Stored(id).technician # None
          /\ Stored(id).supervisor_approved => Stored(id).supervisor # None
          /\ Stored(id).auditor_approved => Stored(id).auditor # None
          /\ Stored(id).auditor_required => Stored(id).technician # None
      BY <1>2 DEF ApprovalsHaveHolders, Stored, Blank
    <3>. DEFINE Backed(s) == /\ s.tech_approved => s.technician # None
                             /\ s.supervisor_approved => s.supervisor # None
                             /\ s.auditor_approved => s.auditor # None
                             /\ s.auditor_required => s.technician # None
    <3>4. SUFFICES ASSUME NEW i \in Ids, approval'[i] # NoState
                   PROVE  Backed(approval'[i])
      BY DEF ApprovalsHaveHolders
    <3>5. CASE i # id
      <4>1. approval'[i] = approval[i]
        BY <1>2, <3>1, <3>5
           DEF SetAuditorRequired, ApproveByTechnician, ApproveBySupervisor,
               RejectBySupervisor, ApproveByAuditor, TypeOK
      <4>. QED
        BY <1>2, <3>4, <4>1 DEF ApprovalsHaveHolders
    <3>6. CASE i = id
      <4>1. ASSUME NEW required \in BOOLEAN, SetAuditorRequired(id, required, caller)
            PROVE  Backed(approval'[i])
        BY <1>2, <3>2, <3>3, <3>6, <4>1 DEF SetAuditorRequired, TypeOK, ApprovalState
      <4>2. CASE ApproveByTechnician(id, caller)
        BY <1>2, <3>2, <3>3, <3>6, <4>2 DEF ApproveByTechnician, TypeOK, ApprovalState
      <4>3. ASSUME NEW byte \in FirstBytes, ApproveBySupervisor(id, byte, caller)
            PROVE  Backed(approval'[i])
        BY <1>2, <3>2, <3>3, <3>6, <4>3 DEF ApproveBySupervisor, TypeOK, ApprovalState
      <4>4. CASE RejectBySupervisor(id, caller)
        BY <1>2, <3>2, <3>3, <3>6, <4>4 DEF RejectBySupervisor, TypeOK, ApprovalState
      <4>5. CASE ApproveByAuditor(id, caller)
        BY <1>2, <3>2, <3>3, <3>6, <4>5 DEF ApproveByAuditor, TypeOK, ApprovalState
      <4>. QED
        BY <3>1, <4>1, <4>2, <4>3, <4>4, <4>5
    <3>. QED
      BY <3>5, <3>6
  <2>. QED
    BY <1>2, <2>1, <2>2
<1>. QED
  BY <1>1, <1>2, TypeCorrect, PTL DEF Spec

\* A step changes one id: a call's caller was free to sit in the one seat the
\* call concerns, and the other two seats are what they were.
LEMMA OneCallOneSeat ==
    ASSUME TypeOK, Next
    PROVE  \E id \in Ids, caller \in Users, seat \in Seats :
             /\ MaySit(Stored(id)[seat], caller)
             /\ approval'[id] \in ApprovalState
             /\ approval'[id][seat] = caller
             /\ \A other \in Seats \ {seat} : approval'[id][other] = Stored(id)[other]
             /\ \A i \in Ids \ {id} : approval'[i] = approval[i]
<1>1. PICK id \in Ids, caller \in Users :
        \/ \E required \in BOOLEAN : SetAuditorRequired(id, required, caller)
        \/ ApproveByTechnician(id, caller)
        \/ \E byte \in FirstBytes : ApproveBySupervisor(id, byte, caller)
        \/ RejectBySupervisor(id, caller)
        \/ ApproveByAuditor(id, caller)
  BY DEF Next
<1>2. Stored(id) \in ApprovalState /\ TypeOK'
  BY StoredType, CallsKeepTypes
<1>. DEFINE Sat(seat) ==
             /\ MaySit(Stored(id)[seat], caller)
             /\ approval'[id] \in ApprovalState
             /\ approval'[id][seat] = caller
             /\ \A other \in Seats \ {seat} : approval'[id][other] = Stored(id)[other]
             /\ \A i \in Ids \ {id} : approval'[i] = approval[i]
<1>3. ASSUME NEW required \in BOOLEAN, SetAuditorRequired(id, required, caller)
      PROVE  Sat("technician")
  BY <1>2, <1>3 DEF SetAuditorRequired, TypeOK, ApprovalState, Seats
<1>4. ASSUME ApproveByTechnician(id, caller)
      PROVE  Sat("technician")
  BY <1>2, <1>4 DEF ApproveByTechnician, TypeOK, ApprovalState, Seats
<1>5. ASSUME NEW byte \in FirstBytes, ApproveBySupervisor(id, byte, caller)
      PROVE  Sat("supervisor")
  BY <1>2, <1>5 DEF ApproveBySupervisor, TypeOK, ApprovalState, Seats
<1>6. ASSUME RejectBySupervisor(id, caller)
      PROVE  Sat("supervisor")
  BY <1>2, <1>6 DEF RejectBySupervisor, TypeOK, ApprovalState, Seats
<1>7. ASSUME ApproveByAuditor(id, caller)
      PROVE  Sat("auditor")
  BY <1>2, <1>7 DEF ApproveByAuditor, TypeOK, ApprovalState, Seats
<1>8. \E seat \in Seats : Sat(seat)
  <2>. HIDE DEF Sat
  <2>. QED
    BY <1>1, <1>3, <1>4, <1>5, <1>6, <1>7 DEF Seats
<1>. QED
  BY <1>8

\* A seat that was taken is kept for good.
THEOREM SeatsKept == Spec => SeatsAreKept
<1>. DEFINE Kept == \A id \in Ids, seat \in Seats :
          approval[id] # NoState =>
              \/ approval[id][seat] = None
              \/ approval'[id] # NoState /\ approval'[id][seat] = approval[id][seat]
<1>1. ASSUME TypeOK, Next PROVE Kept
  <2>1. PICK id \in Ids, caller \in Users, seat \in Seats :
             /\ MaySit(Stored(id)[seat], caller)
             /\ approval'[id] \in ApprovalState
             /\ approval'[id][seat] = caller
             /\ \A other \in Seats \ {seat} : approval'[id][other] = Stored(id)[other]
             /\ \A i \in Ids \ {id} : approval'[i] = approval[i]
    BY <1>1, OneCallOneSeat
  <2>2. SUFFICES ASSUME NEW i \in Ids, NEW s \in Seats,
                        approval[i] # NoState, approval[i][s] # None
                 PROVE  approval'[i] # NoState /\ approval'[i][s] = approval[i][s]
    OBVIOUS
  <2>3. CASE i # id
    BY <2>1, <2>2, <2>3
  <2>4. CASE i = id
    <3>1. Stored(id) = approval[i]
      BY <2>2, <2>4 DEF Stored
    <3>2. approval'[i][s] = approval[i][s]
      BY <2>1, <2>2, <2>4, <3>1 DEF MaySit
    <3>3. approval'[i] # NoState
      BY <2>1, <2>4, NoStateAssumption
    <3>. QED
      BY <3>2, <3>3
  <2>. QED
    BY <2>3, <2>4
<1>2. TypeOK /\ [Next]_approval => [Kept]_approval
  BY <1>1
<1>. QED
  BY <1>2, TypeCorrect, PTL DEF Spec, SeatsAreKept

\* verify is taken back only by the supervisor or by a new auditor requirement.
\* A seated caller overwrites its seat with itself, so only the flag changes.
THEOREM VerifyStands == Spec => VerifiedUntilWithdrawn
<1>. DEFINE Withdrawn == \A id \in Ids : Verified(id) /\ ~Verified(id)' =>
          \/ approval'[id] = [approval[id] EXCEPT !.supervisor_approved = FALSE]
          \/ approval'[id] = [approval[id] EXCEPT !.auditor_required = TRUE]
<1>1. ASSUME TypeOK, ApprovalsHaveHolders, Next PROVE Withdrawn
  <2>1. PICK id \in Ids, caller \in Users :
            \/ \E required \in BOOLEAN : SetAuditorRequired(id, required, caller)
            \/ ApproveByTechnician(id, caller)
            \/ \E byte \in FirstBytes : ApproveBySupervisor(id, byte, caller)
            \/ RejectBySupervisor(id, caller)
            \/ ApproveByAuditor(id, caller)
    BY <1>1 DEF Next
  <2>2. ASSUME NEW i \in Ids, i # id, Verified(i) PROVE Verified(i)'
    <3>1. approval'[i] = approval[i]
      BY <1>1, <2>1, <2>2
         DEF SetAuditorRequired, ApproveByTechnician, ApproveBySupervisor,
             RejectBySupervisor, ApproveByAuditor, TypeOK
    <3>. QED
      BY <2>2, <3>1 DEF Verified
  <2>3. SUFFICES ASSUME Verified(id), ~Verified(id)'
                 PROVE  \/ approval'[id] = [approval[id] EXCEPT !.supervisor_approved = FALSE]
                        \/ approval'[id] = [approval[id] EXCEPT !.auditor_required = TRUE]
    BY <2>2
  <2>4. /\ approval[id] \in ApprovalState
        /\ Stored(id) = approval[id]
        /\ approval[id].technician # None
        /\ approval[id].supervisor # None
    BY <1>1, <2>3 DEF TypeOK, Verified, Stored, ApprovalsHaveHolders
  <2>5. approval'[id] \in ApprovalState \union {NoState}
    BY <1>1, CallsKeepTypes DEF TypeOK
  <2>6. ASSUME NEW required \in BOOLEAN, SetAuditorRequired(id, required, caller)
        PROVE  approval'[id] = [approval[id] EXCEPT !.auditor_required = TRUE]
    <3>1. approval'[id] = [approval[id] EXCEPT !.auditor_required = required]
      BY <1>1, <2>4, <2>6 DEF SetAuditorRequired, MaySit, ApprovalState, TypeOK
    <3>2. required
      BY <2>3, <2>4, <3>1, NoStateAssumption DEF Verified, ApprovalState
    <3>. QED
      BY <3>1, <3>2
  <2>7. ASSUME ApproveByTechnician(id, caller) PROVE FALSE
    <3>1. approval'[id] = [approval[id] EXCEPT !.technician = caller, !.tech_approved = TRUE]
      BY <1>1, <2>4, <2>7 DEF ApproveByTechnician, TypeOK
    <3>2. /\ approval'[id] \in ApprovalState
          /\ approval'[id].tech_approved = TRUE
          /\ approval'[id].supervisor_approved = approval[id].supervisor_approved
          /\ approval'[id].auditor_approved = approval[id].auditor_approved
          /\ approval'[id].auditor_required = approval[id].auditor_required
      BY <2>4, <3>1 DEF ApprovalState
    <3>. QED
      BY <2>3, <3>2, NoStateAssumption DEF Verified
  <2>8. ASSUME NEW byte \in FirstBytes, ApproveBySupervisor(id, byte, caller)
        PROVE  approval'[id] = [approval[id] EXCEPT !.supervisor_approved = FALSE]
    <3>1. approval'[id] = [approval[id] EXCEPT !.supervisor_approved = (byte = 1)]
      BY <1>1, <2>4, <2>8 DEF ApproveBySupervisor, MaySit, ApprovalState, TypeOK
    <3>2. byte # 1
      BY <2>3, <2>4, <3>1, NoStateAssumption DEF Verified, ApprovalState
    <3>. QED
      BY <3>1, <3>2
  <2>9. ASSUME RejectBySupervisor(id, caller)
        PROVE  approval'[id] = [approval[id] EXCEPT !.supervisor_approved = FALSE]
    BY <1>1, <2>4, <2>9 DEF RejectBySupervisor, MaySit, ApprovalState, TypeOK
  <2>10. ASSUME ApproveByAuditor(id, caller) PROVE FALSE
    <3>1. approval'[id] = [approval[id] EXCEPT !.auditor = caller, !.auditor_approved = TRUE]
      BY <1>1, <2>4, <2>10 DEF ApproveByAuditor, TypeOK
    <3>2. /\ approval'[id] \in ApprovalState
          /\ approval'[id].tech_approved = approval[id].tech_approved
          /\ approval'[id].supervisor_approved = approval[id].supervisor_approved
          /\ approval'[id].auditor_approved = TRUE
      BY <2>4, <3>1 DEF ApprovalState
    <3>. QED
      BY <2>3, <3>2, NoStateAssumption DEF Verified
  <2>. QED
    BY <2>1, <2>6, <2>7, <2>8, <2>9, <2>10
<1>2. TypeOK /\ ApprovalsHaveHolders /\ [Next]_approval => [Withdrawn]_approval
  BY <1>1
<1>. QED
  BY <1>2, TypeCorrect, HoldersOnRecord, PTL DEF Spec, VerifiedUntilWithdrawn
=============================================================================
