------------------------ MODULE MultiPartyApproval ------------------------
(***************************************************************************)
(* The MultiPartyApproval contract: for every maintenance id, who holds    *)
(* the technician's, the supervisor's and the auditor's seat, and which of *)
(* them has approved.  A call is one Soroban transaction, so it is one     *)
(* atomic step; a call that panics changes nothing and is not a step.      *)
(* require_auth is the choice of caller: a step taken by "caller" is one   *)
(* that caller signed.                                                     *)
(***************************************************************************)
EXTENDS Integers

CONSTANTS
    Ids,        \* maintenance ids (BytesN<32>)
    Users,      \* account addresses that can sign a transaction
    None,       \* Option::None
    NoState     \* no ApprovalState stored under this id yet

ASSUME SentinelsAssumption == None \notin Users

VARIABLE approval   \* instance storage: maintenance id -> ApprovalState

ApprovalState ==
    [tech_approved: BOOLEAN, supervisor_approved: BOOLEAN,
     auditor_approved: BOOLEAN, auditor_required: BOOLEAN,
     technician: Users \union {None}, supervisor: Users \union {None},
     auditor: Users \union {None}]

ASSUME NoStateAssumption == NoState \notin ApprovalState

\* What every mutating call starts from when the id has no state yet.
Blank ==
    [tech_approved |-> FALSE, supervisor_approved |-> FALSE,
     auditor_approved |-> FALSE, auditor_required |-> FALSE,
     technician |-> None, supervisor |-> None, auditor |-> None]

Stored(id) == IF approval[id] = NoState THEN Blank ELSE approval[id]

\* Mutant of MaySit: a call forgets to compare its caller with the holder.
MaySitUnchecked(seat, caller) == TRUE

\* The first caller in a role takes its seat; afterwards only the holder may
\* act in that role, anybody else panics.
MaySit(seat, caller) == seat \in {None, caller}

\* Mutant of SetAuditorRequired: the state is stored under the caller's address.
SetAuditorRequiredMisfiled(id, required, caller) ==
    /\ MaySit(Stored(id).technician, caller)
    /\ approval' = [key \in DOMAIN approval \union {caller} |->
          IF key = caller
          THEN [Stored(id) EXCEPT !.technician = caller, !.auditor_required = required]
          ELSE approval[key]]

SetAuditorRequired(id, required, caller) ==
    /\ MaySit(Stored(id).technician, caller)
    /\ approval' = [approval EXCEPT ![id] =
          [Stored(id) EXCEPT !.technician = caller, !.auditor_required = required]]

\* Mutant of ApproveByTechnician: the state is built anew, not read.
ApproveByTechnicianAnew(id, caller) ==
    /\ MaySit(Stored(id).technician, caller)
    /\ approval' = [approval EXCEPT ![id] =
          [Blank EXCEPT !.technician = caller, !.tech_approved = TRUE]]

ApproveByTechnician(id, caller) ==
    /\ MaySit(Stored(id).technician, caller)
    /\ approval' = [approval EXCEPT ![id] =
          [Stored(id) EXCEPT !.technician = caller, !.tech_approved = TRUE]]

\* decision is a 32-byte string of which only the first byte is read.
ApproveBySupervisor(id, first_byte, caller) ==
    /\ MaySit(Stored(id).supervisor, caller)
    /\ approval' = [approval EXCEPT ![id] =
          [Stored(id) EXCEPT !.supervisor = caller,
                             !.supervisor_approved = (first_byte = 1)]]

RejectBySupervisor(id, caller) ==
    /\ MaySit(Stored(id).supervisor, caller)
    /\ approval' = [approval EXCEPT ![id] =
          [Stored(id) EXCEPT !.supervisor = caller, !.supervisor_approved = FALSE]]

\* Mutant of ApproveByAuditor: the first auditor is not remembered.
ApproveByAuditorUnnamed(id, caller) ==
    /\ MaySit(Stored(id).auditor, caller)
    /\ approval' = [approval EXCEPT ![id] = [Stored(id) EXCEPT !.auditor_approved = TRUE]]

ApproveByAuditor(id, caller) ==
    /\ MaySit(Stored(id).auditor, caller)
    /\ approval' = [approval EXCEPT ![id] =
          [Stored(id) EXCEPT !.auditor = caller, !.auditor_approved = TRUE]]

\* Mutant of Verified: the auditor's approval is not asked for.
VerifiedByTwo(id) ==
    /\ approval[id] # NoState
    /\ approval[id].tech_approved
    /\ approval[id].supervisor_approved

\* verify(id) returns TRUE.  It panics when nothing is stored, which a
\* calling contract cannot tell from an answer that stops it.
Verified(id) ==
    /\ approval[id] # NoState
    /\ approval[id].tech_approved
    /\ approval[id].supervisor_approved
    /\ approval[id].auditor_required => approval[id].auditor_approved

-----------------------------------------------------------------------------
Init == approval = [id \in Ids |-> NoState]

FirstBytes == 0..2      \* 1 approves, every other byte rejects

Next ==
    \E id \in Ids, caller \in Users :
        \/ \E required \in BOOLEAN : SetAuditorRequired(id, required, caller)
        \/ ApproveByTechnician(id, caller)
        \/ \E byte \in FirstBytes : ApproveBySupervisor(id, byte, caller)
        \/ RejectBySupervisor(id, caller)
        \/ ApproveByAuditor(id, caller)

Spec == Init /\ [][Next]_approval

-----------------------------------------------------------------------------
TypeOK == approval \in [Ids -> ApprovalState \union {NoState}]

Seats == {"technician", "supervisor", "auditor"}

\* Who may act in a role is decided once: a seat of an id that somebody took
\* (lib.rs, "Only the assigned ... can") is never emptied and never passes to
\* another address, whatever calls follow on this id or on another one.
SeatsAreKept ==
    [][\A id \in Ids, seat \in Seats :
          approval[id] # NoState =>
              \/ approval[id][seat] = None
              \/ approval'[id] # NoState /\ approval'[id][seat] = approval[id][seat]]_approval

\* No approval without an approver: a flag of approval is only ever up while
\* somebody sits in that role, so verify can never be true of an id whose
\* technician or supervisor is nobody.
ApprovalsHaveHolders ==
    \A id \in Ids : approval[id] # NoState =>
        /\ approval[id].tech_approved => approval[id].technician # None
        /\ approval[id].supervisor_approved => approval[id].supervisor # None
        /\ approval[id].auditor_approved => approval[id].auditor # None
        /\ approval[id].auditor_required => approval[id].technician # None

\* An answer verify once gave is taken back in two ways only: by the supervisor's
\* own rejection, or by the technician asking for an auditor after all.  Neither
\* touches what the other parties have said (lib.rs keeps the other fields).
VerifiedUntilWithdrawn ==
    [][\A id \in Ids : Verified(id) /\ ~Verified(id)' =>
          \/ approval'[id] = [approval[id] EXCEPT !.supervisor_approved = FALSE]
          \/ approval'[id] = [approval[id] EXCEPT !.auditor_required = TRUE]]_approval
=============================================================================
