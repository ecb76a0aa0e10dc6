------------------------- MODULE CompliancePromise -------------------------
(***************************************************************************)
(* What the on-chain part of MaintChain promises about certificates,       *)
(* without contracts or storage: each maintenance id has three roles; one  *)
(* party holds each role for good once it has spoken in it; parties give   *)
(* their assent, and only the supervisor can take it back.  Whoever asks   *)
(* for a certificate chooses who vouches for it.  The word of the register *)
(* of assents is good: it vouches only at a moment when every role that is *)
(* needed assents.  The word of anybody else promises nothing.  A certified *)
(* id stays certified, but a later certificate replaces an earlier one.    *)
(***************************************************************************)
CONSTANTS
    Ids, Users, None,
    Vouchers,   \* whoever may be asked to vouch
    Register,   \* the one of them that keeps the assents
    Nobody      \* nobody vouched: no certificate

Roles == {"technician", "supervisor", "auditor"}
AlwaysNeeded == {"technician", "supervisor"}

VARIABLES
    party,      \* party[id][role]: who speaks in that role, None if nobody yet
    assent,     \* assent[id]: the roles that assent
    needed,     \* needed[id]: the roles whose assent a certificate needs
    word        \* word[id]: who vouched for the certificate of id, or Nobody

promiseVars == <<party, assent, needed, word>>

Seat(id, role, user) ==
    /\ party[id][role] \in {None, user}
    /\ party' = [party EXCEPT ![id][role] = user]

Assent(id, role, user) ==
    /\ Seat(id, role, user)
    /\ assent' = [assent EXCEPT ![id] = @ \union {role}]
    /\ UNCHANGED <<needed, word>>

Dissent(id, user) ==
    /\ Seat(id, "supervisor", user)
    /\ assent' = [assent EXCEPT ![id] = @ \ {"supervisor"}]
    /\ UNCHANGED <<needed, word>>

\* Whether the auditor is needed is the technician's to say, at any time.
Require(id, roles, user) ==
    /\ Seat(id, "technician", user)
    /\ needed' = [needed EXCEPT ![id] = roles]
    /\ UNCHANGED <<assent, word>>

Certify(id, voucher) ==
    /\ voucher = Register => needed[id] \subseteq assent[id]
    /\ word' = [word EXCEPT ![id] = voucher]
    /\ UNCHANGED <<party, assent, needed>>

Init ==
    /\ party = [id \in Ids |-> [role \in Roles |-> None]]
    /\ assent = [id \in Ids |-> {}]
    /\ needed = [id \in Ids |-> AlwaysNeeded]
    /\ word = [id \in Ids |-> Nobody]

Next ==
    \E id \in Ids :
        \/ \E user \in Users :
              \/ \E role \in Roles : Assent(id, role, user)
              \/ Dissent(id, user)
              \/ \E roles \in {AlwaysNeeded, Roles} : Require(id, roles, user)
        \/ \E voucher \in Vouchers : Certify(id, voucher)

Spec == Init /\ [][Next]_promiseVars
=============================================================================
