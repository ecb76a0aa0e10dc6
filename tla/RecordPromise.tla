--------------------------- MODULE RecordPromise ---------------------------
(***************************************************************************)
(* What the backend promises about maintenance records, without handlers,  *)
(* statements or requests: a record is opened once and stays with its      *)
(* technician; a supervisor's approval and what auditors sign stay on      *)
(* file; an auditor signs only behind a supervisor; a record becomes       *)
(* compliant only with a signature of an auditor on file that names the    *)
(* record's transaction, and may be reopened at any time.                  *)
(***************************************************************************)
CONSTANTS Orders, Users, Txs, None

VARIABLES
    technician,     \* technician[o]: whose record it is, None if it is not open yet
    approved,       \* the records a supervisor approved
    signed,         \* signed[o]: the transactions, or None, that auditors signed o with
    compliant,      \* the records that are compliant now
    named           \* named[o]: the transaction of the last certification, or None

promiseVars == <<technician, approved, signed, compliant, named>>

Opened(o) == technician[o] # None

Open(o, user) ==
    /\ ~Opened(o)
    /\ technician' = [technician EXCEPT ![o] = user]
    /\ UNCHANGED <<approved, signed, compliant, named>>

Approve(o) ==
    /\ Opened(o)
    /\ approved' = approved \union {o}
    /\ UNCHANGED <<technician, signed, compliant, named>>

Sign(o, tx) ==
    /\ o \in approved
    /\ signed' = [signed EXCEPT ![o] = @ \union {tx}]
    /\ UNCHANGED <<technician, approved, compliant, named>>

Certify(o, tx) ==
    /\ Opened(o) /\ tx \in signed[o]
    /\ compliant' = compliant \union {o}
    /\ named' = [named EXCEPT ![o] = tx]
    /\ UNCHANGED <<technician, approved, signed>>

\* New evidence, or a decision of a supervisor.
Reopen(o) ==
    /\ compliant' = compliant \ {o}
    /\ UNCHANGED <<technician, approved, signed, named>>

Init ==
    /\ technician = [o \in Orders |-> None]
    /\ approved = {} /\ compliant = {}
    /\ signed = [o \in Orders |-> {}]
    /\ named = [o \in Orders |-> None]

Next ==
    \E o \in Orders :
        \/ Reopen(o) \/ Approve(o)
        \/ \E user \in Users : Open(o, user)
        \/ \E tx \in Txs \union {None} : Sign(o, tx) \/ Certify(o, tx)

Spec == Init /\ [][Next]_promiseVars
=============================================================================
