----------------------------- MODULE CustodyLog -----------------------------
(***************************************************************************)
(* What the registry promises about machines, without keys, pointers or    *)
(* hashes: each machine has a log that only grows.  Anybody may open the   *)
(* log of a machine, once, in his own name; every later entry is signed by *)
(* the owner the entry before it names, is about the same machine data,    *)
(* and carries the date of the day it is made.                             *)
(***************************************************************************)
EXTENDS Integers, Sequences

CONSTANTS Machines, Owners, Data

VARIABLES
    log,        \* log[m]: the entries about m, the oldest first
    today

logVars == <<log, today>>

Enter(m, owner, data, signer) ==
    /\ log' = [log EXCEPT ![m] =
                  Append(@, [owner |-> owner, data |-> data, date |-> today, by |-> signer])]
    /\ UNCHANGED today

LastEntry(m) == log[m][Len(log[m])]

Open(m, owner, data) ==
    /\ Len(log[m]) = 0
    /\ Enter(m, owner, data, owner)

Sell(m, owner) ==
    /\ Len(log[m]) > 0
    /\ Enter(m, owner, LastEntry(m).data, LastEntry(m).owner)

NextDay ==
    /\ today' > today
    /\ UNCHANGED log

Init ==
    /\ log = [m \in Machines |-> <<>>]
    /\ today = 0

Next ==
    \/ \E m \in Machines, owner \in Owners :
          Sell(m, owner) \/ \E data \in Data : Open(m, owner, data)
    \/ NextDay

Spec == Init /\ [][Next]_logVars
=============================================================================
