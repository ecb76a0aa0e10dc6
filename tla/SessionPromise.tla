--------------------------- MODULE SessionPromise ---------------------------
(***************************************************************************)
(* What signing in promises about one browser, without hooks, cookies or   *)
(* challenges: at most one wallet at a time is signed in; a party signs a  *)
(* wallet in with a proof of that wallet which was made for this attempt,  *)
(* and has none left afterwards; from then on the session only grows       *)
(* older, for Lifetime at most, and any party or the browser may end it    *)
(* before.  (Whether somebody else could use the proof is not said here.)  *)
(***************************************************************************)
EXTENDS Integers

CONSTANTS Parties, Wallets, Lifetime, None

VARIABLES
    proof,      \* proof[p]: the wallet p can sign in now, None without a proof
    holder,     \* the wallet that is signed in, or None
    left        \* what is left of its session

promiseVars == <<proof, holder, left>>

Prove(p, w) ==
    /\ proof[p] = None
    /\ proof' = [proof EXCEPT ![p] = w]
    /\ UNCHANGED <<holder, left>>

\* Attempts come to nothing, several at once when a tab is closed.
Waste(parties) ==
    /\ proof' = [p \in Parties |-> IF p \in parties THEN None ELSE proof[p]]
    /\ UNCHANGED <<holder, left>>

SignIn(p) ==
    /\ proof[p] # None
    /\ holder' = proof[p]
    /\ left' = Lifetime
    /\ proof' = [proof EXCEPT ![p] = None]

End ==
    /\ holder' = None
    /\ left' = 0
    /\ UNCHANGED proof

GrowOlder ==
    /\ left > 1
    /\ left' = left - 1
    /\ UNCHANGED <<proof, holder>>

Init ==
    /\ proof = [p \in Parties |-> None]
    /\ holder = None /\ left = 0

Next ==
    \/ \E p \in Parties : SignIn(p) \/ \E w \in Wallets : Prove(p, w)
    \/ \E parties \in SUBSET Parties : Waste(parties)
    \/ End \/ GrowOlder

Spec == Init /\ [][Next]_promiseVars
=============================================================================
