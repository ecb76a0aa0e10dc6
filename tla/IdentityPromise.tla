-------------------------- MODULE IdentityPromise --------------------------
(***************************************************************************)
(* What Get Verified promises about wallets, without pages, sessions or    *)
(* requests: a wallet is filed under one profile for good; it may sign a   *)
(* profile on file, in a letter and in any spelling that trims to what is  *)
(* on file; each letter is honoured or refused once, or never, in any      *)
(* order, and one that is honoured makes the next edition of its own       *)
(* wallet on chain; the copy kept of a filed wallet is of a letter that    *)
(* this very wallet signed.                                                *)
(***************************************************************************)
EXTENDS Integers, Sequences

CONSTANTS Wallets, Profiles, Trim, None

VARIABLES
    file,       \* wallet -> its profile on file, or None
    letters,    \* what was signed: by whom, which profile, and its fate
    chain,      \* wallet -> profile and version on chain, or None
    copy        \* wallet -> the profile of a letter and the letter, or None

promiseVars == <<file, letters, chain, copy>>

Enrol(w, profile) ==
    /\ file[w] = None
    /\ file' = [file EXCEPT ![w] = Trim[profile]]
    /\ UNCHANGED <<letters, chain, copy>>

\* The profile on file need not be the wallet's own.
Sign(w, profile) ==
    /\ letters' = Append(letters, [wallet |-> w, profile |-> profile, fate |-> "sent"])
    /\ \E v \in Wallets : file[v] = Trim[profile]
    /\ UNCHANGED <<file, chain, copy>>

Edition(w) == IF chain[w] = None THEN 1 ELSE chain[w].version + 1

Honour(i) ==
    /\ letters[i].fate = "sent"
    /\ letters' = [letters EXCEPT ![i].fate = "SUCCESS"]
    /\ chain' = [chain EXCEPT ![letters[i].wallet] =
                    [profile |-> letters[i].profile, version |-> Edition(letters[i].wallet)]]
    /\ UNCHANGED <<file, copy>>

Refuse(i) ==
    /\ letters[i].fate = "sent"
    /\ letters' = [letters EXCEPT ![i].fate = "FAILED"]
    /\ UNCHANGED <<file, chain, copy>>

Copy(i) ==
    /\ file[letters[i].wallet] # None
    /\ copy' = [copy EXCEPT ![letters[i].wallet] = [profile |-> letters[i].profile, tx |-> i]]
    /\ UNCHANGED <<file, letters, chain>>

Init ==
    /\ file = [w \in Wallets |-> None]
    /\ letters = <<>>
    /\ chain = [w \in Wallets |-> None]
    /\ copy = [w \in Wallets |-> None]

\* Whatever leaves no mark is none of these steps.
Next ==
    /\ promiseVars' # promiseVars
    /\ \/ \E w \in Wallets, profile \in Profiles : Enrol(w, profile) \/ Sign(w, profile)
       \/ \E i \in DOMAIN letters : Honour(i) \/ Refuse(i) \/ Copy(i)

Spec == Init /\ [][Next]_promiseVars
=============================================================================
