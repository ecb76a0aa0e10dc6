-------------------------- MODULE IdentityRegistry --------------------------
(***************************************************************************)
(* The contract the Get Verified page calls.  A profile stands for the     *)
(* role code and the two hashes, verified_at is left out: no call reads it.*)
(***************************************************************************)
EXTENDS Naturals

CONSTANTS Wallets, Profiles, None

VARIABLE verification       \* DataKey::Verification(wallet) -> record or None

VerificationRecord == [profile: Profiles, version: Nat \ {0}]

IsVerified(wallet) == verification[wallet] # None

Store(wallet, profile, version) ==
    verification' =
        [verification EXCEPT ![wallet] = [profile |-> profile, version |-> version]]

\* Mutant of VerifyIdentity: every record is a first one.
VerifyIdentityAfresh(caller, profile) == Store(caller, profile, 1)

\* require_auth() is the choice of the caller.
VerifyIdentity(caller, profile) ==
    Store(caller, profile, IF IsVerified(caller) THEN verification[caller].version + 1 ELSE 1)

Init == verification = [wallet \in Wallets |-> None]
=============================================================================
