-------------------------- MODULE MCIdentityFlow --------------------------
(* Three profiles, two of which differ by the blanks around a name. *)
EXTENDS IdentityFlow, TLC
CONSTANTS alice, bob, technician, supervisor, padded, first, second

TrimPadded == [profile \in Profiles |-> IF profile = padded THEN technician ELSE profile]

Symmetry == Permutations(Wallets) \union Permutations(Pages)
=============================================================================
