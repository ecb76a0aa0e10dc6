---------------------- MODULE MCMultiPartyApproval ----------------------
(* MultiPartyApproval on two maintenance ids and two interchangeable users. *)
EXTENDS MultiPartyApproval, TLC

Symmetry == Permutations(Ids) \union Permutations(Users)
=============================================================================
