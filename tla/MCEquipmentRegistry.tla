------------------------ MODULE MCEquipmentRegistry ------------------------
EXTENDS EquipmentRegistry, TLC

\* Machines and accounts are interchangeable.
Symmetry == Permutations(EquipmentIds) \union Permutations(Accounts)
=============================================================================
