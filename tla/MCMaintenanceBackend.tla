------------------------ MODULE MCMaintenanceBackend ------------------------
EXTENDS MaintenanceBackend, TLC

\* Requests in flight are told apart by nothing but their slot.
Symmetry == Permutations(Slots) \union Permutations(Users)
=============================================================================
