SPECIFICATION Spec
CONSTANTS
    Ids = {m1, m2}
    Users = {u1, u2}
    None = None
    NoState = NoState
SYMMETRY Symmetry
INVARIANTS TypeOK ApprovalsHaveHolders
PROPERTIES SeatsAreKept VerifiedUntilWithdrawn
