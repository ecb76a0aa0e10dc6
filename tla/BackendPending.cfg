SPECIFICATION Spec
CONSTANTS
    Orders = {order}
    Users = {ana, ben}
    Evidence = {photo}
    Txs = {tx1}
    Slots = {s1, s2}
    MaxApprovals = 2
    None = None
SYMMETRY Symmetry
INVARIANTS PendingIsApproved
CHECK_DEADLOCK FALSE
