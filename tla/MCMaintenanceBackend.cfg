SPECIFICATION Spec
CONSTANTS
    Orders = {order}
    Users = {ana, ben}
    Evidence = {photo}
    Txs = {tx1}
    Slots = {s1, s2}
    MaxApprovals = 3
    None = None
SYMMETRY Symmetry
INVARIANTS TypeOK CompliantIsApproved AuditorsComeSecond TxIsBooked AnswersAreBacked
PROPERTIES KeepsRecordPromise
CHECK_DEADLOCK FALSE
