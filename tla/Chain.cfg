SPECIFICATION Spec
CONSTANTS
    Ids = {m1}
    Users = {u1, u2}
    Evidence = {e1, e2}
    StatusUpdates <- WorkflowUpdates
    None = None
    NoState = NoState
    NoRecord = NoRecord
    Attestation = Attestation
    ApprovalId = ApprovalId
    RecordsId = RecordsId
    OtherIds = {other}
    CertHashes = {c1, c2}
    NoCert = NoCert
INVARIANTS TypeOK CertificatesAreBacked
PROPERTIES OrdersAreKept CompleterIsFinal ComplianceIsCertified KeepsPromise
