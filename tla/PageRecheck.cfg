SPECIFICATION Spec
CONSTANTS
    Ids = {"simple", "label", "uuid"}
    Offered <- OfferedIds
    IdLength <- Lengths
    Uuids <- UuidIds
    Payloads = {photo}
    Slots = {s1, s2}
    SendAnswers = {"PENDING", "ERROR"}
    MissAnswer = "NOT_FOUND"
    MaxPolls = 2
    MaxTxs = 2
    None = None
INVARIANT CompleteIsMirrored
