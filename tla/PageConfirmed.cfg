SPECIFICATION Spec
CONSTANTS
    Ids = {"simple", "label", "uuid"}
    Offered <- OfferedIds
    IdLength <- Lengths
    Uuids <- UuidIds
    Payloads = {photo}
    Slots = {s1}
    SendAnswers = {"PENDING"}
    MissAnswer = "NOT_FOUND"
    MaxPolls = 2
    MaxTxs = 2
    None = None
INVARIANT CompleteIsApplied
