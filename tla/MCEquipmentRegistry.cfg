SPECIFICATION Spec
CONSTANTS
    EquipmentIds = {press, boiler}
    Accounts = {acme, globex}
    Metadata = {sheet1, sheet2}
    MaxVersion = 3
    MaxTime = 2
    NoSnapshot = NoSnapshot
SYMMETRY Symmetry
INVARIANTS TypeOK CustodyIsUnbroken HashesAreDistinct
PROPERTIES KeepsCustodyLog
CHECK_DEADLOCK FALSE
