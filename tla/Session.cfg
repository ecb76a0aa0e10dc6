SPECIFICATION Spec
CONSTANTS
    alice = alice
    bob = bob
    header = header
    page = page
    Wallets = {alice, bob}
    Hooks = {header, page}
    TabOf <- TwoTabs
    Attempts = {1, 2}
    CallersOf <- HeaderTwice
    NonceTTL = 1
    SessionTTL = 2
    MaxInFlight = 2
    None = None
INVARIANTS
    TypeOK
    SessionIsProven
    BadgeIsProven
    HooksAgree
    NobodyWaitsInVain
PROPERTIES
    ReplayIsRefused
    ConnectEnds
    SessionEnds
    KeepsSessionPromise
