SPECIFICATION Spec
CONSTANTS
    alice = alice
    bob = bob
    technician = technician
    supervisor = supervisor
    padded = padded
    first = first
    second = second
    Wallets = {alice, bob}
    Profiles = {technician, supervisor, padded}
    Typed = {supervisor, padded}
    Trim <- TrimPadded
    Pages = {first, second}
    MaxTxs = 2
    MaxSwitches = 1
    MaxStarted = 2
    None = None
INVARIANTS
    TypeOK
    MirrorIsOwnTx
    ReviewIsOnFile
    VersionCounts
    SyncedIsMirrored
PROPERTIES KeepsIdentityPromise
SYMMETRY Symmetry
