SPECIFICATION Spec
CONSTANTS
    alice = alice
    bob = bob
    technician = technician
    supervisor = supervisor
    padded = padded
    first = first
    second = second
    Wallets = {alice, bob}
    Profiles = {technician, supervisor, padded}
    Typed = {supervisor, padded}
    Trim <- TrimPadded
    Pages = {first}
    MaxTxs = 1
    MaxSwitches = 0
    MaxStarted = 1
    None = None
INVARIANT
    IdentityIsOwn
