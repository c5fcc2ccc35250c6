SPECIFICATION Spec
CONSTANTS
    o = o
    m = m
    d1 = d1
    d2 = d2
    e1 = e1
    Users = {o, m}
    Owner = o
    Devices = {d1, d2, e1}
    DeviceOwner <- TwoAndOne
    FirstEscrow <- PhraseAndMinted
    FirstStatus <- OnePending
    Recovery = Recovery
    None = None
    MaxEpoch = 2
    MaxRequests = 2
    MaxFailures = 1
INVARIANTS
    EscrowHonest
CHECK_DEADLOCK FALSE
