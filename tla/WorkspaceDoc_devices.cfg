SPECIFICATION FairSpec
CONSTANTS
    Clients = {c1, c2}
    Edits = {x, y}
    None = None
    MaxPuts = 2
    MaxEpoch = 2
INVARIANTS
    VersionNamesDoc
PROPERTIES
    NoEditLost
    EpochNeverBack
    Converged
CHECK_DEADLOCK FALSE
