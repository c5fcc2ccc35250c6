SPECIFICATION FairSpec
CONSTANTS
    Clients = {c1, c2}
    Changes = {x}
    Blobs = {b1}
    Inline = Inline
    None = None
    MaxChangesPerBatch = 1
    MaxChangesPerPage = 1
    MaxHead = 2
    MaxEpoch = 1
PROPERTY CaughtUp
CHECK_DEADLOCK FALSE
