SPECIFICATION Spec
CONSTANTS
    Clients = {c1, c2}
    Changes = {x, y}
    Blobs = {}
    Inline = Inline
    None = None
    MaxChangesPerBatch = 1
    MaxChangesPerPage = 1
    MaxHead = 2
    MaxEpoch = 1
INVARIANT NothingSkipped
CHECK_DEADLOCK FALSE
