SPECIFICATION Spec
CONSTANTS
    Clients = {c1, c2}
    Changes = {x, y}
    Blobs = {b1}
    Inline = Inline
    None = None
    MaxChangesPerBatch = 2
    MaxChangesPerPage = 1
    MaxHead = 3
    MaxEpoch = 2
SYMMETRY Symmetry
INVARIANTS
    TypeOK
    LogIsSuffix
    AnswersAgree
    EpochFence
    SkipsOnlyTornRows
    FloorCovered
    SnapshotReadable
PROPERTIES
    NeverBackwards
    FeedSpec
CHECK_DEADLOCK FALSE
