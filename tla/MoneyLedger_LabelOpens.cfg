SPECIFICATION Spec
CONSTANTS
    Members = {m1}
    Entries = {1}
    Clearable = {budget}
    Lasting = {}
    Days = {1}
    PageSize = 1
    MaxWrites = 1
    MaxEpoch = 2
    None = None
INVARIANTS
    LabelOpens
CHECK_DEADLOCK FALSE
