SPECIFICATION Spec
CONSTANTS
    Counts = {0, 1, 2}
    DataCounts = {1, 2}
    Beyond = {}
    LoneDataCount = FALSE
    OddKinds = {}
    MaxSections = 5
INVARIANTS
    SectionsInOrder
    EntriesDecoded
    AcceptsTheFormat
CHECK_DEADLOCK FALSE
