SPECIFICATION Spec
CONSTANTS
    Counts = {0, 1, 2}
    DataCounts = {0, 1, 2}
    Beyond = {}
    LoneDataCount = FALSE
    OddKinds = {}
    MaxSections = 4
INVARIANTS
    DataCountHonoured
CHECK_DEADLOCK FALSE
