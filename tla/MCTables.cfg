CONSTANTS
    W = 8
    HostEntries = 3
    Addrs = {"t0", "t1"}
    TableIdx = {"x0", "x1", "x2"}
    TableAddr <- Aliased
    Limits <- TwoTables
    Junk = {0, 2}
    Segments = {"e0"}
    Content <- OneSegment
    Funcs = {"f"}
    FuncType <- TypeOf
    CallTypes <- Types
    Operands <- SomeOperands
    GrowArgs <- NonNegative
    FillWraps = FALSE
    REF_NULL = REF_NULL
    NULL = NULL
SPECIFICATION Spec
INVARIANTS
    EntriesAllocated
    TInv
PROPERTIES
    BulkNeverStopsHalfway
    ImplementsTableVectors
