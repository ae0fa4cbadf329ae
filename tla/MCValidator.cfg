CONSTANTS
    Types = {"i32", "i64", "ref"}
    Refs = {"ref"}
    I32 = "i32"
    ANY = "any"
    Ops <- SomeOps
    BlockTypes <- SomeBlocks
    IfTypes <- OneOperand
    Results <- SomeResults
    NumFuncs = 2
    MaxInstrs = 5
    MaxLabel = 1
    WildLabels = FALSE
    MixedTables = FALSE
    AnyIsNull = FALSE
SPECIFICATION Spec
INVARIANTS
    LabelsFollowBodies
    UnknownAtBottom
PROPERTIES
    ImplementsTyping
