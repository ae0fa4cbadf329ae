CONSTANTS
    Types = {"i32", "i64", "ref"}
    Refs = {"ref"}
    I32 = "i32"
    ANY = "any"
    Ops <- SomeOps
    BlockTypes <- SomeBlocks
    IfTypes <- OneOperand
    Results <- SomeResults
    NumFuncs = 2
    MaxInstrs = 4
    MaxLabel = 2
    WildLabels = TRUE
    MixedTables = FALSE
    AnyIsNull = FALSE
SPECIFICATION Spec
PROPERTIES
    ImplementsTyping
