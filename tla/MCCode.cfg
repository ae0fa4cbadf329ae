SPECIFICATION Spec
CONSTANTS
    MaxInstrs = 8
    StrayElse = FALSE
INVARIANTS
    LabelsAreScopes
    EveryNodeLinked
PROPERTIES
    ImplementsFlatCode
CHECK_DEADLOCK FALSE
