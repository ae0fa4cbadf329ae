CONSTANTS
    MaxPages = 2
    JunkRefs = {}
    Modules <- Script
    Ids = {"$M"}
    Names = {"A", "B"}
    PageSize = 1
    MaxInsts = 3
    Reregister = FALSE
    NoName = NoName
    NULL = NULL
SPECIFICATION Spec
INVARIANTS
    AddressesAllocated
    RunnableIsComplete
    
    RefusesOnlyMisfits
    
    
    NamesFindTheirInstance
PROPERTIES
    InstantiationIsLocal
CHECK_DEADLOCK FALSE
