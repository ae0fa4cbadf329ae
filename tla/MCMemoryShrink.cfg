CONSTANTS
    W = 8
    HostPage = 2
    WasmPage = 2
    NumPageMax = 4
    Byte = {0, 1}
    Zero = 0
    MinPages = 1
    MaxPages = 2
    HasMax = TRUE
    Segments = {"d0"}
    Content <- OneSegment
    Offsets = {0, 1}
    Widths = {1, 2}
    Straddle = FALSE
    Operands <- SomeOperands
    GrowArgs <- SomeOperands
    NULL = NULL
SPECIFICATION Spec
PROPERTIES
    GrowNeverShrinks
