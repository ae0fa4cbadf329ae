CONSTANTS
    NumSlots = 6
    MaxArity = 2
    Blocks <- PairBlocks
    Val = {v1, v2}
    LINK = LINK
    NULL = NULL
SYMMETRY Symmetry
SPECIFICATION Spec
PROPERTIES
    ImplementsActivationStack
    BranchesToItsLabel
