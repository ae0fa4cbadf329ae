CONSTANTS
    NumSlots = 6
    MaxArity = 1
    Blocks <- SmallBlocks
    Val = {v1}
    LINK = LINK
    NULL = NULL
SPECIFICATION FairSpec
INVARIANTS
    IInv
    ListsFollowStack
    LiveValuesIntact
    FramesMatchCalls
    BranchFindsLabel
    ReturnTakesResults
    IdleStackEmpty
PROPERTIES
    CallersUntouched
    UnwindingEnds
