SPECIFICATION ShopSpec
CONSTANTS
    PTX = {1, 2}
    Paths = {1, 2, 3, 4, 5, 6}
    Times = {1, 2}
    Now = 3
    Data = {10, 20}
    Roadmaps <- MCRoadmaps
    Disks <- MCDisks
    Ignored = {6}
    Strict = FALSE
    OriginalDatestamp = FALSE
    MaxChanges = 1
INVARIANTS
    ShopTypeOK
    RecycledWasValid
    DismissedForCause
    TargetsInPlace
    NoHalfTarget
CHECK_DEADLOCK FALSE
