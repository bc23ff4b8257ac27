SPECIFICATION ShopSpec
CONSTANTS
    PTX = {1, 2}
    Paths = {1, 2, 3, 4, 5, 6}
    Times = {1, 2}
    Now = 3
    Data = {10, 20}
    Roadmaps <- MCRoadmaps
    Disks <- MCDisksLinked
    Ignored = {6}
    Strict = FALSE
    OriginalDatestamp = FALSE
    MaxChanges = 0
INVARIANT DOsInPlace
CHECK_DEADLOCK FALSE
