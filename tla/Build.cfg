SPECIFICATION BuildSpec
CONSTANTS
    p1 = p1
    p2 = p2
    p3 = p3
    Code = {plain, weak}
    NoCode = NoCode
    Pid <- MCPids
    Depths = {0, 1}
    NoKey = NoKey
    NoPid = NoPid
    Top = p1
    PA <- MCActions
    MaxAccess = 2
    MaxKills = 0
    AggStyle = "re"
    BreakRE = {}
    StrongRE = {}
    WeakRE = {weak}
    ShopResults = {"OFF"}
    Server = FALSE
    StrictDownload = FALSE
INVARIANTS BuildTypeOK CompleteRecord PredecessorFound GroupIntegrity ReportedOnce EachPathActionOnce
SYMMETRY Symmetry
