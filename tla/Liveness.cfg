SPECIFICATION BuildSpec
CONSTANTS
    p1 = p1
    p2 = p2
    p3 = p3
    Code = {plain, weak}
    NoCode = NoCode
    Pid <- MC2
    Depths = {0, 1}
    NoKey = NoKey
    NoPid = NoPid
    Top = p1
    PA <- MCA2
    MaxAccess = 2
    MaxKills = 1
    AggStyle = "re"
    BreakRE = {}
    StrongRE = {}
    WeakRE = {weak}
    ShopResults = {"RECYCLED", "MUSTRUN", "MUSTRUN_AGG", "NOMATCH"}
    Server = TRUE
    StrictDownload = TRUE
PROPERTIES Released BuildEnds
