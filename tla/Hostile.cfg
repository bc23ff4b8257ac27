SPECIFICATION BuildSpec
CONSTANTS
    p1 = p1
    p2 = p2
    p3 = p3
    Code = {weak, strong, brk}
    NoCode = NoCode
    Pid <- MC2
    Depths = {0, 1, 2}
    NoKey = NoKey
    NoPid = NoPid
    Top = p1
    PA <- MCA2
    MaxAccess = 2
    MaxKills = 1
    AggStyle = "re"
    BreakRE = {brk}
    StrongRE = {strong}
    WeakRE = {weak}
    ShopResults = {"OFF"}
    Server = FALSE
    StrictDownload = FALSE
INVARIANTS ExecChainSharesGroup ClosedWaitsForLeader
PROPERTIES StrongGroupHolds MonitorContract ImplementsAuditLog
