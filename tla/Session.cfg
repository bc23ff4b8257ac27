SPECIFICATION SessionSpec
CONSTANTS
    a1 = a1
    a2 = a2
    Audit <- MCAudits
    Uploadable = {a1}
    Options <- MCOptions
    Faults = {"refuse", "break", "ping", "crash", "file"}
    MaxFaults = 1
    MaxPtx = 2
    TransferMax = 2
    Timeout = 4
    PassMax = 2
INVARIANTS
    SessionTypeOK
    CompletePtx
    NoneRefused
    KeptAlive
PROPERTIES
    SuccessIsFinal
    PtxDecided
    DrainEnds
