SPECIFICATION SessionSpec
CONSTANTS
    a1 = a1
    a2 = a2
    Audit <- MCAudits
    Uploadable = {a1}
    Options <- ActivationOnly
    Faults = {}
    MaxFaults = 1
    MaxPtx = 2
    TransferMax = 2
    Timeout = 4
    PassMax = 2
INVARIANTS
    NextPtxAccepted
