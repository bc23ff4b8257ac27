SPECIFICATION UploadSpec
CONSTANTS
    Request = {r1, r2}
    Content = {c1}
    Locking = {"database"}
    MaxBreaks = 1
    Size = 2
    NoLock = NoLock
    Nobody = Nobody
INVARIANTS
    StoredWhole
CHECK_DEADLOCK FALSE
