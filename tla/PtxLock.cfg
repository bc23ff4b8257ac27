SPECIFICATION UploadSpec
CONSTANTS
    Request = {r1, r2, r3}
    Content = {c1}
    Locking = {"synthetic"}
    MaxBreaks = 0
    Size = 2
    NoLock = NoLock
    Nobody = Nobody
INVARIANTS
    UploadsCounted
CHECK_DEADLOCK FALSE
