SPECIFICATION UploadSpec
CONSTANTS
    Request = {r1, r2, r3}
    Content = {c1}
    Locking = {"database", "synthetic"}
    MaxBreaks = 1
    Size = 2
    NoLock = NoLock
    Nobody = Nobody
INVARIANTS
    UploadTypeOK
    CountedOfFew
    WholeIfUnbroken
PROPERTIES
    EachAnswered
CHECK_DEADLOCK FALSE
