SPECIFICATION ThreadSpec
CONSTANTS
    Thread = {t1, t2}
    Nobody = Nobody
    MaxRecords = 2
    MaxCalls = 3
INVARIANTS
    ThreadTypeOK
    NotLostNorDuplicated
PROPERTIES
    WrappersReturn
CHECK_DEADLOCK FALSE
