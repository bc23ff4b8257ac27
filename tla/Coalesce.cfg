SPECIFICATION PASpec
CONSTANTS
    Leader = L
    Subs = {s1, s2}
    Ops = {"READ", "CREAT", "UNLINK"}
    Paths = {1, 2}
    Times = {1000, 1500, 2000}
    Roundoff = 1000
    MaxPAs = 3
INVARIANTS PATypeOK LastModificationWins MergeOrderIrrelevant WritesInOrder
CHECK_DEADLOCK FALSE
