CONSTANTS
    t1 = t1
    t2 = t2
    Session <- TwoSessions
    SlotsPerPage = 2
    MaxPages = 3
    MaxRows = 3
    MaxRollbacks = 1
    MaxKills = 1
SPECIFICATION Spec
INVARIANTS
    HeadersTrue
    RowsKept
    ScanVisitsAll
    InsertPlaced
    PinsReturned
CHECK_DEADLOCK FALSE
