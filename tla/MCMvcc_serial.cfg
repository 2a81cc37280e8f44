SPECIFICATION SerialSpec
CONSTANTS
    Txn = {ddl, t1, t2, t3, t4}
    DdlTxn = ddl
    NoTxn = NoTxn
    StartTs = 0
    Table = {student}
    Slots = 1
    MaxStmt = 2
    Wide = FALSE
SYMMETRY Symmetry
INVARIANTS
    SnapshotRows
    NoLostUpdate
CHECK_DEADLOCK FALSE
