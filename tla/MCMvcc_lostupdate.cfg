SPECIFICATION RestartSpec
CONSTANTS
    Txn = {ddl, t1}
    DdlTxn = ddl
    NoTxn = NoTxn
    StartTs = 2
    Table = {student}
    Slots = 1
    MaxStmt = 1
    Wide = FALSE
SYMMETRY Symmetry
INVARIANT
    NoLostUpdate
CHECK_DEADLOCK FALSE
