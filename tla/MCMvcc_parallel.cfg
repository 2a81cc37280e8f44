SPECIFICATION Spec
CONSTANTS
    Txn = {ddl, t1, t2}
    DdlTxn = ddl
    NoTxn = NoTxn
    StartTs = 0
    Table = {student}
    Slots = 2
    MaxStmt = 2
    Wide = FALSE
SYMMETRY Symmetry
INVARIANTS
    ChainsInv
CHECK_DEADLOCK FALSE
