SPECIFICATION MgrSpec
CONSTANTS
    Txn = {t1, t2, t3}
    NoTxn = NoTxn
    StartTs = 0
SYMMETRY Symmetry
INVARIANTS
    MgrTypeOK
    TimestampsUnique
    WatermarkSafe
    SnapshotVerdict
PROPERTY
    SnapshotFixed
CHECK_DEADLOCK FALSE
