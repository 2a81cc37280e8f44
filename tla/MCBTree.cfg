CONSTANTS
    Key <- MCKey
    MaxSize = 4
    MaxDeletes = 1
SPECIFICATION Spec
INVARIANTS
    TreeInv
    EntriesMatchRows
    ScanComplete
    DamageConfined
CHECK_DEADLOCK FALSE
