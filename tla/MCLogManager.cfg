CONSTANTS
    Session = {s1, s2}
    Capacities = {5, 9}
    FixedLen = 1
    ValueLen = 1
    MaxLsn = 3
    MaxRun = 2
    Nobody = Nobody
SPECIFICATION Spec
SYMMETRY Symmetry
INVARIANTS
    LogInv
    LogFirst
    NeverStuck
CHECK_DEADLOCK FALSE
