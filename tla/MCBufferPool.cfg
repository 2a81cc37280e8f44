CONSTANTS
    PoolSize = 2
    Fd = {f1}
    MaxPage = 3
    MaxFree = 4
    Client = {c1, c2}
    Value = {v1, v2}
    Zero = Zero
    Gone = Gone
SPECIFICATION PoolSpec
INVARIANTS PinnedStable PinExact NoLostWrite
PROPERTY ImplementsStore
