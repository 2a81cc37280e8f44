CONSTANTS
    PoolSize = 2
    Fd = {f1}
    MaxPage = 2
    MaxFree = 2
    Client = {c1, c2}
    Value = {v1}
    Zero = Zero
    Gone = Gone
SPECIFICATION Spec
SYMMETRY Symmetry
INVARIANTS
    FramesInv
    NoFrameLost
