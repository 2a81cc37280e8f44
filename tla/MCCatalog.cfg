CONSTANTS
    t1 = t1
    t2 = t2
    a = a
    b = b
    Table <- MCTable
    Index <- MCIndex
    MaxStatements = 5
    MaxStops = 2
    MaxSplits = 2
SPECIFICATION Spec
INVARIANTS
    CatalogInv
    DirectoryInv
    PagesNew
CHECK_DEADLOCK FALSE
