SPECIFICATION LayoutSpec
CONSTANTS
    Procs = {p1, p2, p3}
    NumDirs = 3
    TempDir = 2
SYMMETRY Symmetry
INVARIANTS OpenedIsComplete InitializedStays
PROPERTY ForeignStoreKept
