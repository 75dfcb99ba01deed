SPECIFICATION PadSpec
CONSTANTS
    t1 = t1
    t2 = t2
    p1 = p1
    p2 = p2
    p3 = p3
    p4 = p4
    Threads <- MCThreads
    Prims <- MCPrims
    NoThread = NoThread
    PadSizes = {1, 2, 3}
    RefWrap = 8
    Migrating = FALSE
SYMMETRY MCSymmetry
INVARIANTS
    PadInv
    FreedWhenUnused
PROPERTY ServedUnlessLost
