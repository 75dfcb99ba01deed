SPECIFICATION FairSpec
CONSTANTS
    w1 = w1
    w2 = w2
    Caller = caller
    Workers <- MCWorkers
    MaxThreads = 3
    Shapes <- MCShapes
    Kinds = {"none", "busy", "sync", "async"}
    WaiterMask = 8
    MaxCalls = 2
INVARIANTS
    CountingInv
    EachItemOnce
    BarrierOutlivesNotify
    PoolRestored
PROPERTY CallReturns
