SPECIFICATION HistorySpec
CONSTANTS
    k1 = k1
    k2 = k2
    k3 = k3
    c1 = c1
    c2 = c2
    a1 = a1
    Keys <- MCKeys
    Nested <- MCNested
    Careless = {k1}
    NoPrim = NoPrim
    SizeWrap = 8
    NoThread = NoThread
    Creators = {c1}
    Admins = {}
    Capacities = {2}
    MaxCalls <- MCTwoCalls
INVARIANT CachedAreWhole
