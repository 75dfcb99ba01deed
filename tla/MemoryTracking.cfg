SPECIFICATION Spec
CONSTANTS
    Builds = {"release", "underflow", "overflow"}
    PageSize = 4
    ProtectPages = 1
    DefaultAlignment = 2
    MaxKey = 3
    MaxPrefix = 3
    KeyWrap = 81
    Bases = {0, 1, 2, 3, 4, 5, 6, 7}
    Sizes = {0, 3, 4}
    DataAligns = {1, 2}
    PerfAligns = {8}
    MaxBooked = 2
    MaxInner = 1
INVARIANTS
    LedgersKept
    SlicesDisjoint
    SlicesAligned
    GuardsClear
    NestedInside
    KeysDistinct
CHECK_DEADLOCK FALSE
