SPECIFICATION Spec
CONSTANTS
    Threads <- Team
    Contexts <- TeamContexts
    Members <- TeamMembers
    Nthr <- TeamNthr
    NthrMb = 2
    NthrOcB = 2
    NthrIcB = 1
    Mb = 3
    SpNb = 1
    NbIc = 3
    NbOc = 2
    SpStep = 1
    SpStepMax = 1
    IcStep = 2
    IcStepMax = 2
    OcStep = 1
    OcStepMax = 1
INVARIANTS
    BarrierInv
    SourceWholeWhenRead
    GradientComplete
    BiasComplete
PROPERTIES
    BarriersHold
    TeamFinishes
