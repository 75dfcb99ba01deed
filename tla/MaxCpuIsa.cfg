SPECIFICATION IsaFairSpec
CONSTANTS
    t1 = t1
    t2 = t2
    Isas = {sse41, avx2}
    EnvIsa = avx2
    NoIsa = isa_any
    Callers <- MCCallers
    MaxCalls = 3
INVARIANTS
    IsaInv
    HardGetsAgree
PROPERTIES
    FrozenAfterGet
    CallsReturn
