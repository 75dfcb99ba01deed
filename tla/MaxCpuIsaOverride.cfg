SPECIFICATION IsaSpec
CONSTANTS
    t1 = t1
    t2 = t2
    Isas = {sse41, avx2}
    EnvIsa = avx2
    NoIsa = isa_any
    Callers <- MCCallers
    MaxCalls = 1
INVARIANT UserOverridesEnvironment
