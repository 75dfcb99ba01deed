SPECIFICATION Spec
CONSTANTS
    MVL = 3
    MB = 1
    OC = 2
    Shapes <- MCShapes
    Levels = {0, 1, 2}
    Lowest = 0
    Unset = Unset
    NthrMax = 2
INVARIANTS TypeOK ForwardRight MaxGradientRouted MeanGradientSpread
