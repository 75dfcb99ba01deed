SPECIFICATION Spec
CONSTANTS
    NthrMax = 4
    Problems <- MCProblems
    Avx512 = TRUE
    Um = 1
    Un = 1
    Veclen = 2
    AlignK = 2
    BlockM = 2
    BlockN = 2
    BlockK = 6
    KBLK = 1
    MPadd = 2
    KPadd = 3
INVARIANTS TypeOK ResultComplete SharedBlockWhole NothingLeaks
PROPERTIES DriverReturns
