CONSTANTS
    NULL = NULL
    EnvironP = EnvironP
    CallerEnvp = CallerEnvp
    Garbage = Garbage
    ArgCounts = {0, 1, 2, 126, 127, 128, 129, 255, 256, 257}
    MaxGrowFail = 2
SPECIFICATION Spec
INVARIANTS
    TypeOK
    ArgvCollected
