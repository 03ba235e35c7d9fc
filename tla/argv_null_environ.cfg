CONSTANTS
    NULL = NULL
    EnvironP = EnvironP
    CallerEnvp = CallerEnvp
    Garbage = Garbage
    ArgCounts = {0, 1, 2}
    MaxGrowFail = 0
SPECIFICATION Spec
INVARIANTS
    EnvpPassed
