SPECIFICATION Spec
CONSTANTS
    Keys = {k1, k2}
    baseDelay = 2
    maxDelay = 5
    MaxInt = 7
    PerToken = 2
    burst = 1
    Horizon = 6
    MaxCalls = 3
SYMMETRY KeySymmetry
INVARIANTS HeardInTime RateBounded
PROPERTY NoHotLoop
CHECK_DEADLOCK FALSE
