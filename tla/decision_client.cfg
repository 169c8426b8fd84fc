\* One EA, two candidates, duplicated and lost messages, a killed Lambda.
SPECIFICATION ClientSpec
CONSTANTS
    r1 = r1
    r2 = r2
    n1 = n1
    n2 = n2
    c1 = c1
    c2 = c2
    None = None
    Calls = {c1, c2}
    Nonces = {n1, n2}
    RequestIds = {r1, r2}
    Bodies <- MCBodies
    Messages <- TwoCandidates
    ClockOffsets <- MCOffsets
    MaxClockSkew = 1
    LambdaTimeout = 4
    MaxClock = 5
    ResponseTtl = 1
    DecisionDeadline = 2
    LlmTimeout = 1
    LlmReserve = 1
    KeyFetchMax = 0
    ShadowMode = TRUE
    EaTimeout = 3
    EaMaxClockSkew = 3
    EaMaxTtl = 2
SYMMETRY Symmetry
INVARIANTS
    ClientTypeOK
    ActedAllowIsOnRecord
    ActedAllowIsFresh
CHECK_DEADLOCK FALSE
