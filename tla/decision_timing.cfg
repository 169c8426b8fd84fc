\* Two invocations, refused messages of every kind, deadlines and expiring nonces.
SPECIFICATION Spec
CONSTANTS
    c1 = c1
    c2 = c2
    c3 = c3
    r1 = r1
    r2 = r2
    n1 = n1
    n2 = n2
    None = None
    Calls = {c1, c2}
    Nonces = {n1, n2}
    RequestIds = {r1, r2}
    Bodies <- MCBodies
    Messages <- MixedMessages
    MaxClockSkew = 1
    LambdaTimeout = 3
    MaxClock = 4
    ResponseTtl = 2
    DecisionDeadline = 2
    LlmTimeout = 1
    LlmReserve = 1
    KeyFetchMax = 1
    ShadowMode = FALSE
SYMMETRY Symmetry
INVARIANTS
    DecisionsAreTraceable
    LlmVerdictInTime
PROPERTIES
    NoReplayInWindow
CHECK_DEADLOCK FALSE
