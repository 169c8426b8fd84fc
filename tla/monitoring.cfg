\* One EA's events and heartbeats, resent, reordered and raced by two invocations.
SPECIFICATION Spec
CONSTANTS
    c1 = c1
    c2 = c2
    c3 = c3
    ea = ea
    e1 = e1
    n1 = n1
    n2 = n2
    None = None
    Calls = {c1, c2}
    Nonces = {n1, n2}
    Sources = {ea}
    EventIds = {e1}
    Bodies <- MCBodies
    Messages <- MixedMessages
    MaxClockSkew = 1
    LambdaTimeout = 1
    MaxClock = 3
SYMMETRY Symmetry
INVARIANTS
    TypeOK
    EventsStoredOnce
    CountedOnce
    LatestHeartbeatIsNewest
    StoppedEaFallsSilent
PROPERTIES
    EventsAppendOnly
CHECK_DEADLOCK FALSE
