\* An event id that comes back with another body and another timestamp.
SPECIFICATION Spec
CONSTANTS
    c1 = c1
    c2 = c2
    c3 = c3
    ea = ea
    e1 = e1
    n1 = n1
    n2 = n2
    None = None
    Calls = {c1, c2}
    Nonces = {n1, n2}
    Sources = {ea}
    EventIds = {e1}
    Bodies <- MCBodies
    Messages <- MixedMessages
    MaxClockSkew = 1
    LambdaTimeout = 1
    MaxClock = 3
SYMMETRY Symmetry
INVARIANTS
    EventIdNamesOneEvent
CHECK_DEADLOCK FALSE
