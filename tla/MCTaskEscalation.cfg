CONSTANTS
    k1 = k1
    c1 = c1
    c2 = c2
    Tasks = {k1}
    Ids = {1, 2, 3}
    Cycles = {c1, c2}
    NoId = NoId
    MaxRetries = 1
    MaxAsked = 1
    Cap = 0
SPECIFICATION FairSpec
INVARIANTS
    EscalationTypeOK
    EscalationIsEarned
    RootIsToldOnce
PROPERTIES
    DoneEndsTheWatch
CHECK_DEADLOCK FALSE
