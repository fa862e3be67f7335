CONSTANTS
    k1 = k1
    c1 = c1
    c2 = c2
    Tasks = {k1}
    Ids = {1, 2, 3}
    Cycles = {c1, c2}
    NoId = NoId
    MaxRetries = 2
    MaxAsked = 1
    Cap = 3
SPECIFICATION Spec
INVARIANTS
    RetriesEndInEscalation
CHECK_DEADLOCK FALSE
