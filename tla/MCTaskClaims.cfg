CONSTANTS
    t1 = t1
    m1 = m1
    m2 = m2
    e1 = e1
    i1 = i1
    i2 = i2
    Terminals = {t1}
    Messages = {m1, m2}
    Islands = {i1, i2}
    Epics = {e1}
    TerminalOf <- MCTerminalOf
    EpicOf <- MCEpicOf
    Callers = {}
    Stray = Stray
    NoTask = NoTask
    NoIsland = NoIsland
    NoEpic = NoEpic
    MaxWire = 2
SYMMETRY MCSymmetry
SPECIFICATION ClaimSpec
INVARIANTS
    ClaimTypeOK
    GatesAgree
    ReceiptsAreNumbered
PROPERTIES
    OnlyTheOwnerEndsAClaim
    ReceiptsAreEarned
