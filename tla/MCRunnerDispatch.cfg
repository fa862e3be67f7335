CONSTANTS
    t1 = t1
    m1 = m1
    m2 = m2
    i1 = i1
    Runner = Runner
    Stray = Stray
    NoTask = NoTask
    NoIsland = NoIsland
    NoEpic = NoEpic
    Terminals = {t1}
    Messages = {m1, m2}
    Islands = {i1}
    Epics = {}
    TerminalOf <- MCTerminalOf
    EpicOf <- MCEpicOf
    Callers = {Runner}
    MaxWire = 0
    Home = i1
    Listed = {m1, m2}
    InitialUnread = {m1, m2}
    Quarantine = FALSE
    MaxAttempts = 1
    Outcomes = {"started", "refused", "permanent", "threw", "marker"}
    MaxLaunches = 1
    MaxFaults = 1
    MaxStarts = 1
SYMMETRY MCSymmetry
SPECIFICATION Spec
INVARIANTS
    DispatchTypeOK
    SessionHoldsClaim
    DrainedClaimsAreBacked
CHECK_DEADLOCK FALSE
