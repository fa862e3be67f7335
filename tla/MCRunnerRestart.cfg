CONSTANTS
    t1 = t1
    m1 = m1
    m2 = m2
    i1 = i1
    Runner = Runner
    Stray = Stray
    NoTask = NoTask
    NoIsland = NoIsland
    NoEpic = NoEpic
    Terminals = {t1}
    Messages = {m1}
    Islands = {i1}
    Epics = {}
    TerminalOf <- MCTerminalOf
    EpicOf <- MCEpicOf
    Callers = {Runner}
    MaxWire = 0
    Home = i1
    Listed = {}
    InitialUnread = {}
    Quarantine = TRUE
    MaxAttempts = 2
    Outcomes = {"started"}
    MaxLaunches = 2
    MaxFaults = 1
    MaxStarts = 2
SPECIFICATION FairSpec
INVARIANTS
    RetriesAreBounded
PROPERTIES
    GrantIsSingleUse
    DrainEnds
CHECK_DEADLOCK FALSE
