CONSTANTS
    t1 = t1
    m1 = m1
    m2 = m2
    i1 = i1
    Runner = Runner
    Stray = Stray
    NoTask = NoTask
    NoIsland = NoIsland
    NoEpic = NoEpic
    Terminals = {t1}
    Messages = {m1}
    Islands = {i1}
    Epics = {}
    TerminalOf <- MCTerminalOf
    EpicOf <- MCEpicOf
    Callers = {Runner}
    MaxWire = 0
    Home = i1
    Listed = {m1}
    InitialUnread = {m1}
    Quarantine = TRUE
    MaxAttempts = 1
    Outcomes = {"started"}
    MaxLaunches = 1
    MaxFaults = 0
    MaxStarts = 2
SPECIFICATION Spec
INVARIANTS
    BacklogIsNeverLaunched
CHECK_DEADLOCK FALSE
