SPECIFICATION FairSpec
CONSTANTS
    Handlers = {h1, h2}
    Workers = {w1, w2}
    None = None
    MaxRuns = 2
    MaxSteps = 2
    MaxTime = 2
    TicksPerSecond = 2
    Faults = {"crash", "read", "write"}
CHECK_DEADLOCK FALSE
INVARIANTS TypeOK TakenOnce OneRunPerRequest StopHonoured
PROPERTIES TerminalIsFinal ImplementsLedger UnstoppedRunsEnd
