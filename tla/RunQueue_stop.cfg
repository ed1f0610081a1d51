SPECIFICATION FairSpec
CONSTANTS
    Handlers = {h1, h2}
    Workers = {w1}
    None = None
    MaxRuns = 1
    MaxSteps = 1
    MaxTime = 1
    TicksPerSecond = 2
    Faults = {}
CHECK_DEADLOCK FALSE
PROPERTIES StoppedRunsEnd
