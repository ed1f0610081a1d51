SPECIFICATION Spec
CONSTANTS
    Nodes <- MCNodes
    Pods <- SmallPods
    Owners <- SmallOwners
    OwnerOf <- SmallOwnerOf
    Stateful = {}
    Replicas <- SmallReplicas
    MinAvailable <- SmallMinAvailable
    Slots = 3
    Readiness = "Ready"
    Protected = {}
    InitialOn <- SmallInitialOn
    MayBeCordoned = {}
    EnvFaults = {"evict", "cordon"}
    NoNode = "none"
    MaxNodesPerRun = 2
    MinReadyNodes = 1
    AllowRed = FALSE
    RunModes = {"steps"}
    DryRuns = {FALSE}
    Ratings = {"Yellow"}
    MaxRounds = 2
    Faults = {"api", "reply", "settle", "crash", "store"}
    NoPod = "nopod"
INVARIANTS BudgetKept DrainedIsEmpty
CHECK_DEADLOCK FALSE
