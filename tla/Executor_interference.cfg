SPECIFICATION Spec
CONSTANTS
    Nodes = {"n1", "n2"}
    Pods <- SmallPods
    Owners <- SmallOwners
    OwnerOf <- SmallOwnerOf
    Stateful = {}
    Replicas <- SmallReplicas
    MinAvailable <- SmallMinAvailable
    Slots = 3
    Readiness = "Ready"
    Protected = {}
    InitialOn <- SmallInitialOn
    MayBeCordoned = {}
    EnvFaults = {"delete", "uncordon", "remove"}
    NoNode = "none"
    MaxNodesPerRun = 2
    MinReadyNodes = 1
    AllowRed = FALSE
    RunModes = {"converge"}
    DryRuns = {FALSE}
    Ratings = {"Yellow"}
    MaxRounds = 2
    Faults = {"settle", "api"}
    NoPod = "nopod"
INVARIANTS CordonAccounted NoSecondVisit
PROPERTIES EvictsFromTargetOnly
CHECK_DEADLOCK FALSE
