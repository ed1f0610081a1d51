SPECIFICATION Spec
CONSTANTS
    Nodes <- MCNodes
    Pods <- MCPods
    Owners <- MCOwners
    OwnerOf <- MCOwnerOf
    Stateful = {"web"}
    Replicas <- MCReplicas
    MinAvailable <- MCMinAvailable
    Slots = 3
    Readiness = "Ready"
    Protected = {}
    InitialOn <- MCInitialOn
    MayBeCordoned = {}
    EnvFaults = {"delete"}
    NoNode = "none"
    MaxNodesPerRun = 2
    MinReadyNodes = 1
    AllowRed = FALSE
    RunModes = {"drain"}
    DryRuns = {FALSE}
    Ratings = {"Green"}
    MaxRounds = 2
    Faults = {}
    NoPod = "nopod"
PROPERTIES EvictsFromTargetOnly
CHECK_DEADLOCK FALSE
