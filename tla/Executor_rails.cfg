SPECIFICATION FairSpec
CONSTANTS
    Nodes <- RailsNodes
    Pods <- RailsPods
    Owners <- SmallOwners
    OwnerOf <- RailsOwnerOf
    Stateful = {}
    Replicas <- RailsReplicas
    MinAvailable <- RailsMinAvailable
    Slots = 2
    Readiness = "Ready"
    Protected = {}
    InitialOn <- RailsInitialOn
    MayBeCordoned <- RailsNodes
    EnvFaults = {"remove", "window"}
    NoNode = "none"
    MaxNodesPerRun = 2
    MinReadyNodes = 1
    AllowRed = FALSE
    RunModes = {"steps", "converge", "drain"}
    DryRuns = {TRUE, FALSE}
    Ratings = {"Yellow", "Red"}
    MaxRounds = 2
    Faults = {}
    NoPod = "nopod"
INVARIANTS TypeOK WholeBetweenSteps RailsHold
PROPERTIES EveryRoundFrees RunEnds
CHECK_DEADLOCK FALSE
