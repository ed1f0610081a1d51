SPECIFICATION Spec
CONSTANTS
    NoNode = 0
    NoPlan = NoPlan
    Clusters <- MCClusters
    OptionSets <- MCOptions
    ExcludeNodeLabels = {"role"}
    ExcludeNamespaces = {"kube-system"}
    YellowPodsMoved = 2
    RedPodsMoved = 3
    TightPDBHeadroom = 1
INVARIANTS
    TypeOK
    IndexIsRecount
    PlanIsFeasible
    DrainedStayEmpty
    
    StableUnderRelist
    PlanAgreesWithAnalysis
    ReportsAgree
    
    QueueIsActionable
CHECK_DEADLOCK FALSE
