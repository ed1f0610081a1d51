SPECIFICATION Spec
CONSTANTS
    NoNode = 0
    NoPlan = NoPlan
    Clusters <- MCClusters
    OptionSets <- MCOptions
    ExcludeNodeLabels = {"role"}
    ExcludeNamespaces = {"kube-system"}
    YellowPodsMoved = 2
    RedPodsMoved = 3
    TightPDBHeadroom = 1
INVARIANTS PreflightAgrees
CHECK_DEADLOCK FALSE
