SPECIFICATION FairSpec
CONSTANTS
    Nodes = {"n1", "n2"}
    PlanIds = {"A", "B"}
    StepsOf <- MCStepsOf
    Ratings = {"Green", "Red"}
    Retain = 1
    Unknown = Unknown
    Faults = {"store", "crash"}
    MaxEvents = 3
INVARIANTS
    TypeOK
    AuditedPlansKept
    ExternalNeverInvented
    LatestIsCurrent
    ToldWhatIsStored
PROPERTIES
    OutcomesAreFinal
    EveryRecordResolves
