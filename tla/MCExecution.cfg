CONSTANTS
    Tasks <- Pipeline
    Groups = {"run1"}
    Pools = {"local"}
    Group <- MCGroup
    Pool <- MCPool
    Place <- MCPlace
    Dependencies <- MCDependencies
    SoftDependencies <- MCSoftDependencies
    DependsOn <- MCDependsOn
    OnFailure <- MCOnFailure
    ContinueOnFailure = {"lint"}
    Remote = {}
    KubeServices = {"primary", "rollback", "lint"}
    Lapsing = {}
    MaxBoots = 1
    MaxStored = 2
    Stoppable = FALSE
    DrainTimesOut = FALSE
    Limits <- MCLimits
    NoTask = NoTask
SPECIFICATION FairSpec
INVARIANTS
    StepsRunOnLiveBackend
PROPERTIES
    RefinesAbstractRun
    EveryRunEnds
    ResourcesReleased
CHECK_DEADLOCK FALSE
