CONSTANTS
    Tasks <- Short
    Groups = {"run1"}
    Pools = {"local"}
    Group <- MCGroup
    Pool <- MCPool
    Place <- MCPlace
    Dependencies <- MCDependencies
    SoftDependencies <- MCSoftDependencies
    DependsOn <- MCDependsOn
    OnFailure <- MCOnFailure
    ContinueOnFailure = {}
    Remote = {"primary"}
    KubeServices = {}
    Lapsing = {}
    MaxBoots = 1
    MaxStored = 2
    Stoppable = FALSE
    DrainTimesOut = FALSE
    Limits <- MCLimits
    NoTask = NoTask
SPECIFICATION Spec
INVARIANTS
    ActivatedHandlerRuns
CHECK_DEADLOCK FALSE
