CONSTANTS
    Tasks <- TwoRuns
    Groups = {"run1", "run2"}
    Pools = {"local"}
    Group <- MCGroup
    Pool <- MCPool
    Place <- MCPlace
    Dependencies <- MCDependencies
    SoftDependencies <- MCSoftDependencies
    DependsOn <- MCDependsOn
    OnFailure <- MCOnFailure
    ContinueOnFailure = {}
    Remote = {"primary"}
    KubeServices = {"health"}
    Lapsing = {"primary"}
    MaxBoots = 1
    MaxStored = 1
    Stoppable = TRUE
    DrainTimesOut = TRUE
    Limits <- MCOneSlot
    NoTask = NoTask
SPECIFICATION Spec
INVARIANTS
    DestroyedOnce
    PruneWhenSettled
    RunsOnGoodDependencies
CHECK_DEADLOCK FALSE
