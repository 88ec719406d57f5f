CONSTANTS
    Tasks <- OneRun
    Groups = {"A"}
    Pools = {"local"}
    Group <- MCGroup
    Pool <- MCPool
    Place <- MCPlace
    Dependencies <- MCDependencies
    SoftDependencies <- MCSoftDependencies
    Limits <- MCLimitOne
    NoTask = NoTask
SPECIFICATION FairQueueSpec
INVARIANTS
    RunAfterHardDependencies
    RunOrNotifyNotBoth
    NoLostWakeup
    SlotsAreExact
PROPERTIES
    EveryTaskSettles
CHECK_DEADLOCK FALSE
