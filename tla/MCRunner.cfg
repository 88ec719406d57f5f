SPECIFICATION MCSpec
CONSTANTS
    Steps = {s1, s2}
    Shapes <- MCShapes
    DaemonFails = TRUE
    LoadPlans <- MCLoadPlans
    Latencies = {99, 105, 109, 1049, 12500}
    Totals = {0, 1, 13}
INVARIANTS
    EveryBoxHasAnOwner
    ReleasedLeavesNothing
    PassedMeansRan
    LoadVerdictSound
PROPERTIES
    ServiceStaysUp
CHECK_DEADLOCK FALSE
