SPECIFICATION MCSpec
CONSTANTS
    Digests = {"sha"}
    Catalogs <- MCCatalogs
    ProfileInputs <- MCProfileInputs
    LaunchInputs <- MCLaunchInputs
    NameInputs <- MCNameInputs
    PlanFiles <- MCPlanFiles
    Variants = {"smoke", "constant_throughput", "constant_pacing"}
    DurationRange = 16
    MaxLoadDuration = 4
    MaxLoadUsers = 2
    MaxLoadStages = 2
    MaxLoadTasks = 2
    MaxLoadRate = 2
    Metas <- MCMetas
    Descriptions <- MCDescriptions
    MaxMetas = 3
    MaxDescriptions = 2
    Users = {u1, u2}
    MaxWrites = 2
    MaxOutages = 1
    Packages = {"a", "b", "c"}
    ImportsOf <- MCImports
    Readers = {g1, g2}
    MaxPullFailures = 1
    Releases <- MCReleases
    Files = {"perf", "qa", "local"}
    MaxProfileOps = 4
INVARIANTS
    WrittenOrderKept
    EnvironmentIsLayered
    LaunchSound
    AcceptedPlanSound
    MocksAsDescribed
    CachesFollowStores
    WarmSuitesResolved
    DefaultIsTheChosen
    ReportsCountCases
CHECK_DEADLOCK FALSE
