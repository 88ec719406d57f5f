SPECIFICATION MCSpec
CONSTANTS
    Executions = {e1, e2}
    MaxChanges = 2
    MaxSaveFaults = 1
    HostRuns = {h1}
    AgentRuns = {r1}
    ClusterRuns = {p1}
    Pids = {1, 2}
    MaxRuns = 2
    MaxTrouble = 1
    Emails = {m1}
    AuthRequests = {q1, q2}
    MaxSessions = 2
    MaxStoreFaults = 1
    People = {m1, m2}
    ResetCalls = {z1, z2}
    MaxLinks = 3
    Callers = {k1, k2}
    Limit = 3
    Failures = 2
    Window = 2
    MaxTime = 3
    Tabs = {t1, t2}
    Pages = {"/a", "/b"}
    MaxLogins = 2
    MockSuites = {s1, s2}
    MockCalls = {c1, c2}
    StateKeys = {key1, key2}
    MaxLives = 2
    MaxInvokes = 3
    ControlPlaneHost = "10.0.2.2"
    StepLease = 8
    LeastLease = 60
    PluginSuites <- MCPluginSuites
    MaxNodes = 3
    Shown = {x1}
    Nodes = {n1, n2}
    Syncs = {y1, y2}
    ChannelSize = 1
    MaxSyncs = 3
INVARIANTS
    RecordsCatchUp
    ZombiesAreLost
    SignInSound
    ResetStartsAfresh
    HandoffSound
CHECK_DEADLOCK FALSE
