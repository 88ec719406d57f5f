SPECIFICATION MCSpec
CONSTANTS
    Parts = {"registry", "stream", "dispatch", "cron"}
    Agents = {a1, a2}
    Flaky = {a1}
    MaxFaults = 1
    Writers = {w1, w2}
    MaxEvents = 3
    MinBuffer = 1
    Slack = 1
    MaxBreaks = 1
    BreaksAllowed = TRUE
    CronClients = {c1}
    Firings = 1
    Targets = 2
    MaxEdits = 3
    MaxRestarts = 1
INVARIANT
    SubscriptionExact
PROPERTIES
    RegistryFollowsAgents
    EventsReachViewer
    DirectDispatchFaithful
    CronReportsHonest
CHECK_DEADLOCK FALSE
