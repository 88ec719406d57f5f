SPECIFICATION MCSpec
CONSTANTS
    Parts = {"cron"}
    Agents = {a1, a2}
    Flaky = {a1}
    MaxFaults = 1
    Writers = {w1, w2}
    MaxEvents = 3
    MinBuffer = 1
    Slack = 1
    MaxBreaks = 1
    BreaksAllowed = TRUE
    CronClients = {c1}
    Firings = 2
    Targets = 2
    MaxEdits = 3
    MaxRestarts = 1
PROPERTIES
    DisabledStaysDisabled
CHECK_DEADLOCK FALSE
