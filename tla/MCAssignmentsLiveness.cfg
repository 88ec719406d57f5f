CONSTANTS
    Steps = {"db"}
    Releases = {"release"}
    ReleaseOf <- MCReleaseOf
    Slots = {"s1"}
    TTL = 2
    NoJob = NoJob
    Unreliable = TRUE
    MaxCrashes = 1
    MaxRestarts = 0
SPECIFICATION FairSpec
PROPERTIES
    DispatchReturns
