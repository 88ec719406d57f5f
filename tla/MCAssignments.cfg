CONSTANTS
    Steps = {"db"}
    Releases = {"release"}
    ReleaseOf <- MCReleaseOf
    Slots = {"s1", "s2"}
    TTL = 2
    NoJob = NoJob
    Unreliable = TRUE
    MaxCrashes = 1
    MaxRestarts = 1
SPECIFICATION Spec
INVARIANTS
    RunByOne
    SuccessIsEarned
PROPERTIES
    ResultFinal
