CONSTANTS
    N = 1
    MaxRuns = 1
    FileKeys = {}
    Revocable = {}
    Banned <- AllLifecycle
    MaxFailures = 2
SPECIFICATION FairSpec
PROPERTY AcceptableReachesRelay
