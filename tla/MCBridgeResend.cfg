CONSTANTS
    N = 2
    MaxRuns = 2
    FileKeys = {}
    Revocable = {}
    Banned = {}
    MaxFailures = 2
SPECIFICATION Spec
INVARIANT NoResend
