CONSTANTS
    N = 1
    MaxRuns = 1
    FileKeys = {1}
    Revocable <- NodeOneKey
    Banned = {}
    MaxFailures = 2
SPECIFICATION Spec
INVARIANT RefusedIfRevoked
