CONSTANTS
    N = 2
    MaxRuns = 2
    FileKeys = {1}
    Revocable <- NodeOneKey
    Banned = {}
    MaxFailures = 2
SPECIFICATION FairSpec
INVARIANTS
    TypeOK
    CursorIsHonest
    NoResendOfResumedKey
    BatchHasEveryRun
    LifecycleHasAccounting
    AuthoredByItsNode
    LifecycleRefusedIfRevoked
PROPERTIES
    AccountingReachesRelay
    LifecycleReachesRelay
