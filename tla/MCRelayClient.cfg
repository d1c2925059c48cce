CONSTANTS
    p1 = p1
    p2 = p2
    q = q
    s = s
    e1 = e1
    e2 = e2
    f = f
    u = u
    NoTask = NoTask
    Publishers = {p1, p2}
    Queriers = {q}
    Subscribers = {s}
    Events = {e1, e2, f, u}
    EventOf <- MCEventOf
    Forged = {f, u}
    Unreadable = {u}
    Foreign = {u}
    Blocked = {e2}
    Preloaded = {f}
    AuthRequired = TRUE
    MaxConns = 2
    MaxAttempts = 2
    MaxCalls = 2
SPECIFICATION Spec
INVARIANTS
    TypeOK
    PublishedMeansStored
    QueryIsComplete
    DeliveredIsVerified
    AuthedMeansRelayAuthed
    AnswersFreshChallenge
    OneAuthenticates
    AnswersFindTheirTask
    SubscriptionNotLost
PROPERTY PortSpec
CHECK_DEADLOCK FALSE
