CONSTANTS
    p1 = p1
    p2 = p2
    q = q
    s = s
    e1 = e1
    e2 = e2
    f = f
    u = u
    NoTask = NoTask
    Publishers = {}
    Queriers = {}
    Subscribers = {s}
    Events = {e1}
    EventOf <- NoPublisher
    Forged = {}
    Unreadable = {}
    Foreign = {}
    Blocked = {}
    Preloaded = {}
    AuthRequired = FALSE
    MaxConns = 2
    MaxAttempts = 2
    MaxCalls = 1
SPECIFICATION FairSpec
PROPERTY AbandonedMeansReleased
CHECK_DEADLOCK FALSE
