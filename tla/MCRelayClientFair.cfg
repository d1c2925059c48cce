CONSTANTS
    p1 = p1
    p2 = p2
    q = q
    s = s
    e1 = e1
    e2 = e2
    f = f
    u = u
    NoTask = NoTask
    Publishers = {p1}
    Queriers = {q}
    Subscribers = {s}
    Events = {e1, e2}
    EventOf <- OnlyP1
    Forged = {}
    Unreadable = {}
    Foreign = {e2}
    Blocked = {}
    Preloaded = {}
    AuthRequired = TRUE
    MaxConns = 2
    MaxAttempts = 2
    MaxCalls = 2
SPECIFICATION FairSpec
PROPERTIES
    CallsReturn
    GiveUpReleases
    EventsReachSubscribers
    SubscriptionOpens
CHECK_DEADLOCK FALSE
