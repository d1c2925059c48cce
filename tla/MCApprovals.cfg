CONSTANTS
    r1 = r1
    r2 = r2
    alice = alice
    bob = bob
    req = req
    otherReq = otherReq
    NoEvent = NoEvent
    Readers = {r1, r2}
    Approvers = {alice, bob}
    Requests = {req, otherReq}
    Request = req
    Log <- MCLog
    Threshold = 1
    Required = {alice}
SPECIFICATION Spec
SYMMETRY ReaderSymmetry
INVARIANTS
    TypeOK
    LatestIsFinalWord
    ReadersAgree
    GateNeedsStandingApprovals
