CONSTANTS
    a = a
    b = b
    Keys <- MCKeys
    NoKey = NoKey
    Readers = {r}
    EventKinds = {1}
    Times = {1}
    Conditions <- MCConditions
    KindMax = 1
    CreatedAtMax = 1
    IntMax = 2
    Garbage = Garbage
    NotHex = NotHex
    Short = Short
    MaxGrants = 2
    MaxEvents = 1
    MaxRevocations = 2
SYMMETRY Symmetry
SPECIFICATION Spec
INVARIANTS
    AttestedMeansGranted
    KeptIffTrustworthy
PROPERTY NothingTakenBack
CHECK_DEADLOCK FALSE
