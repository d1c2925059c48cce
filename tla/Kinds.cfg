CONSTANT MaxEdits = 2
SPECIFICATION Spec
INVARIANTS
    RoundTrip
    RegistryAgrees
    SameVerdict
CHECK_DEADLOCK FALSE
