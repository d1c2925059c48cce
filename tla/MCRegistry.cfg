CONSTANTS
    t1 = t1
    t2 = t2
    p1 = p1
    p2 = p2
    k = k
    s = s
    Names <- MCNames
    Others <- MCOthers
    Templates <- MCTemplates
    Keys <- MCKeys
    Publishers <- MCPublishers
    Versions <- MCVersions
    DefaultVersion <- MCDefault
    Summaries <- MCSummaries
    Shas <- MCShas
    Times = {0, 1}
    Linkages <- MCLinkages
    None = None
    NoReadme = NoReadme
    OtherPointers <- MCOtherPointers
    MaxOthers = 1
    RefLength = 2
SYMMETRY Symmetry
SPECIFICATION Spec
INVARIANTS
    TypeOK
    PointerResolves
    OneEventPerRelease
    CurrentIsNewest
    PublishedIsReadable
PROPERTY LinkageIsStable
CHECK_DEADLOCK FALSE
