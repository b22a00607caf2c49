SPECIFICATION FairSpec
CONSTANTS
    None = None
    ap1 = ap1
    ap2 = ap2
    t1 = t1
    t2 = t2
    t3 = t3
    Addresses = {ap1, ap2}
    Profiles <- MCProfiles
    Handles = {t1, t2}
    PassLengths <- MCPassLengths
INVARIANTS
    TypeOK
    ListMatchesTracked
    ScanHasTimer
PROPERTIES
    JoinIsCurrentAndValid
    ImplementsView
    ScanEnds
    LinkIsAnnounced
