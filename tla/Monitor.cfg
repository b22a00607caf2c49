SPECIFICATION FairSpec
CONSTANTS
    beacon = beacon
    tag = tag
    broken = broken
    Devices = {beacon, tag, broken}
    Unparsable = {broken}
    MaxTimers = 2
    MaxReports = 2
INVARIANTS
    TypeOK
    ScanningIsStoppable
    StoppedStaysQuiet
    CachedHasTimer
PROPERTIES
    SlimAfterFull
    ImplementsFeed
    DescribedAgain
