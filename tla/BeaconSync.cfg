SPECIFICATION FairSpec
CONSTANTS
    beacon = beacon
    other = other
    lower = lower
    upper = upper
    foreign = foreign
    None = None
    Beacon = beacon
    Devices = {beacon, other}
    MaxReports = 2
    Serials = {lower, upper, foreign}
    Accepted = {lower, upper}
    AdvertisedSerial = lower
    Faults = {"power", "connect", "discover", "data", "loss"}
INVARIANTS
    TypeOK
    IdleMeansNothingToDo
    ScansOnlyWhenScanning
    SyncingMeansSession
PROPERTIES
    SyncEnds
    RequestIsTakenUp
