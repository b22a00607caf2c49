SPECIFICATION FairSpec
CONSTANTS
    bar = bar
    other = other
    Devices = {bar, other}
    BlueBars = {bar}
    MaxReports = 2
INVARIANTS
    TypeOK
    OneInCharge
    NeverDeaf
PROPERTIES
    ScanReturns
    KeepsTesting
