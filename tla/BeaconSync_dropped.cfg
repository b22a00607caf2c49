SPECIFICATION Spec
CONSTANTS
    beacon = beacon
    other = other
    lower = lower
    upper = upper
    foreign = foreign
    None = None
    Beacon = beacon
    Devices = {beacon}
    MaxReports = 2
    Serials = {lower, upper, foreign}
    Accepted = {lower, upper}
    AdvertisedSerial = lower
    Faults = {"loss"}
PROPERTY AcceptedIsSynced
