SPECIFICATION FairSpec
CONSTANTS
    router = router
    monitor = monitor
    info = info
    beacon = beacon
    broken = broken
    Router = router
    MonitorBus = monitor
    InfoBus = info
    Devices = {beacon}
    Unparsable = {beacon}
    MaxTimers = 1
    MaxReports = 1
    MaxInbox <- One
    Failing = {}
    Restarting = {}
    Witnesses = {}
    Commands <- NoCommands
PROPERTY InfoOnEveryConnect
