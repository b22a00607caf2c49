SPECIFICATION FairSpec
CONSTANTS
    router = router
    monitor = monitor
    info = info
    beacon = beacon
    broken = broken
    Router = router
    MonitorBus = monitor
    InfoBus = info
    Devices = {beacon}
    Unparsable = {}
    MaxTimers = 1
    MaxReports = 1
    MaxInbox <- MonitorTwo
    Failing = {}
    Restarting = {router, monitor, info}
    Witnesses = {}
    Commands <- BothCommands
INVARIANTS
    QuietWhenOffline
PROPERTIES
    PlatformLearnsDevices
    InfoFollowsConnect
