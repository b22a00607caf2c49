SPECIFICATION Spec
CONSTANTS
    router = router
    monitor = monitor
    info = info
    Router = router
    Clients = {router, monitor, info}
    MaxInbox <- Two
    PlatformMessages <- MCPlatformMessages
    ComponentMessages <- MCComponentMessages
    Failing = {router, monitor}
    Restarting = {router, monitor}
    Witnesses = {monitor, info}
INVARIANTS
    TypeOK
    NoEcho
    StatusesAlternate
    LastStatusIsCurrent
