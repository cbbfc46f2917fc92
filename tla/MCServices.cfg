SPECIFICATION SuiteSpec
CONSTANTS
    t1 = t1
    t2 = t2
    MaxCalls = 3
    MaxNotes = 1
    Cancels = 1
    ServerMayDie = TRUE
    Base = 2
    MaxBytes = 2
    Payloads <- SmallPayloads
    MaxMessages = 3
    Launchers = {t1, t2}
    MaxDaemons = 2
    StaleAtStart = TRUE
    MayDie = TRUE
    Policy = "NoConnections"
    Events = {1, 2, 3, 4}
    Critical = {2}
    Realtime = {1}
    MemoryLimit = 1
    Configs <- Settings
    Limits = {0, 1}
    DefaultLimit = 2
    MaxCrashes = 1
    MaxRequests = 2
INVARIANTS
    EncodingsAgree
    EventsKept
PROPERTIES
    ImplementsRpc
    IpcCallsReturn
    FramesDelivered
    ServicesEnd
CHECK_DEADLOCK FALSE
