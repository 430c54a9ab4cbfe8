SPECIFICATION FairSpec
CONSTANTS
    NoKey = NoKey
    NoGroup = NoGroup
    Kind <- FreeKind
    KeyOf <- FreeKeyOf
    GroupOf <- FreeGroupOf
    MaxAttempts <- FreeMaxAttempts
    VT = 2
    Lag <- Now
    RunAt <- Now
    DeferDelay <- Now
    RetryTicks <- ShortRetry
    Concurrency = 1
    MaxRequests = 2
    MaxDefers = 1
    MaxSteps = 0
    Process = {p, q}
    HeartbeatEvery = 1
    MaxStall = 0
    MaxFaults = 1
    MaxShutdowns = 1
PROPERTIES
    RequestSettles
    ShutdownEnds
