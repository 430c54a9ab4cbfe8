SPECIFICATION Spec
CONSTANTS
    NoKey = NoKey
    NoGroup = NoGroup
    Kind <- GroupKind
    KeyOf <- GroupKeyOf
    GroupOf <- GroupGroupOf
    MaxAttempts <- GroupMaxAttempts
    VT = 3
    Lag <- Now
    RunAt <- Now
    DeferDelay <- Now
    RetryTicks <- ShortRetry
    Concurrency = 2
    MaxRequests = 2
    MaxDefers = 0
    MaxSteps = 1
    Process = {p, q}
    HeartbeatEvery = 1
    MaxStall = 1
    MaxFaults = 1
    MaxShutdowns = 1
SYMMETRY Processes
INVARIANTS
    ExclusiveExecution
    NoOrphanedLease
PROPERTIES
    QueueSpec
