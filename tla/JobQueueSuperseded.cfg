SPECIFICATION Spec
CONSTANTS
    NoKey = NoKey
    NoGroup = NoGroup
    Kind <- OneKind
    KeyOf <- OneKeyOf
    GroupOf <- OneGroupOf
    MaxAttempts <- OneMaxAttempts
    VT = 1
    Lag <- NowOrLater
    RunAt <- Now
    DeferDelay <- Now
    RetryTicks <- ShortRetry
    Concurrency = 2
    MaxRequests = 2
    MaxDefers = 0
    MaxSteps = 0
PROPERTIES
    SupersededByLatest
