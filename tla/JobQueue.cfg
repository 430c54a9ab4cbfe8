SPECIFICATION FairSpec
CONSTANTS
    NoKey = NoKey
    NoGroup = NoGroup
    Kind <- MixedKind
    KeyOf <- MixedKeyOf
    GroupOf <- MixedGroupOf
    MaxAttempts <- MixedMaxAttempts
    VT = 1
    Lag <- Now
    RunAt <- Now
    DeferDelay <- Now
    RetryTicks <- ShortRetry
    Concurrency = 2
    MaxRequests = 3
    MaxDefers = 1
    MaxSteps = 1
INVARIANTS
    
    ActiveExclusive
    LiveReceiptsExclusive
    NoRequestLost
    KeyOrder
PROPERTIES
    SupersededByLatest
    RequestSettles
