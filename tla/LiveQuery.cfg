SPECIFICATION Spec
CONSTANTS
    MaxTracked = 1
    MaxRows = 1
    MaxPollFaults = 0
    Conn = {c, d}
    OpId = {1}
    Key = {k, l}
    older = older
    newer = newer
    long = long
    Value = {older, newer, long}
    None = None
    Size <- Lengths
    MaxResultBytes = 1
    CacheMaxBytes = 2
    MaxOperations = 2
    MaxPerConnection = 1
    MaxConcurrent = 1
    MaxPending = 2
    MaxMessages = 3
    MaxExecFaults = 1
    MaxStops = 1
SYMMETRY Symmetry
INVARIANTS
    HubConsistent
    RestIsCurrent
PROPERTIES
    PollSpec
CHECK_DEADLOCK FALSE
