SPECIFICATION Spec
CONSTANTS
    Channel = {c}
    Modulus = 6
    SendWindow = 2
    ReceiveWindow = 2
    MaxAttempts = 1
    MaxOutgoing = 1
    MaxGroups = 1
    MaxHandshakes = 2
    ChunkCounts = {7}
    MaxTransfers = 1
CHECK_DEADLOCK FALSE
INVARIANTS
    RetriedUntilAcked
