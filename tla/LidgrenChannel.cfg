SPECIFICATION TimelyFairSpec
CONSTANTS
    Channel = {c}
    Modulus = 6
    SendWindow = 2
    ReceiveWindow = 2
    MaxAttempts = 2
    MaxOutgoing = 2
    MaxGroups = 1
    MaxHandshakes = 2
    ChunkCounts = {1, 4}
    MaxTransfers = 2
INVARIANTS
    RetriedUntilAcked
    
PROPERTIES
    Ordered
    SendSettles
    ConnectionSettles
CHECK_DEADLOCK FALSE
