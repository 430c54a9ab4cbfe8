SPECIFICATION Spec
CONSTANTS
    Uid = {a, b}
    Content = {x}
    Playlist = {{a, b}}
    None = None
    MaxActivations = 2
    MaxUpdates = 0
    MaxLoadedAt = 1
    MaxJobs = 1
SYMMETRY Symmetry
INVARIANTS
    ActivationOwnsPending
    NoLostWaiter
PROPERTIES
    ActiveIsPlayed
    ConfirmedSinceAsked
    AbandonedNeverActive
CHECK_DEADLOCK FALSE
