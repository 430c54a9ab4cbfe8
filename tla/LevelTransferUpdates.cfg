SPECIFICATION FairSpec
CONSTANTS
    Uid = {a}
    Content = {x}
    Playlist = {{a}}
    None = None
    MaxActivations = 2
    MaxUpdates = 1
    MaxLoadedAt = 0
    MaxJobs = 1
PROPERTIES
    PlaylistNeverGoesBack
    ActivationEnds
CHECK_DEADLOCK FALSE
