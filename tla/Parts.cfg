SPECIFICATION PartsSpec
CONSTANTS
    MaxTracked = 2
    MaxRows = 4
    MaxPollFaults = 1
    Tab = {a, b}
    Playlist = {1, 2}
    Initially = {1}
    None = None
    MaxEdits = 2
    MaxFaults = 2
    MaxMail = 2
    Player = {p}
    Publishing = {c, d}
    Capacity = 2
    Times = {1, 2}
    MaxPublished = 2
    MaxLevels = 1
    MaxFinishes = 1
INVARIANTS
    SeenIsSignalled
    SavedIsCurrent
    NewestStands
PROPERTIES
    CommitSignalled
    NoEditOverwritten
    NoEditDropped
    EditSettles
    PublisherSettles
CHECK_DEADLOCK FALSE
