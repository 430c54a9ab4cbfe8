SPECIFICATION RecSpec
CONSTANTS
    Session = {s, t}
    User = {1}
    Level = {x}
    Type = {0}
    Time = {1}
    None = None
    MaxRecords = 1
    MaxPeriod = 0
    Background = {"persist", "reset"}
PROPERTIES
    ResetSparesActive
CHECK_DEADLOCK FALSE
