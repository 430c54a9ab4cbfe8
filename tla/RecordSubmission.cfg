SPECIFICATION RecSpec
CONSTANTS
    Session = {s, t}
    User = {1, 2}
    Level = {x}
    Type = {0}
    Time = {1, 2}
    None = None
    MaxRecords = 2
    MaxPeriod = 1
    Background = {"persist", "rank", "reset", "rotate"}
SYMMETRY Symmetry
INVARIANTS
    RecordsAreFastest
    WinsAccurate
    ResultsRanked
    
PROPERTIES
    FinalStays
CHECK_DEADLOCK FALSE
