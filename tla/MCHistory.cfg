CONSTANTS
    Threshold = 6
    Durations = {0, 1, 2, 4, 8}
    Half = 50
    Thresh = 30
    MaxEvents = 5
SPECIFICATION FairHistorySpec
INVARIANTS
    SumsMatchEvents
    OnlySleepersAreInteractive
PROPERTIES
    ImplementsWindow
    TrimEnds
CHECK_DEADLOCK FALSE
