CONSTANTS
    N = 2
    MaxTasksToSteal = 10
    LaneRoom = 2
    MaxCount = 3
    MayDie = {}
SPECIFICATION FairSpec
PROPERTIES
    RoundsEnd
