CONSTANTS
    N = 4
    MaxTasksToSteal = 3
    LaneRoom = 3
    MaxCount = 4
    MayDie = {0}
SPECIFICATION FairSpec
INVARIANTS
    RolesAreKept
PROPERTIES
    AskedOncePerPair
    RequestsAreSound
    SufficientRoundsEnd
CHECK_DEADLOCK FALSE
