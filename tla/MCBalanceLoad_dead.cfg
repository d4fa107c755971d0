CONSTANTS
    N = 2
    MaxTasksToSteal = 10
    LaneRoom = 3
    MaxCount = 2
    MayDie = {0}
SPECIFICATION Spec
INVARIANTS
    EnqueAssertHolds
