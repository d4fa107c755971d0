CONSTANTS
    a1 = a1
    a2 = a2
    b1 = b1
    c1 = c1
    N = 2
    Tasks = {a1, a2, b1, c1}
    FirstTasks <- ThreeFirst
    NextTasks <- Chains
    AsyncTasks = {a2}
    MayFail = {b1, a2}
    NoTask = noTask
    MaxTasksToSteal = 2
    LaneRoom = 1
    DaemonRequests = 1
    AllToFirst = FALSE
SPECIFICATION FairSpec
INVARIANTS
    NoTaskLostOrDuplicated
    StealIsSafe
    CountersMatchLanes
    OneRequestAtATime
    InProcessMatchesRequests
PROPERTIES
    ImplementsLifecycle
    RequestIsAnswered
    DonationIsAccepted
    AllTasksAreExecuted
CHECK_DEADLOCK FALSE
