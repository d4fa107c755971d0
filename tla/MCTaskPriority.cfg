CONSTANTS
    N = 2
    Second = 48
    TickSecs = 6
    Shift = 2
    UllMod = 4096
    IntMax = 128
    PriRange = 3
    MaxNice = 1
    InteractRange = 5
    Half = 4
    Thresh = 3
    RunTimes = {0, 150, 336}
    MaxClock = 700
SPECIFICATION Spec
INVARIANTS
    PrioritiesAreInRange
PROPERTIES
    UseFitsWindow
    WindowStaysOpen
CHECK_DEADLOCK FALSE
