CONSTANTS
    Tasks = {t1, t2}
    NInteractive = 1
    NBatch = 4
    Priorities <- BatchButLowest
    Increments <- AnyIncrement
SPECIFICATION Spec
PROPERTIES
    HigherPriorityFirst
