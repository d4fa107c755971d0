CONSTANTS
    Tasks = {t1, t2, t3}
    NInteractive = 2
    NBatch = 4
    Priorities <- AllButLowest
    Increments <- AnyIncrement
SPECIFICATION FairSpec
INVARIANTS
    QueuesAgree
PROPERTIES
    InteractiveFirst
    SearchEnds
    HigherPriorityFirstAtFirst
    StarvesOnlyByJoiners
