CONSTANTS
    Values = {v1, v2, v3}
    NoValue = noValue
    Capacity = 4
SPECIFICATION FairSpec
INVARIANTS
    NoRecordRace
PROPERTIES
    ImplementsFifo
    OldestIsDelivered
CHECK_DEADLOCK FALSE
