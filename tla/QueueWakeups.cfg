SPECIFICATION FairSpec
CONSTANTS
    Threads = {old, new}
    Capacity = 2
    MaxPushes = 4
INVARIANTS
    TypeOK
    NoLostWakeup
    Accounted
PROPERTIES
    ImplementsFifo
