SPECIFICATION FairSpec
CONSTANTS
    Callers = {c1, c2}
    NoCaller = none
    Slots <- TwoSlots
    Calls <- RequestCalls
    Capacity = 1
    MaxAir = 1
    MaxLinks = 1
INVARIANTS
    RepliesAttributed
PROPERTIES
    CallsReturn
