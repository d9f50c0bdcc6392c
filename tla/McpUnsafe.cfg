SPECIFICATION McpSpec
CONSTANTS
    Callers = {c1, c2}
    NoCaller = none
    Slots <- TwoSlots
    Tools <- UnsafeTools
    Calls <- UnsafeCalls
    Capacity = 1
    MaxAir = 1
    MaxLinks = 2
    LogCapacity = 1
INVARIANTS
    OnlySafeProfiles
SYMMETRY TaskSymmetry
