SPECIFICATION McpSpec
CONSTANTS
    Callers = {c1, c2}
    NoCaller = none
    Slots <- TwoSlots
    Tools <- GateTools
    Calls <- GateCalls
    Capacity = 1
    MaxAir = 1
    MaxLinks = 2
    LogCapacity = 1
INVARIANTS
    ReadOnlyRespected
PROPERTIES
    StopAllStopsAll
    LogHonest
SYMMETRY TaskSymmetry
