SPECIFICATION McpSpec
CONSTANTS
    Callers = {c1}
    NoCaller = none
    Slots <- TwoSlots
    Tools <- TokenTools
    Calls <- TokenCalls
    Capacity = 1
    MaxAir = 1
    MaxLinks = 1
    LogCapacity = 1
INVARIANTS
    McpTypeOK
    WritesConfirmed
PROPERTIES
    ImplementsClient
    LogHonest
