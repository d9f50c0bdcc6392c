SPECIFICATION McpFairSpec
CONSTANTS
    Callers = {c1, c2}
    NoCaller = none
    Slots <- TwoSlots
    Tools <- LiveTools
    Calls <- LiveCalls
    Capacity = 1
    MaxAir = 1
    MaxLinks = 1
    LogCapacity = 1
PROPERTIES
    ToolsAnswer
