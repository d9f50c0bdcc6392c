SPECIFICATION Spec
CONSTANTS
    Callers = {c1, c2}
    NoCaller = none
    Slots <- TwoSlots
    Calls <- ProfileCalls
    Capacity = 1
    MaxAir = 1
    MaxLinks = 2
INVARIANTS
    TypeOK
    RequestsSerialized
    ProfileUnbroken
    MaskedSlotsStopped
    NoStaleNotification
PROPERTIES
    ProfileReportHonest
    ProfileSettles
SYMMETRY CallerSymmetry
