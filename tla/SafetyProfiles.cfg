SPECIFICATION Spec
CONSTANTS
    Profiles <- SomeProfiles
    ParamLists <- SomeParams
INVARIANTS
    TypeOK
    WithinLimits
    VoltageGapsKnown
    FailuresKnown
    NickelDefaultsSuit
