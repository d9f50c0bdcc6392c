SPECIFICATION Spec
CONSTANTS
    Profiles <- SomeProfiles
    ParamLists <- SomeParams
INVARIANTS
    ChargeVoltageEnforced
