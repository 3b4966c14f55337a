SPECIFICATION Spec
CONSTANT Configs <- SafeConfigs
INVARIANTS
    TypeOK OneRunInFlight OccurrencesInOrder LostPrecheckNotRepeated
    LimitHolds
PROPERTIES
    LaunchesAreSafe OwnersKeepTargets
CHECK_DEADLOCK FALSE
