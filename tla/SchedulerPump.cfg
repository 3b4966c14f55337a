SPECIFICATION FairSpec
CONSTANTS
  NumRuns = 2
  PageSize = 1
  MaxWork = 1
  MaxTargets = 2
  MaxChanges = 1
  MaxErrors = 1
CHECK_DEADLOCK FALSE
INVARIANTS
  TypeOK
  NoLostWakeup
  NoLostCancellation
PROPERTIES
  StepsAreTaken
  LanesComeToRest
