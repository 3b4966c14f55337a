SPECIFICATION Spec
CONSTANT Configs <- ManualConfigs
PROPERTY ManualRunsNeverBlock
CHECK_DEADLOCK FALSE
