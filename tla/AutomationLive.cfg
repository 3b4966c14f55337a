SPECIFICATION LiveSpec
CONSTANT Configs <- LiveConfigs
PROPERTIES EveryRunEnds DueOccurrencesAreClaimed
CHECK_DEADLOCK FALSE
