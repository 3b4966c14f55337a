SPECIFICATION FairSpec
CONSTANTS
  t1 = t1
  t2 = t2
  Tasks = {t1, t2}
  Empty = {t2}
  Person = Person
  None = None
  MaxEdits = 2
  MaxCommands = 3
  MaxCrashes = 2
INVARIANTS BranchIsExplained
PROPERTIES PersonalWorkIsPreserved ImplementsContract IntegrationSettles
CHECK_DEADLOCK FALSE
