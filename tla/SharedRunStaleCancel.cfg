CONSTANTS
  first = first  second = second
  h1 = h1  h2 = h2
  CircuitBreaker = 2
  StartupLimit = 2
  Configs <- Late
SPECIFICATION Spec
PROPERTY StaleCancelChangesNothing
