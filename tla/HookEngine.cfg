SPECIFICATION FairSpec
CONSTANTS
  Plugins = {g, k}
  MayThrow = TRUE
CHECK_DEADLOCK FALSE
INVARIANTS
  RevertIffFailed
  ResultsMatchFailures
PROPERTIES
  HookSettles
  ImplementsOutcome
