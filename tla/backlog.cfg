SPECIFICATION OrderSpec
CONSTANTS
  Size = 3
  Cap = 2
INVARIANTS
  DependenciesFirst
  CutKeepsDependencies
CHECK_DEADLOCK FALSE
