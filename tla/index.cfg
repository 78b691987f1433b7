SPECIFICATION IndexSpec
CONSTANTS
  s1 = s1
  s2 = s2
  Files = {1, 2}
  Preparers <- MCPreparers
  MaxVersion = 2
  MaxMoves = 2
  MaxFaults = 2
  Keep = 2
INVARIANTS
  StoreMatchesManifest
  PassHeals
SYMMETRY Sessions
CHECK_DEADLOCK FALSE
