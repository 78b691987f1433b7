SPECIFICATION Spec
CONSTANTS
  Paths = {"core", "new", "gen", "pyc", "style", "test", "check"}
  Names <- MCNames
  File <- MCFile
  Src = {"core", "new", "gen", "pyc", "style"}
  Tests = {"test", "check", "tests/../core"}
  Known = {"core", "style", "test"}
  Unlisted = {"style"}
  Dir <- MCDir
  Held = {"src/"}
  Ignored = {"gen"}
  Noise = {"src/__pycache__/"}
  Refused = {"pyc"}
  Plans <- MCPlans
  NoPlan = NoPlan
  Tickets <- MCTickets
  MaxTries = 3
  MaxRounds = 2
  MaxAttempts = 2
  MaxStrays = 1
INVARIANTS
  NewFilesAreSeen
CHECK_DEADLOCK FALSE
