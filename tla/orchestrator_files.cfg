SPECIFICATION Spec
CONSTANTS
  None = None
  Runs = {"r1", "r2", "r3"}
  Events = {"e1", "e2", "e3"}
  Rejected = {"e3"}
  eventOf <- McEventOf
  RunIds = {"run_1", "run_3"}
  sanitized <- McSanitized
  Paths = {"p1"}
  snapshotPath <- OnePath
  GitHubRuns = {"r1", "r2"}
  SingleWriter = TRUE
CHECK_DEADLOCK FALSE
INVARIANTS TypeOK NoTransitionIsRefused FileTellsTheTruth SnapshotIsClosed ReadsBackItsOwn
  OnePrPerEvent
PROPERTIES FileChangesByRename
