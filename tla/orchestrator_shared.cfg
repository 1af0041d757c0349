SPECIFICATION Spec
CONSTANTS
  None = None
  Runs = {"r1", "r2", "r4"}
  Events = {"e1", "e2", "e3"}
  Rejected = {"e3"}
  eventOf <- McEventOf
  RunIds = {"run_1", "run_3"}
  sanitized <- McSanitized
  Paths = {"p1"}
  snapshotPath <- OnePath
  GitHubRuns = {"r1"}
  SingleWriter = FALSE
CHECK_DEADLOCK FALSE
INVARIANTS ReturnsWholeSnapshot
