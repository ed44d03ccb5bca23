SPECIFICATION EngineSpec
CONSTANTS
  Runs = {r1}
  Checks = {c1}
  MaxConcurrent = 1
  MaxCandidates = 1
  MaxAttempts = 3
  None = None
INVARIANTS CancelKeepsFindings
CHECK_DEADLOCK FALSE
