SPECIFICATION EngineSpec
CONSTANTS
  Runs = {r1, r2}
  Checks = {c1}
  MaxConcurrent = 1
  MaxCandidates = 1
  MaxAttempts = 1
  None = None
INVARIANTS OwnClient
CHECK_DEADLOCK FALSE
