SPECIFICATION FairEngineSpec
CONSTANTS
  Runs = {r1}
  Checks = {c1, c2, c3}
  MaxConcurrent = 2
  MaxCandidates = 1
  MaxAttempts = 3
  None = None
INVARIANTS PhaseDiscipline QuietAfterSuccess OneFinish VerdictTrue SentinelClosesQueue NoProducerLeft
PROPERTIES ScanEnds
CHECK_DEADLOCK FALSE
