SPECIFICATION PoliteSpec
CONSTANTS
  MaxScans = 2
  Drivers = {d1, d2}
  Requests = {r1, r2}
  Ops <- ScanRoutes
  Faults = TRUE
  None = None
SYMMETRY Symmetry
INVARIANTS CancelCanReach
PROPERTIES StatusMachine
CHECK_DEADLOCK FALSE
