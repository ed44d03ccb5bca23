SPECIFICATION Spec
CONSTANTS
  MaxScans = 1
  Drivers = {d1, d2}
  Requests = {r1, r2}
  Ops <- EveryRoute
  Faults = TRUE
  None = None
SYMMETRY Symmetry
INVARIANTS OrphansAccounted RegistrySound
CHECK_DEADLOCK FALSE
