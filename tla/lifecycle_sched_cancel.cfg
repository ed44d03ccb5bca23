SPECIFICATION Spec
CONSTANTS
  MaxScans = 1
  Drivers = {d1}
  Requests = {r1, r2}
  Ops <- TriggerRoute
  Faults = FALSE
  None = None
PROPERTIES CancelledIsTerminal
CHECK_DEADLOCK FALSE
