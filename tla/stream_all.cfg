SPECIFICATION StreamSpec
CONSTANTS
  MaxScans = 1
  Drivers = {d1, d2}
  Requests = {r1}
  Clients = {c1}
  MaxQueue = 1
  Ops <- ScanAndDelete
  Faults = FALSE
  None = None
SYMMETRY Symmetry
INVARIANTS StreamFaithful SentinelLast
CHECK_DEADLOCK FALSE
