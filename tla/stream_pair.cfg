SPECIFICATION FairStreamSpec
CONSTANTS
  MaxScans = 1
  Drivers = {d1}
  Requests = {r1}
  Clients = {c1, c2}
  MaxQueue = 2
  Ops <- OneDriver
  Faults = TRUE
  None = None
INVARIANTS EndMeansOver
PROPERTIES KeepsPromise CancelWorks
CHECK_DEADLOCK FALSE
