SPECIFICATION Spec
CONSTANTS
  f1 = f1
  f2 = f2
  f3 = f3
  csp = csp
  weak = weak
  root = root
  api = api
  admin = admin
  None = None
  Fingerprints = {f1, f2, f3}
  Causes = {csp, weak}
  Endpoints = {root, api, admin}
  MaxFindings = 4
  Pool <- MCPool
INVARIANTS NothingLost ClusterFaithful EndpointsComplete EvidenceKept
CHECK_DEADLOCK FALSE
