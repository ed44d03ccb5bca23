SPECIFICATION Spec
CONSTANTS
  None = None
  MaxAsks = 2
  Plans <- GateQuestions
  Limits = {2, 3}
  Lines <- Typed
  Consents <- MCConsents
  Checks = {"gate", "xss", "sqli", "cmdi", "ssrf", "traversal", "bola", "session", "graphql", "mass", "methods", "bfla", "behavior", "invalidation", "headers", "cors", "redirect", "sourcemap", "disclosure"}
  Statuses = {200, 403, 404, 429, 500}
  Targets = {"link", "form"}
  Times = {1, 30}
  Paths <- MCPaths
  MaxPrincipals = 3
  Accounts = {"admin", "alice"}
  Payloads <- MCPayloads
INVARIANTS Consent DelayEarned EscalationEarned ComparisonsMatched AskedAsClaimed
PROPERTIES KeepsContract
CHECK_DEADLOCK FALSE
