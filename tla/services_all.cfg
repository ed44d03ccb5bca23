SPECIFICATION Spec
CONSTANTS
  Urls <- MCUrls
  StartUrl = "start"
  RobotsUrl = "robots"
  Closed = {"off"}
  SiteLinks <- MCSites
  Rules <- MCRules
  PageCaps = {0, 2}
  MaxDepth = 3
  BudgetCap = 3
  ProbeBodies <- MCProbes
  ReplayCap = 3
  ReplayBodies <- MCReplays
  ReplayAnswers <- MCAnswers
  Keys = {"k1", "k2", "k3"}
  Installed = {"k1"}
  Callers = {"c1"}
  MaxClock = 1
  MaxLogins = 1
  Ttl = 0
  SchedIds = {1, 2}
  SchedReqs = {"r1", "r2", "r3", "r4"}
  Hosts = {"target", "other"}
  PathClasses = {"/app", "/private", "/delete"}
  DestructivePaths = {"/delete"}
  MostRedirects = 2
  Pages <- MCPages
  Visits <- MCVisits
  Seeds <- MCSeeds
  Specs <- MCSpecs
INVARIANTS CrawlFaithful ProbeTruthful ReplayTrue AccessTruthful JobsMatch HopsInScope
PROPERTIES SurfaceFaithful
CHECK_DEADLOCK FALSE
