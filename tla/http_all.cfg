SPECIFICATION FairHttpSpec
CONSTANTS
  t1 = t1
  t2 = t2
  t3 = t3
  Tasks = {t1, t2, t3}
  Setups <- SomeSetups
  MaxSends = 1
  MaxRequests = 3
  MaxConcurrent = 2
  MaxRedirects = 1
  Hosts = {h1}
  Global = global
  Capacity = 2
  Windows = {2}
  Unit = 2
  Rate = 3
  MaxTime = 3
  None = None
INVARIANTS PermitsConserved WithinBudget FreshRetry RateBound
PROPERTY SendsEnd
CHECK_DEADLOCK FALSE
