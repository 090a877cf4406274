SPECIFICATION ClaimSpec
CONSTANTS
  r1 = r1
  r2 = r2
  r3 = r3
  r4 = r4
  c1 = c1
  c2 = c2
  Requests = {r1, r2}
  Claims = {c1}
  ClaimOf <- OneClaim
  LimitOf <- LimitOne
  NbfOf <- FromStart
  ExpOf <- Short
  Serial = FALSE
  Stalls = {0}
  IdleLimit = 2
  MaxTime = 3
  NoBucket = NoBucket
CHECK_DEADLOCK FALSE
INVARIANT WithinLimit
