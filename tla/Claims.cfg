SPECIFICATION FairClaimSpec
CONSTANTS
  r1 = r1
  r2 = r2
  r3 = r3
  r4 = r4
  c1 = c1
  c2 = c2
  Requests = {r1, r2, r3, r4}
  Claims = {c1, c2}
  ClaimOf <- TwoClaims
  LimitOf <- LimitAndNone
  NbfOf <- Delayed
  ExpOf <- Apart
  Serial = TRUE
  Stalls = {0, 1}
  IdleLimit = 1
  MaxTime = 4
  NoBucket = NoBucket
CHECK_DEADLOCK FALSE
INVARIANT WithinLimit
PROPERTY ExpiredGone
