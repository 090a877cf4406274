SPECIFICATION FairBucketSpec
CONSTANTS
  Threads = {t1, t2}
  Amounts = {2, 7}
  InitTokens = 3
  Rate = 4
  Second = 2
  Large = 3
  MaxRetries = 0
  Settle = 2
  MaxTime = 14
  LastCall = 2
CHECK_DEADLOCK FALSE
INVARIANTS Accounted AloneWithinRate
 
