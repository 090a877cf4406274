SPECIFICATION Spec
CONSTANTS
  r1 = r1
  r2 = r2
  r3 = r3
  i1 = i1
  i2 = i2
  Requests = {r1, r2}
  Ids = {i1, i2}
  IdOf <- OneEach
  KindOf <- Mixed
  NeedOf <- Needs
  IsS3 = FALSE
  Permits = 2
  MigratePermits = 1
  MaxRetries = 1
  MaxCrashes = 0
  Overlap = FALSE
  MayBreak = FALSE
  MayDrop = TRUE
  MayFail = TRUE
  NoJob = NoJob
  Free = Free
  Nothing = Nothing
  Torn = Torn
CHECK_DEADLOCK FALSE
INVARIANTS NoSourceLoss 
