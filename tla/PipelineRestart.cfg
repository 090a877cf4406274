SPECIFICATION Spec
CONSTANTS
  r1 = r1
  r2 = r2
  r3 = r3
  i1 = i1
  i2 = i2
  Requests = {r1, r2, r3}
  Ids = {i1}
  IdOf <- AllOne
  KindOf <- Mixed
  NeedOf <- Needs
  IsS3 = TRUE
  Permits = 2
  MigratePermits = 1
  MaxRetries = 1
  MaxCrashes = 2
  Overlap = FALSE
  MayBreak = FALSE
  MayDrop = FALSE
  MayFail = FALSE
  NoJob = NoJob
  Free = Free
  Nothing = Nothing
  Torn = Torn
CHECK_DEADLOCK FALSE
INVARIANTS PendingCoversWork OneJobPerId 
