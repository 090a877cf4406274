SPECIFICATION StoreSpec
CONSTANTS
  Ids = {i1, i2}
  Payloads = {p1, p2}
  Actors = {a1, a2}
  NoJob = NoJob
  Free = Free
  MayDrop = TRUE
  MayFail = TRUE
INVARIANT FileTracksJobs
 
