SPECIFICATION FairMapSpec
CONSTANTS
  Keys = {k1, k2}
  Tasks = {t1, t2, t3, t4}
  NoTask = NoTask
  NoResult = NoResult
INVARIANT MapInv
PROPERTIES ImplementsFifo TaskComesOut
