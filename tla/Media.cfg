CONSTANTS
  Demuxers = {1, 2}
  Streams = {1, 2}
  Muxers = {"a", "b"}
  Jobs <- MCJobs
  Cap = 1
  Tolerance = 1
SPECIFICATION Spec
INVARIANTS  CounterIsMuxersLeft 
CHECK_DEADLOCK FALSE
 
