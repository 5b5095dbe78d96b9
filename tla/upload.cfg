CONSTANTS
  Sessions = {s1, s2}
  Workers = {w1}
  MayClose = {s1}
  Writes = 1
  MaxSeq = 2
  QueueSize = 1
  IsClient = FALSE
  Quiet = TRUE
SPECIFICATION LiveSpec
INVARIANTS TypeOK NothingLostRunning WorkersOutliveDrain ShutdownFlushes
PROPERTIES StopReturns ReachesStorage
CHECK_DEADLOCK FALSE
