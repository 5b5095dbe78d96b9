CONSTANTS
  Writers = {w1, w2}
  Flushers = {f1, f2}
  Closers = {c1}
  Limit = 2
  Chunk = 1
  Sizes = {2}
  Writes = 1
  IsClient = TRUE
  MayCancel = TRUE
SPECIFICATION LiveSpec
INVARIANTS TypeOK BufferBounded LeavesCleanly NoGapInSequence NoLostWakeup
PROPERTIES WritesReturn CloseAnnounced
CHECK_DEADLOCK FALSE
