CONSTANTS
  Workers = {w1, w2}
  Closers = {c1}
  Last = 3
  MaxPayload = 2
  Size <- MCSize
  Closing = {3}
  Backends = {"b0", "b1"}
  Home <- MCHome
  Copies = 1
  MaxRxQueueSize = 2
  MaxRxQueueBytes = 2
  RxChanSize = 1
  ReaderStalls = FALSE
SPECIFICATION Spec
SYMMETRY WorkerSymmetry
INVARIANT InOrder
CHECK_DEADLOCK FALSE
