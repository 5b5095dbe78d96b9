CONSTANTS
  Workers = {w1, w2}
  Closers = {c1}
  Last = 3
  MaxPayload = 2
  Size <- MCSize
  Closing = {3}
  Backends = {"b0", "b1"}
  Home <- MCHome
  Copies = 2
  MaxRxQueueSize = 2
  MaxRxQueueBytes = 2
  RxChanSize = 1
  ReaderStalls = TRUE
SPECIFICATION LiveSpec
INVARIANTS TypeOK NoSendOnClosedChannel AtMostOnce NothingSkipped QueueSound OnlyRacesReorder
PROPERTIES CloseReturns ClosedEndsStream ImplementsStream
CHECK_DEADLOCK FALSE
