CONSTANTS
  N = 2
  Uploaders = {u1}
  Downloaders = {d1}
  Pollers = {p1}
  Failing = {0}
  Throttled = {1}
  TimePasses = TRUE
  cbThreshold = 2
  retryAttempts = 2
SPECIFICATION LiveSpec
INVARIANTS TypeOK BreakerSound
PROPERTIES BackendReturns CallsEnd
CHECK_DEADLOCK FALSE
