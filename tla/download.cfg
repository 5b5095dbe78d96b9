CONSTANTS
  f1 = f1
  f2 = f2
  s1 = s1
  s2 = s2
  Files = {f1, f2}
  Sessions = {s1, s2}
  Workers = {w1, w2}
  Contents <- MCContents
  Malformed = {f1}
  QueueSize = 1
  Slots = 2
  MaxSessions = 1
  MaxPuts <- MCPuts
  MaxLives <- MCLives
  IsServer = TRUE
  SlowJobs = {f1}
  Resets = {f1}
SPECIFICATION Spec
SYMMETRY WorkerSymmetry
INVARIANTS TypeOK ProcessedOnce OneObjectPerSession SessionsLimited DeletedAfterReading
PROPERTY NoResurrection
CHECK_DEADLOCK FALSE
