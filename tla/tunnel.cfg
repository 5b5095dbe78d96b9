CONSTANTS
  Conns = {c1}
  MaxConns = 1
  UserBytes = 1
  TargetBytes = 2
  Chunk = 1
  MaxTroubles = 1
SPECIFICATION LiveSpec
INVARIANT TypeOK
PROPERTIES ImplementsPipes BuffersStillAfterWait ConnsEnd
CHECK_DEADLOCK FALSE
