CONSTANTS
  Starts = {s1, s2, s3}
  NoStart = NoStart
  MaxStops = 2
SPECIFICATION Spec
INVARIANT OneEngine
PROPERTY CredentialsSpent
CHECK_DEADLOCK FALSE
