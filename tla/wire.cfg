SPECIFICATION Spec
CONSTANTS
  Sessions = {s1, s2}
  IdLen = 32
  AddrLen = 18
  Limits = {65536, 80000, 385308}
  Half = 1048576
  PaddingSize = 4096
  Fills = {300, 70000}
  MaxFills = 2
  Squeezed = {200, 60000}
  Slack = {0, 255}
INVARIANTS OwnFilesFit EveryByteOnce
SYMMETRY SessionSymmetry
CHECK_DEADLOCK FALSE
