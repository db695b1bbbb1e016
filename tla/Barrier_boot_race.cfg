SPECIFICATION BootSpec
CONSTANTS
  w1 = w1
  w2 = w2
  Workers = {w1, w2}
  MaxNest = 1
  MaxWork = 1
  MaxSyncs = 0
  GraceUsers = FALSE
  MayTimeOut = FALSE
SYMMETRY Symmetry
INVARIANT ForeachVlibMainAssert
CHECK_DEADLOCK FALSE
