SPECIFICATION Spec
CONSTANTS
  w1 = w1
  w2 = w2
  Workers = {w1, w2}
  MaxNest = 2
  MaxWork = 2
  MaxSyncs = 1
  GraceUsers = TRUE
  MayTimeOut = TRUE
SYMMETRY Symmetry
INVARIANT TypeOK
INVARIANT WorkersParked
INVARIANT NoStaleGraph
INVARIANT GracePeriod
INVARIANT BeforeBarrierDrained
INVARIANT SectionExclusive
CHECK_DEADLOCK FALSE
