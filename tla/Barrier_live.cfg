SPECIFICATION BootFairSpec
CONSTANTS
  w1 = w1
  w2 = w2
  Workers = {w1, w2}
  MaxNest = 1
  MaxWork = 1
  MaxSyncs = 0
  GraceUsers = TRUE
  MayTimeOut = FALSE
INVARIANT AtBarrierCounts
PROPERTY BootCompletes
PROPERTY WaitOneLoopEnds
PROPERTY WorkersReleased
PROPERTY RpcExecuted
