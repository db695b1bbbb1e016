SPECIFICATION FairSpec
CONSTANTS
  w1 = w1
  w2 = w2
  Workers = {w1, w2}
  MaxNest = 1
  MaxWork = 0
  MaxSyncs = 1
  GraceUsers = TRUE
  MayTimeOut = FALSE
PROPERTY WaitOneLoopEnds
PROPERTY BarrierObtained
PROPERTY RpcExecuted
PROPERTY SyncServedByOthers
CHECK_DEADLOCK FALSE
