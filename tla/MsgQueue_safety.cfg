SPECIFICATION Spec
CONSTANTS
  p1 = p1
  p2 = p2
  r1 = r1
  r2 = r2
  c = c
  Free = Free
  Dead = Dead
  Lost = Lost
  W = 8
  Producers = {p1, p2}
  Consumer = c
  Rings = {r1, r2}
  QItems = 2
  RingItems = 2
  MaxMsgs = 2
  NoBlocks = {FALSE, TRUE}
  Conds = {"nowait", "wait", "timedwait"}
  Batches = {FALSE, TRUE}
  Adds = {FALSE, TRUE}
  MayCrash = TRUE
  Spurious = TRUE
SYMMETRY Symmetry
INVARIANT AssertsHold
INVARIANT ConsumerNotForgotten
PROPERTY IsFifo
CHECK_DEADLOCK FALSE
