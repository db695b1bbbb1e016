SPECIFICATION Spec
CONSTANTS
  p1 = p1
  r1 = r1
  c = c
  Free = Free
  Dead = Dead
  Lost = Lost
  W = 8
  Producers = {p1}
  Consumer = c
  Rings = {r1}
  QItems = 2
  RingItems = 2
  MaxMsgs = 2
  NoBlocks = {FALSE, TRUE}
  Conds = {"wait"}
  Batches = {TRUE}
  Adds = {FALSE}
  MayCrash = TRUE
  Spurious = FALSE
INVARIANT ConsumerKeepsNoLock
CHECK_DEADLOCK FALSE
