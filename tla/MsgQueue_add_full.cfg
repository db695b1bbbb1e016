SPECIFICATION Spec
CONSTANTS
  p1 = p1
  r1 = r1
  c = c
  Free = Free
  Dead = Dead
  Lost = Lost
  W = 8
  Producers = {p1}
  Consumer = c
  Rings = {r1}
  QItems = 1
  RingItems = 2
  MaxMsgs = 2
  NoBlocks = {FALSE, TRUE}
  Conds = {"wait"}
  Batches = {FALSE}
  Adds = {TRUE}
  MayCrash = FALSE
  Spurious = FALSE
INVARIANT AddKeepsNoLock
CHECK_DEADLOCK FALSE
