SPECIFICATION Spec
CONSTANTS
  p1 = p1
  r1 = r1
  c = c
  Free = Free
  Dead = Dead
  Lost = Lost
  W = 8
  Producers = {p1}
  Consumer = c
  Rings = {r1}
  QItems = 2
  RingItems = 2
  MaxMsgs = 2
  NoBlocks = {FALSE}
  Conds = {"timedwait"}
  Batches = {FALSE}
  Adds = {FALSE}
  MayCrash = FALSE
  Spurious = FALSE
INVARIANT SleepsOnEmpty
CHECK_DEADLOCK FALSE
