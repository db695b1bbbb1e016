SPECIFICATION FairSpec
CONSTANTS
  p1 = p1
  r1 = r1
  c = c
  Free = Free
  Dead = Dead
  Lost = Lost
  W = 8
  Producers = {p1}
  Consumer = c
  Rings = {r1}
  QItems = 3
  RingItems = 2
  MaxMsgs = 4
  NoBlocks = {FALSE}
  Conds = {"wait"}
  Batches = {FALSE}
  Adds = {FALSE}
  MayCrash = FALSE
  Spurious = FALSE
PROPERTY ProducerServed
CHECK_DEADLOCK FALSE
