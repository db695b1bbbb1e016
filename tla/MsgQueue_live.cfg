SPECIFICATION FairSpec
CONSTANTS
  p1 = p1
  p2 = p2
  r1 = r1
  c = c
  Free = Free
  Dead = Dead
  Lost = Lost
  W = 8
  Producers = {p1, p2}
  Consumer = c
  Rings = {r1}
  QItems = 1
  RingItems = 4
  MaxMsgs = 2
  NoBlocks = {FALSE}
  Conds = {"wait"}
  Batches = {FALSE}
  Adds = {FALSE}
  MayCrash = FALSE
  Spurious = FALSE
PROPERTY ProducerServed
PROPERTY ConsumerServed
CHECK_DEADLOCK FALSE
