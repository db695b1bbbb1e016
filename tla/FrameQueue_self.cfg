SPECIFICATION FairSpec
CONSTANTS
  t1 = t1
  t2 = t2
  Threads = {t1}
  NElts = 2
  FrameSize = 1
  CheckCount = 1
  MaxVector = 1
  MaxBuffers <- TwoEach
  DropOnCongestion = {FALSE}
  WithAux = FALSE
PROPERTY HandoffEnds
CHECK_DEADLOCK FALSE
