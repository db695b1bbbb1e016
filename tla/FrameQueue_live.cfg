SPECIFICATION FairSpec
CONSTANTS
  t1 = t1
  t2 = t2
  Threads = {t1, t2}
  NElts = 2
  FrameSize = 1
  CheckCount = 1
  MaxVector = 2
  MaxBuffers <- TwoAndOne
  DropOnCongestion = {TRUE}
  WithAux = FALSE
PROPERTY HandoffDelivers
PROPERTY HandoffEnds
