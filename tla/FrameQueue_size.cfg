SPECIFICATION Spec
CONSTANTS
  t1 = t1
  t2 = t2
  Threads = {t1}
  NElts = 2
  FrameSize = 1
  CheckCount = 1
  MaxVector = 2
  MaxBuffers <- TwoEach
  DropOnCongestion = {TRUE}
  WithAux = FALSE
INVARIANT SizeMeansSize
