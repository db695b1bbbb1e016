SPECIFICATION Spec
CONSTANTS
  t1 = t1
  t2 = t2
  Threads = {t1, t2}
  NElts = 2
  FrameSize = 2
  CheckCount = 1
  MaxVector = 3
  MaxBuffers <- ThreeAndOne
  DropOnCongestion = {TRUE, FALSE}
  WithAux = FALSE
INVARIANT TypeOK
INVARIANT Conserved
INVARIANT OrderKept
INVARIANT RingSafe
CHECK_DEADLOCK FALSE
