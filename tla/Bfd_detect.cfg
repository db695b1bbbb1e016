SPECIFICATION Spec
CONSTANTS
  p1 = p1
  p2 = p2
  Sides = {p1, p2}
  TxIntervals = {1, 2}
  RxIntervals = {1}
  SlowTx = 3
  EchoRx = 3
  EchoSource = {}
  MaxNet = 1
  Operated = {p1, p2}
  MaxChanges = 1
  MaxDisc = 2
INVARIANT DetectsInTime
