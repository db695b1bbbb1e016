SPECIFICATION FairSpec
CONSTANTS
  p1 = p1
  p2 = p2
  Sides = {p1, p2}
  TxIntervals = {2}
  RxIntervals = {1, 2}
  SlowTx = 3
  EchoRx = 3
  EchoSource = {}
  MaxNet = 1
  Operated = {p1}
  MaxChanges = 2
  MaxDisc = 1
PROPERTIES Converges PollsEnd
