SPECIFICATION Spec
CONSTANTS
  w1 = w1
  w2 = w2
  Workers = {w1, w2}
  MaxNest = 1
  MaxWork = 0
  MaxSyncs = 2
  GraceUsers = FALSE
  MayTimeOut = FALSE
SYMMETRY Symmetry
INVARIANT SectionExclusive
