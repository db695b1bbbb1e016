SPECIFICATION Spec
CONSTANTS
  Modes = {"block"}
  Peeks = {FALSE}
  Size = 2
  AppQ = 1
  VppQ = 1
  Timeouts = {"timed"}
  MaxMods = 0
  MaxPostponed = 1
  MaxElts = 2
INVARIANTS ReaderNotForgotten WriterNotForgotten
CHECK_DEADLOCK FALSE
