SPECIFICATION Spec
CONSTANTS
  Modes = {"et"}
  Peeks = {FALSE}
  Size = 2
  AppQ = 1
  VppQ = 1
  Timeouts = {"inf"}
  MaxMods = 0
  MaxPostponed = 1
  MaxElts = 2
INVARIANT ReportsAtOnce
CHECK_DEADLOCK FALSE
