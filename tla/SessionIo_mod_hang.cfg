SPECIFICATION Spec
CONSTANTS
  Modes = {"et"}
  Peeks = {FALSE}
  Size = 2
  AppQ = 1
  VppQ = 1
  Timeouts = {"timed"}
  MaxMods = 2
  MaxPostponed = 1
  MaxElts = 2
INVARIANT NoLostWriteMod
CHECK_DEADLOCK FALSE
