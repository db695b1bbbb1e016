SPECIFICATION Spec
CONSTANTS
  Modes = {"block", "et", "lt"}
  Peeks = {TRUE, FALSE}
  Size = 2
  AppQ = 1
  VppQ = 1
  Timeouts = {"timed"}
  MaxMods = 1
  MaxPostponed = 1
  MaxElts = 2
INVARIANTS NoLostRx NoLostWrite NoLostTx
CHECK_DEADLOCK FALSE
