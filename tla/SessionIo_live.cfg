SPECIFICATION FairSpec
CONSTANTS
  Modes = {"et", "lt"}
  Peeks = {FALSE}
  Size = 1
  AppQ = 1
  VppQ = 1
  Timeouts = {"timed"}
  MaxMods = 0
  MaxPostponed = 1
  MaxElts = 2
PROPERTIES RxServed TxServed WriterServed
CHECK_DEADLOCK FALSE
