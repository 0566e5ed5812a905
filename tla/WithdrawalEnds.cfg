CONSTANTS
  Contracts = {c1}
  Tabs = {t1}
  Window = 1
  EraseAge = 1
  DeleteAge = 2
  Cap = 2
  Horizon = 2
  MaxSubmits = 1
  MaxFaults = 1
  MaxBlips = 0
SPECIFICATION FairSpec
CHECK_DEADLOCK FALSE
PROPERTY WithdrawnEnds
