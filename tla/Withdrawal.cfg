CONSTANTS
  Contracts = {c1}
  Tabs = {t1, t2}
  Window = 2
  EraseAge = 1
  DeleteAge = 2
  Cap = 2
  Horizon = 2
  MaxSubmits = 2
  MaxFaults = 1
  MaxBlips = 2
SPECIFICATION FairSpec
CHECK_DEADLOCK FALSE
INVARIANTS RefundedOnce AckedWasMailed DutyKeepsAddress TwoBlipsAlert
PROPERTIES Acknowledged AddressErased
