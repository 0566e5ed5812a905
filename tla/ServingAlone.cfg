CONSTANTS
  Channels = {c1, c2}
  Handlers = {h1}
  Messages = {m1}
  Cap = 1
  MaxConds = 1
  MaxGrown = 2
  Modes = {all, any}
  DefaultMode = all
  MaxOps = 2
  MaxFaults = 1
  MaxCrashes = 1
SPECIFICATION FairSpec
INVARIANTS AllowlistMatches PlanIsKept
PROPERTIES FreeIsTrimmed
CHECK_DEADLOCK FALSE
