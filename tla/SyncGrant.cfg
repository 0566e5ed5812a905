CONSTANTS
  Subs = {s1}
  None = None
  Handlers = {h1}
  Night = night
  Nights = TRUE
  Withdrawals = FALSE
  MaxChanges = 2
  MaxRefunds = 0
  MaxFaults = 1
  MaxCrashes = 0
SPECIFICATION FairSpec
PROPERTIES GrantEnforced
CHECK_DEADLOCK FALSE
