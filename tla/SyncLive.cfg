CONSTANTS
  Subs = {s1, s2}
  None = None
  Handlers = {h1}
  Night = night
  Nights = TRUE
  Withdrawals = FALSE
  MaxChanges = 1
  MaxRefunds = 0
  MaxFaults = 1
  MaxCrashes = 1
SPECIFICATION FairSpec
PROPERTIES Converges DowngradeEnforced
CHECK_DEADLOCK FALSE
