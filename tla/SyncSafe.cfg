CONSTANTS
  Subs = {s1, s2}
  None = None
  Handlers = {h1, h2}
  Night = night
  Nights = FALSE
  Withdrawals = TRUE
  MaxChanges = 1
  MaxRefunds = 1
  MaxFaults = 0
  MaxCrashes = 0
SPECIFICATION Spec
SYMMETRY MCSymmetry
INVARIANTS RowIsTrue
PROPERTIES RefundSurvives
CHECK_DEADLOCK FALSE
