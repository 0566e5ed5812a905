CONSTANTS
  NumMessages = 2
  Jobs = {d1, d2, d3}
  MaxPushes = 2
  Batch = 1
  Attempts = 2
  BackoffSpent <- MCBackoffSpent
  Slack = 2
  MaxAge = 2
  Ageing = TRUE
  Preview = 0
  RetryAfters = {1}
  ShedWait = 1
  MaxMishaps = 0
  MaxFaults = 2
  MaxCrashes = 1
  MaxStalled = 1
SPECIFICATION Spec
SYMMETRY MCJobSymmetry
INVARIANT KeyOutlivesMembers
PROPERTIES PostOrder KeepsOutbox
