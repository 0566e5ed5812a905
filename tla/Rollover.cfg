CONSTANTS
  NumMessages = 2
  Jobs = {d1, d2}
  MaxPushes = 2
  Batch = 1
  Attempts = 2
  BackoffSpent <- MCBackoffSpent
  Slack = 2
  MaxAge = 2
  Ageing = FALSE
  Preview = 1
  RetryAfters = {1}
  ShedWait = 1
  MaxMishaps = 1
  MaxFaults = 0
  MaxCrashes = 0
  MaxStalled = 2
SPECIFICATION FairSpec
INVARIANTS TypeOK OneSender NoStranded
PROPERTY HeldSettles
