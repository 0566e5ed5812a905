SPECIFICATION Spec
CHECK_DEADLOCK FALSE
CONSTANTS
  Users = {u1, u2}
  RevokeFloor = 1
  MaxChanges = 3
  MaxFaults = 1
  Feeds = {1, 2}
  Posts <- MCPosts
  PushAttempts = 2
  JobAttempts = 2
  HighWater = 1
  Concurrency = 2
  Threshold = 2
  MaxOther = 0
  MaxMishaps = 1
  Requests = {q1, q2}
  AuthTime = 1
  GuildsTime = 1
  KeptTime = 2
  CallTime = 1
  MaxAttempts = 2
  MaxFlips = 1
  MaxAutoRetries = 3
  MaxPresses = 3
INVARIANTS ShedBounds CacheIsTrue
PROPERTIES RolesConverge KeepsPaying StaleIsBounded PageRests
