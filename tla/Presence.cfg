CONSTANTS
  Channels = {c1, n1}
  Created = {n1}
  Handlers = {h1}
  Night = night
  PurgeDays = 1
  MaxJoins = 1
  MaxFaults = 1
SPECIFICATION FairSpec
INVARIANTS TypeOK AllowlistStands
PROPERTIES ConfigSurvives PresenceConverges
CHECK_DEADLOCK FALSE
