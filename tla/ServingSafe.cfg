CONSTANTS
  Channels = {c1, c2}
  Handlers = {h1, h2}
  Messages = {m1}
  Cap = 1
  MaxConds = 1
  MaxGrown = 2
  Modes = {all}
  DefaultMode = all
  MaxOps = 2
  MaxFaults = 0
  MaxCrashes = 0
SPECIFICATION Spec
SYMMETRY Interchangeable
INVARIANTS TypeOK HeldIsServed
CHECK_DEADLOCK FALSE
