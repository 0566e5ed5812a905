\* The surfaces in an admin's hands, one to a behaviour; a surface may stop.
INIT Init
NEXT Next
CHECK_DEADLOCK FALSE
CONSTANTS
  Surfaces = {"panel", "clock", "editor", "switch", "rollover", "overview", "checkout", "publish"}
  MaxOutside = 1
  Kinds = {"word", "long"}
  Limit = 2
  MaxIds = 2
  Slots = {a1, a2}
  PerPage = 1
  MaxFaults = 1
  IdleTime = 4
  ModalTime = 3
  TokenTime = 5
  MaxForms = 2
  ScreenKinds = {"word", "long", "none", "mixed"}
  Calls = {a1, a2}
  Presses = {a1, a2}
  Channels = {1, 2, 3}
  Roots = {1}
  MaxListed = 2
  MaxPaused = 2
  FreeCap = 1
  Buyers = {a1, a2}
  Nobody = Nobody
  MaxPolls = 1
  News = {n1}
  Writers = {a1, a2}
  MaxTurns = 2
SYMMETRY Symmetry
CONSTRAINT Sizes
INVARIANTS
  AllSavedIsTrue
  OverviewAgrees
  ReportsStand
  CardSettles
  
PROPERTIES
  GoneStaysGone
  ClosesInTime
  WarnedBeforeLoss
