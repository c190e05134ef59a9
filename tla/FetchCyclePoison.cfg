SPECIFICATION Spec
CONSTANTS
  NumSources = 2
  Items = {1, 4, 5}
  SourceOf <- MCSourceOf
  DocSize <- MCDocSize
  Limit <- MCLimit
  Interval <- MCInterval
  ColdStart <- MCColdStart
  Enabled = {1, 2}
  Bound = {1}
  Same <- MCSame
  Near <- MCNear
  Filtered = {}
  Broken = {}
  Poison = {5}
  Cap = 2
  Window = 1
  MaxClock = 2
  MaxCrashes = 1
  None = None
PROPERTY
  EveryExitPersists
