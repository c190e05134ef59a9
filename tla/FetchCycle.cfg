SPECIFICATION FairSpec
CONSTANTS
  NumSources = 2
  Items = {1, 2, 3, 4, 5}
  SourceOf <- MCSourceOf
  DocSize <- MCDocSize
  Limit <- MCLimit
  Interval <- MCInterval
  ColdStart <- MCColdStart
  Enabled = {1, 2}
  Bound = {1}
  Same <- MCSame
  Near <- MCNear
  Filtered = {1}
  Broken = {}
  Poison = {5}
  Cap = 2
  Window = 1
  MaxClock = 2
  MaxCrashes = 1
  None = None
INVARIANTS
  OriginalsAreApart
  ChainsAreFlat
  ValidatorsStandForStored
  NextAttemptInBounds
  GapIsFlagged
  AlarmTellsTheStreak
PROPERTIES
  PolledAtCadence
  ColdStartHeld
  DueIsServed
