SPECIFICATION FairSpec
CONSTANTS
  Items = {1, 2}
  feedA = feedA
  feedB = feedB
  Sources <- MCSources
  SourceOf <- MCSourceOf
  Specs <- OneSpec
  Jobs = {j1}
  Loops = {l1}
  DryRunners = {}
  WithImage = {}
  CanAge = {}
  Cap = 1
  DropOldest = FALSE
  HasInterval = TRUE
  MaxAttempts = 1
  MaxCrashes = 1
  None = None
PROPERTY
  RoutedIsSettled
