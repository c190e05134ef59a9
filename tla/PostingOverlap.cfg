SPECIFICATION Spec
CONSTANTS
  Items = {1, 2}
  feedA = feedA
  feedB = feedB
  Sources <- MCSources
  SourceOf <- MCSourceOf
  Specs <- OneSpec
  Jobs = {j1}
  Loops = {l1}
  DryRunners = {}
  WithImage = {1}
  CanAge = {}
  Cap = 1
  DropOldest = TRUE
  HasInterval = TRUE
  MaxAttempts = 2
  MaxCrashes = 0
  None = None
INVARIANT
  DeliveredReadsRouted
