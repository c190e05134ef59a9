SPECIFICATION Spec
CONSTANTS
  Items = {1, 2}
  feedA = feedA
  feedB = feedB
  Sources <- MCSources
  SourceOf <- MCSourceOf
  Specs <- AllSpecs
  Jobs = {j1, j2}
  Loops = {}
  DryRunners = {j2}
  WithImage = {1}
  CanAge = {1}
  Cap = 1
  DropOldest = TRUE
  HasInterval = TRUE
  MaxAttempts = 2
  MaxCrashes = 1
  None = None
INVARIANTS
  PostsAccountedFor
  DeliveredReadsRouted
  RetriesBounded
PROPERTIES
  DeliveryIsFinal
  RetiredIsFinal
  ImplementsChannelLog
