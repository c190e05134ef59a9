SPECIFICATION FairSpec
CONSTANTS
  Events = {1, 2}
  Fetch = {1}
  Escalating = {1}
  Critical = {1}
  Job = job
  Handlers = {h1}
  Reports <- MCReports
  Ladder = {1, 2}
  EscalateAfter = 1
  MaxAlerts = 1
  BodyLimit = 1
  MaxReports = 2
  MaxMutes = 1
  MaxHour = 1
  MaxFaults = 1
  MaxCrashes = 1
  None = None
INVARIANTS
  OneMessageEach
  BudgetHolds
  ResolvedIsShown
  LongStreaksAreRaised
  NothingMarkedUntold
PROPERTIES
  QueuedIsDelivered
