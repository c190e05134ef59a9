SPECIFICATION Spec
CONSTANTS
  Events = {1, 2}
  Fetch = {1}
  Escalating = {1}
  Critical = {1}
  Job = job
  Handlers = {h1}
  Reports <- MCReports
  Ladder = {1, 2}
  EscalateAfter = 2
  MaxAlerts = 1
  BodyLimit = 1
  MaxReports = 3
  MaxMutes = 0
  MaxHour = 0
  MaxFaults = 0
  MaxCrashes = 0
  None = None
PROPERTY
  AckAllClears
