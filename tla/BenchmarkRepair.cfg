SPECIFICATION Spec
CONSTANTS
  None = None
  Junk = Junk
  Aliases <- MCAliases
  Readings <- MCReadings
  Suite <- MCSuite
  MaxNow = 1
  MaxRows = 3
  MaxMonitors = 2
  MaxSummaries = 1
  MaxScores = 2
  MaxFaults = 1
CHECK_DEADLOCK FALSE
PROPERTIES RepairRebuildsHistory
