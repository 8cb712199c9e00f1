\* Liveness: every stream, the event and test-run streams with a record too.
SPECIFICATION FairSpec
CONSTANTS
  MaxTime = 2
  MaxApps = 1
  MaxAux = 1
  MaxFaults = 1
  ExternalReader = FALSE
PROPERTIES RecordsReachDisk
CHECK_DEADLOCK FALSE
