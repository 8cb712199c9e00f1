SPECIFICATION Spec
CONSTANTS
  MaxTime = 2
  MaxApps = 1
  MaxAux = 1
  MaxFaults = 1
  ExternalReader = TRUE
INVARIANTS TypeOK NoDuplicateSamples NewestRetained SnapshotConsistent LossIsReported
PROPERTIES ImplementsSessionLog
CHECK_DEADLOCK FALSE
