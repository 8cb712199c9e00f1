SPECIFICATION Spec
CONSTANTS
  None = None
  Junk = Junk
  Machines <- MCMachines
  Says <- MCSays
  PmOutcomes <- MCPmOutcomes
  SpOutcomes <- MCSpOutcomes
  Steps = {4, 11}
  Epoch = 100
  Window = 20
  BaselineSeconds = 10
  HealthSamples = 2
  DebugEvery = 2
  MaxRows = 4
  MaxUpsets = 2
CHECK_DEADLOCK FALSE
INVARIANTS TypeOK TransitionsAreLogged LoadEventsAlternate
INVARIANTS DischargeWarningIsSustained
