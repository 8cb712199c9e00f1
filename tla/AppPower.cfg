SPECIFICATION Spec
CONSTANTS
  None = None
  Junk = Junk
  Names <- MCNames
  Titles <- MCTitles
  Outcomes <- MCOutcomes
  Rows <- MCRows
  MaxActivities = 3
  MaxNames = 2
  Resolved = 2
  SampleWindow = 10
  MinScore = 0
  TopSlots = 1
  QuietSize = 2
  MinQuiet = 2
  Steps = {400}
  Interval = 500
  FlushEvery = 2
  MaxSamples = 3
  MaxRows = 3
  MaxFaults = 2
CHECK_DEADLOCK FALSE
CONSTRAINT FaultsLeft
INVARIANTS TypeOK EnvelopeIsFilled ScoresAreConserved SampleLoggedOnce SummaryMatchesLog ConfidenceIsEarned
