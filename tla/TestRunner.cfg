SPECIFICATION Spec
CONSTANTS
  r1 = r1
  r2 = r2
  r3 = r3
  None = None
  Empty = Empty
  Runners = {r1, r2, r3}
  Forced = {r3}
  Marked = {r1, r2}
  MaxFaults = 1
SYMMETRY Alike
CONSTRAINT FewAfterTheRace
CHECK_DEADLOCK FALSE
INVARIANTS TypeOK  FinishedTestsAreListed
