SPECIFICATION Spec
CONSTANTS
  r1 = r1
  r2 = r2
  r3 = r3
  None = None
  Empty = Empty
  Runners = {r1, r2}
  Forced = {}
  Marked = {r1, r2}
  MaxFaults = 0
SYMMETRY Alike
CHECK_DEADLOCK FALSE
INVARIANTS OneTestAtATime
