SPECIFICATION Spec
CONSTANTS
  c1 = c1
  c2 = c2
  p1 = p1
  p2 = p2
  s1 = s1
  s2 = s2
  Samplers = {s1, s2}
  NoCaller = NoCaller
  Callers = {c1, c2}
  Collectors = {p1, p2}
  MaxSeq = 2
INVARIANTS TypeOK NoSendOnClosedChannel OneSession LatestSampleWins
PROPERTIES StopThatCancelsWaits ImplementsMonitorLife
SYMMETRY Symmetry
