\* Liveness: no symmetry, and no sampler, for which no shutdown waits.
SPECIFICATION FairSpec
CONSTANTS
  c1 = c1
  c2 = c2
  p1 = p1
  p2 = p2
  s1 = s1
  s2 = s2
  Samplers = {}
  NoCaller = NoCaller
  Callers = {c1, c2}
  Collectors = {p1}
  MaxSeq = 2
PROPERTIES ShutdownCompletes CallsReturn
