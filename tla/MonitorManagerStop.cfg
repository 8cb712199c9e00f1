SPECIFICATION Spec
CONSTANTS
  c1 = c1
  c2 = c2
  p1 = p1
  p2 = p2
  s1 = s1
  s2 = s2
  Samplers = {s1}
  NoCaller = NoCaller
  Callers = {c1}
  Collectors = {p1}
  MaxSeq = 1
PROPERTIES StopFlushesWriters
