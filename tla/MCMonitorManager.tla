-------------------------- MODULE MCMonitorManager --------------------------
\* Small instances of MonitorManager for TLC.
EXTENDS MonitorManager, TLC

CONSTANTS c1, c2, p1, p2, s1, s2

\* Callers are interchangeable, and so are the collectors and the samplers.
Symmetry ==
  Permutations(Callers) \cup Permutations(Collectors) \cup Permutations(Samplers)
=============================================================================
