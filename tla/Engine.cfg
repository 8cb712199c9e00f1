SPECIFICATION FairSpec
CONSTANTS
  Nices = {0, 5}
  Settings <- MCSettings
  MaxMonitors = 2
  MaxRuns = 2
INVARIANTS TypeOK OneMonitorCollects MonitorMatchesSettings DocumentMatchesSettings LiveReportIsHistorical BenchmarkIsPublished
PROPERTIES BenchmarkUndisturbed MonitorsLive RequestsReturn ReturnedRunIsForgotten
