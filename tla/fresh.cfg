CONSTANTS
  v1 = v1
  v2 = v2
  NoRow = NoRow
  Vessel = {v1, v2}
  StaleAge = 1
  RetainAge = 1
  PurgeAge = 2
  FreshAge = 1
  LifecycleOn = TRUE
  MaxBatch = 2
  MaxReports = 2
  MaxClock = 3
  MaxFaults <- Budget
SPECIFICATION FairSpec
INVARIANTS NeverFreshAndStale StateTracked ReportingShown
PROPERTIES StaleEventually
CHECK_DEADLOCK FALSE
