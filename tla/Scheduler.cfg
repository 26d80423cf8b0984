SPECIFICATION FairSpec
CONSTANTS
  Timers = {t1}
  Runs = {r1, r2, r3}
  Scheduled = TRUE
  MaxStarts = 3
  MaxStops = 2
  MaxErrors = 2
INVARIANTS TypeOK BusyMeansRunning OverlapNeedsStop StoppedJobsAreSilent
PROPERTY Refreshes
