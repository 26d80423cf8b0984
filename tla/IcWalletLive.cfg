\* Once its worker is stopped and no other is loaded, the wallet rests.
CHECK_DEADLOCK FALSE
SPECIFICATION FairWalletSpec
CONSTANTS
  Timers <- MCTimers
  Runs = {r1, r2}
  Scheduled = TRUE
  MaxStarts = 1
  MaxStops = 1
  MaxErrors = 0
  Icrc = FALSE
  PageSize = 1
  MaxTx = 1
  MaxEvents = 2
PROPERTIES
  LatestIsShown
