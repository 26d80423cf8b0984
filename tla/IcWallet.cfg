\* Once its worker is stopped and no other is loaded, the wallet rests.
CHECK_DEADLOCK FALSE
SPECIFICATION WalletSpec
SYMMETRY Symmetry
CONSTANTS
  Timers <- MCTimers
  Runs = {r1, r2}
  Scheduled = TRUE
  MaxStarts = 1
  MaxStops = 2
  MaxErrors = 0
  Icrc = TRUE
  PageSize = 1
  MaxTx = 2
  MaxEvents = 2
INVARIANTS
  WalletTypeOK
  NoQueryInMemory
  QueriesShownAreChecked
  WorkerIsShown
  CertifiedIsReal
  ShownInOrder
PROPERTIES
  NoDowngrade
