CHECK_DEADLOCK FALSE
SPECIFICATION Spec
CONSTANTS
  Wallets = {w1, w2}
  Amounts = {1, 2}
  MaxSends = 3
  MaxLost = 1
INVARIANTS TypeOK NoGap NothingReverts ReportedIsKept
