SPECIFICATION Spec
CONSTANTS
  Calls = {timer, manual}
  Percentages = {50, 100}
  Threshold = 100
  Cycles = 800
  Payment = 150
  MaxPayments = 2
INVARIANT ResponseTellsBalance
