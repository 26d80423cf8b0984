CHECK_DEADLOCK FALSE
SPECIFICATION Spec
CONSTANTS
  Utxos = {u1, u2, u3, u4}
  Values = {0, 1, 2, 3}
  Targets = {0, 1, 2, 3, 4, 5, 6, 7}
  Threshold = 1
  OutputCount = 1
INVARIANTS TypeOK SelectionPays FewestInputs
