SPECIFICATION Spec
CONSTANTS
  Tabs = {a, b}
  Tokens = {s, t}
  MaxTokens = 1
  Loads = {1}
  MaxSaves = 2
  MaxFaults = 1
  MaxRemovals = 1
SYMMETRY Symmetry
INVARIANTS TypeOK SettledShowsTheList
PROPERTY NoLostUpdate
