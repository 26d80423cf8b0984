SPECIFICATION Spec
CONSTANTS
  Users <- MCUsers
  TokenOwners <- MCTokenOwners
  CustomOwners <- MCCustomOwners
  ProfileTime <- MCProfileTime
  ChunkSize = 1
  Steps = {s1, s2}
  StartClock = 1
  MaxClock = 2
  MaxUpgrades = 1
INVARIANTS EveryoneMoved TargetIsCopy UnlockedLast
SYMMETRY MCSymmetry
