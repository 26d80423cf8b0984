SPECIFICATION FairSpec
CONSTANTS
  Users <- MCUsers
  TokenOwners <- MCTokenOwners
  CustomOwners <- MCCustomOwners
  ProfileTime <- MCProfileTime
  ChunkSize = 1
  Steps = {s1}
  StartClock = 1
  MaxClock = 3
  MaxUpgrades = 0
INVARIANT TypeOK
PROPERTIES ProgressAdvances NewerDataSurvives HandsOver Terminates
