SPECIFICATION Spec
CONSTANTS
  tab1 = tab1  mainnet = mainnet  testnet = testnet
  u1 = u1  u2 = u2  u3 = u3
  Tabs = {tab1}
  UserOf <- MCOneUser
  Addresses = {mainnet, testnet}
  OwnerOf <- MCOwner
  AddressOf <- MCTwoNetworks
  Early = {u1, u3}
  MaxPending = 2
  MaxAddresses = 1
  Day = 1
  MaxClock = 1
  MaxSends = 2
  MaxFaults = 0
  MaxUpgrades = 0
INVARIANT Tracked
