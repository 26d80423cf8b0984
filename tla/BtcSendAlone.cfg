SPECIFICATION Spec
CONSTANTS
  tab1 = tab1  mainnet = mainnet  testnet = testnet
  u1 = u1  u2 = u2  u3 = u3
  Tabs = {tab1}
  UserOf <- MCOneUser
  Addresses = {mainnet}
  OwnerOf <- MCOwner
  AddressOf <- MCUtxos
  Early = {u1}
  MaxPending = 2
  MaxAddresses = 1
  Day = 1
  MaxClock = 3
  MaxSends = 2
  MaxFaults = 1
  MaxUpgrades = 1
INVARIANTS TypeOK NoDoubleSpend OnePendingPerTab Tracked
