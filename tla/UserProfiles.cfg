SPECIFICATION Spec
CONSTANTS
  t1 = t1
  t2 = t2
  t3 = t3
  Users = {1, 2}
  Dapps = {d1}
  Tabs = {t1, t2, t3}
  Owner <- MCOwner
  CallIds = {c1, c2}
  Limit = 1
  MaxTime = 2
  MaxStarts = 4
SYMMETRY Symmetry
INVARIANTS TypeOK VersionIdentifiesContent NobodyMissed KeyedByUpdatedTimestamp
PROPERTY NothingLost
