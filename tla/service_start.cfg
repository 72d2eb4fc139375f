SPECIFICATION ServiceFairSpec
CONSTANTS
  URLs = {u1, u2}
  Commands = {c1, c2}
  Damaged = Damaged
  Nothing = Nothing
  MaxSize = 1
  Sizes <- MCSizes
INVARIANTS
  ServiceTypeOK
  CachedBinaryIsWhole
  StoreIsAsReported
  RunsWhatIsStored
PROPERTIES
  StoredListIsRun
