SPECIFICATION Spec
CONSTANTS
  Keys = {0, 1, 2, 3}
  BadKeys = {3}
  NoKey = NoKey
  MaxStores = 5
  MaxObjects = 3
  mMaxIterations = 2
  MaxInits = 2
INVARIANTS
  OneHandlerPerTimer
  EveryObjectStored
PROPERTIES
  RepositorySpec
  SentGrows
CHECK_DEADLOCK FALSE
