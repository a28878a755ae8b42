SPECIFICATION FairSpec
CONSTANTS
  t1 = t1
  t2 = t2
  l1 = l1
  l2 = l2
  NoList = NoList
  MissingFile = MissingFile
  Tasks = {t1, t2}
  Lists = {l1, l2}
  Deployments <- MCDeployments
  Files <- MCFiles
  Undefined <- MCUndefined
  IndexPeriod = 6
  MaxInits = 1
INVARIANTS
  CachesInStep
  ReplyCoversAnnounced
  OneWaitPerTimer
PROPERTIES
  NoRepeatedUpdate
  LinesUsedInTurn
CHECK_DEADLOCK FALSE
