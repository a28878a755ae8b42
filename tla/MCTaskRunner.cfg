SPECIFICATION FairSpec
CONSTANTS
  CycleLimits <- Limits
  FileFinishValues = {0, 1}
  StatsPeriod = 2
  MaxRuns = 3
  MaxCycles = 4
  MaxBlocks = 2
  MaxLate = 2
INVARIANTS
  TypeOK
  LimitRespected
  DeltasAddUp
  LastMessageIsComplete
  DeadlineBound
PROPERTY
  OpenCycleEnds
