SPECIFICATION FairSpec
CONSTANTS
  flp1 = flp1
  flp2 = flp2
  skeleton = skeleton
  abc = abc
  Tasks = {skeleton, abc}
  Hosts = {flp1, flp2}
  Blocks = {b1, b2}
  Resetting = {skeleton}
  Configs <- MCConfigs
  MaxRuns = 2
  MaxQueue = 1
INVARIANTS
  Wired
  CountedOnce
  NothingVanishes
PROPERTIES
  StoredGrows
  MonitoredIsStored
CHECK_DEADLOCK FALSE
