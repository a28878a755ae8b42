SPECIFICATION ItsSpec
CONSTANTS
  Chips = {"chipA", "chipB"}
  Layers = {0, 6}
  LayerOf <- MCLayerOf
  Positions = {"front", "back"}
  PositionOf <- MCPositionOf
  Nowhere = "nowhere"
  BinMax = 2
  NEventMax = 2
  Files = {0, 1}
  NColumns = 1
  Word = 3
  IntMax = 1
  Memory <- MCMemory
  MaxRuns = 2
  MaxFiles = 2
  MaxDigits = 3
  MaxErrors = 3
INVARIANTS
  ErrorsOfFile
  FilesCounted
  EtaPhiLagsByOne
  OccupancyAddsUp
CHECK_DEADLOCK FALSE
