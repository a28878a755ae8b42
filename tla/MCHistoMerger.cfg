SPECIFICATION MergerSpec
CONSTANTS
  h1 = h1
  h2 = h2
  text = text
  Names <- MCNames
  Histograms <- MCHistograms
  TaskArrays <- MCTaskArrays
  NoArray = NoArray
  Inputs = 2
  InitCapacity = 2
  Period = 2
  MaxCalls = 4
  MaxLate = 4
INVARIANT
  MergedAddsUp
PROPERTY
  NoBurst
CHECK_DEADLOCK FALSE
