SPECIFICATION Spec
CONSTANTS
  Names = {"array-0", "array-1"}
  CheckNames = {"check"}
  Classes = {"MeanIsAbove", "NonEmpty"}
  Qualities = {"Good", "Bad"}
  Values = {"34"}
  Null = Null
  None = None
  DanglingReads = TRUE
  MaxObjects = 3
INVARIANTS
  LatestCheckIsKept
  NothingAstray
CHECK_DEADLOCK FALSE
