SPECIFICATION Spec
CONSTANTS
  Names = {"array-0", "array-1"}
  CheckNames = {"check"}
  Classes = {"MeanIsAbove", "NonEmpty"}
  Qualities = {"Good", "Bad"}
  Values = {"34"}
  Null = Null
  None = None
  DanglingReads = FALSE
  MaxObjects = 3
INVARIANTS
  QualityIsGiven
CHECK_DEADLOCK FALSE
