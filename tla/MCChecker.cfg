SPECIFICATION Spec
CONSTANTS
  NonEmpty = NonEmpty
  MeanIsAbove = MeanIsAbove
  Broken = Broken
  QcCommon = QcCommon
  QcOther = QcOther
  QcMissing = QcMissing
  NoLibrary = NoLibrary
  NotAnObject = NotAnObject
  None = None
  Classes <- MCClasses
  Libraries <- MCLibraries
  LibraryOf <- MCLibraryOf
  Installed <- MCInstalled
  Autoloaded = {MeanIsAbove}
  Abstract = {Broken}
  CheckDefs <- MCCheckDefs
  Arrays <- MCArrays
  MaxArrays = 3
INVARIANTS
  CachedIsLoaded
  QualityIsWorst
PROPERTIES
  SentWhole
  WellSpecifiedChecksRun
CHECK_DEADLOCK FALSE
