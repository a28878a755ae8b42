SPECIFICATION GuiSpec
CONSTANTS
  MaxMessages = 4
INVARIANTS
  PatientIsSafe
PROPERTIES
  ShowsForward
CHECK_DEADLOCK FALSE
