\* A command with two descendants at a time, and a grace longer than a drain.
CONSTANTS
  Helpers = {h1, h2}
  Timeout = 3
  Grace = 2
  Drain = 1
  Points <- SomePoints
SPECIFICATION Spec
CHECK_DEADLOCK FALSE
INVARIANTS
  SurvivorsEscaped
  GateHolds
PROPERTIES ReturnsInTime
