\* A day of 12 units, windows of either kind at its edges and in its middle;
\* a gate that has let an action through is done.
CONSTANTS
  Day = 12
  Configured <- MCConfigured
  UpgradeEstimate = 2
  RebootEstimate = 1
  HookTimeout = 2
  LockTimeout = 3
  UserTimeout = 5
  UserPoll = 2
  RetryDelay = 2
  MaxAttempts = 3
SPECIFICATION Spec
CHECK_DEADLOCK FALSE
INVARIANTS
  TypeOK
  RebootingIsBounded
PROPERTIES
  DisruptionFitsWindow
  RebootIsWanted
