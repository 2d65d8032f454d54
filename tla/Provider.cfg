\* The default lock timeout is a multiple of the poll interval, this one is not.
CONSTANTS
  Setups <- MCSetups
  LockTimeout = 3
  PollInterval = 2
  Packages = {"kernel", "lib", "tool"}
  Kernel = "kernel"
  NewDeps = {"tool"}
  SecurityFixes <- MCSecurityFixes
  MaxVersion = 2
  MaxEvents = 2
  MaxKills = 1
SPECIFICATION Spec
CHECK_DEADLOCK FALSE
INVARIANTS
  LockWaitIsHonoured
  VerifiedIsTrue
  OwnKernelIsSeen
  OnlyClassifiedIsInstalled
PROPERTIES
  NeverUpgradesOverBroken
