CONSTANTS
  Setups <- AptSetups
  LockTimeout = 2
  PollInterval = 1
  Packages = {"kernel", "lib"}
  Kernel = "kernel"
  NewDeps = {}
  SecurityFixes = {}
  MaxVersion = 1
  MaxEvents = 0
  MaxKills = 0
SPECIFICATION Spec
CHECK_DEADLOCK FALSE
INVARIANTS ProbeErrorsAreConservative
