\* Installs, removals and maintenance side by side, each failing or dying at
\* any step, under a schedule that is edited at any time.
CONSTANTS
  Schedules = {"manual", "weekly", "daily"}
  MaxCycles = 2
SPECIFICATION Spec
INVARIANTS
  TypeOK
  PendingKeepsRecovery
  NothingDangles
  InstallIsComplete
  UninstallIsComplete
PROPERTIES OperatorDataIsKept
