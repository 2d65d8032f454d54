\* A configuration that is edited between processes, a process that may die and
\* a machine that may reboot twice at any point, up to the beginning of a second
\* cycle.
CONSTANTS
  Notifiers = {email, webhook}
  Configs <- EditedConfigs
  MaxAttempts = 2
  MaxRuns = 2
  MaxBoots = 3
  MaxCrashes = 1
SPECIFICATION Spec
SYMMETRY NotifierSymmetry
CONSTRAINT SecondCycleBegins
INVARIANTS
  TypeOK
  RebootFactsDurable
  RebootBudget
  PostRebootIsGenuine
  ApplyIsFirstAndPrechecked
  NoWorkAfterUnexpectedReboot
  CompletedIsTrue
  DeliveredOutcomeIsFinal
  NoRequiredRebootIsSkipped
  NoCycleIsLost
PROPERTIES
  KeepsThePromise
  UnexpectedRebootIsFatal
