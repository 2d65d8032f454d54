\* Processes that are killed and cut off by power losses at any step, a state
\* file that is tampered with, with and without status commands.
CONSTANTS
  Stamps = {1, 2}
  MaxRuns = 2
  MaxSaves = 3
  Setups <- AllSetups
SPECIFICATION Spec
INVARIANTS
  TypeOK
  LosesAtMostInFlight
  ArchiveIsFinal
  NothingIsForgotten
PROPERTIES EvidenceIsDurable
