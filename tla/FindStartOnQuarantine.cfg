CONSTANTS
  Stamps = {1}
  MaxRuns = 2
  MaxSaves = 2
  Setups <- SecondRun
SPECIFICATION Spec
PROPERTIES NothingStartsOnQuarantine
