\* Two reboots after the first, deaths and an operator's commands at any time.
CONSTANTS
  Shells = {"shell"}
  MaxBoots = 3
  MaxCrashes = 2
  MaxCommands = 3
SPECIFICATION Spec
INVARIANTS OneAtWork
PROPERTIES PendingIsTakenUp
