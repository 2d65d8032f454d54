CONSTANTS
  Notifiers = {email}
  Configs <- DefaultConfigs
  MaxAttempts = 1
  MaxRuns = 1
  MaxBoots = 1
  MaxCrashes = 1
SPECIFICATION Spec
PROPERTIES SameBootResumeRecovers
