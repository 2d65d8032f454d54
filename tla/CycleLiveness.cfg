\* The timer runs again and again; everything else happens a bounded number
\* of times, at any time.
CONSTANTS
  Notifiers = {email}
  Configs <- RebootingConfigs
  MaxAttempts = 2
  MaxRuns = 1
  MaxBoots = 3
  MaxCrashes = 1
SPECIFICATION HooksSpec
INVARIANTS HooksFollowThrough
PROPERTIES EveryCycleEnds
