SPECIFICATION Spec
CONSTANTS
  w1 = w1
  w2 = w2
  Workers <- MCWorkers
  Bots = {TRUE}
  NotificationSettings = {TRUE}
  MaxSyncAttempts = 2
  MaxEpoch = 1
  MaxCrashes = 0
  MaxFailures = 0
  MaxLapses = 0
CHECK_DEADLOCK FALSE
PROPERTY PostLeasesAreFenced
