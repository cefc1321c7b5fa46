SPECIFICATION FairSpec
CONSTANTS
  w1 = w1
  w2 = w2
  Workers <- MCWorkers
  Bots = {TRUE, FALSE}
  NotificationSettings = {TRUE, FALSE}
  MaxSyncAttempts = 2
  MaxEpoch = 2
  MaxCrashes = 1
  MaxFailures = 1
  MaxLapses = 1
INVARIANT SyncedWasDelivered
PROPERTY PostedOnce
PROPERTY PatchLeasesAreFenced
PROPERTY MessagesSettle
CHECK_DEADLOCK FALSE
