SPECIFICATION AdminFairSpec
CONSTANTS
  j1 = j1
  j2 = j2
  r1 = r1
  r2 = r2
  r3 = r3
  c1 = c1
  Sources = {j1, j2}
  AdminRequests = {r1, r2, r3}
  Scripts <- MCScripts
  Cron = {c1}
  LeftToCron = {j2}
  Seats = {1, 2}
  MaxAttempts = 2
  MaxFaults = 1
PROPERTY CommandsAreHonest
PROPERTY CommandsEnd
CHECK_DEADLOCK FALSE
