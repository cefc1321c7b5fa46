SPECIFICATION FairSpec
CONSTANTS
  u1 = u1
  u2 = u2
  u3 = u3
  c1 = c1
  c2 = c2
  c3 = c3
  Students = {u1, u2}
  Clients = {c1, c2, c3}
  Requests <- MCLockingRequests
  Capacities = {}
  InitialCapacity = 1
  MaxAttempts = 3
  HeldToday = {}
  LapsedStudents = {u1, u2}
CHECK_DEADLOCK FALSE
PROPERTY EveryRequestIsAnswered
