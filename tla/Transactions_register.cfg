SPECIFICATION MCSpec
CONSTANTS
  u1 = u1
  u2 = u2
  u3 = u3
  c1 = c1
  c2 = c2
  c3 = c3
  Students = {u1, u2}
  Clients = {c1, c2, c3}
  Requests <- MCRequests
  Capacities = {1, 2}
  InitialCapacity = 1
  MaxAttempts = 2
  HeldToday = {u1}
  LapsedStudents = {u1}
SYMMETRY MCClientSymmetry
CONSTRAINT MCBound
INVARIANT OperationsHeedEachOther
INVARIANT GivenUpOnlyUnderContention
PROPERTY ImplementsRegister
CHECK_DEADLOCK FALSE
