SPECIFICATION Spec
CONSTANTS
  i1 = i1
  i2 = i2
  i3 = i3
  r1 = r1
  r2 = r2
  c1 = c1
  Interactions = {i1, i2, i3}
  Requests = {r1, r2}
  Runners = {c1}
  Acknowledged = {i2, i3}
  Deliveries <- MCDeliveries
  MaxAttempts = 2
  MaxEpoch = 2
  MaxFaults = 1
INVARIANT HandshakeIsKept
PROPERTY EffectsStand
PROPERTY DrainedIsQuiet
CHECK_DEADLOCK FALSE
CONSTRAINT MCBound
