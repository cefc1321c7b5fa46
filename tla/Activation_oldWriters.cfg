SPECIFICATION ActivationSpec
CONSTANTS
  Activators = {v1}
  Writers = {w1}
  MaxSwitches = 1
  MaxActivationFaults = 1
INVARIANT OldWritersAreOut
