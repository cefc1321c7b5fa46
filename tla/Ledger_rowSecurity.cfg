SPECIFICATION Spec
CONSTANTS
  u1 = u1
  u2 = u2
  u3 = u3
  EIGHTH = EIGHTH
  NoRow = NoRow
  DefaultSetting <- MCDefaultSetting
  Students = {u1, u2}
  Periods = {EIGHTH}
  LastDay = 2
  FirstWeekday = 4
  LastMinute = 2
  Capacities = {1}
  Windows <- MCWindows
  SanctionDays = {1}
  SettingTargets <- MCTargets
  RowSecurity = TRUE
SYMMETRY MCStudentSymmetry
PROPERTY SeatsWithinCapacity
