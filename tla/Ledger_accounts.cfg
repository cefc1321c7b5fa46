SPECIFICATION MCSpec
CONSTANTS
  u1 = u1
  u2 = u2
  u3 = u3
  EIGHTH = EIGHTH
  NoRow = NoRow
  DefaultSetting <- MCMorningSetting
  Students = {u1, u2, u3}
  Periods = {EIGHTH}
  LastDay = 3
  FirstWeekday = 3
  LastMinute = 1
  Capacities = {1, 2}
  Windows <- MCMorning
  SanctionDays = {1}
  SettingTargets <- MCTodayTargets
  RowSecurity = TRUE
  Accounts = {a1, a2}
  People = {p1, p2}
  Numbers = {n1, n2, n3}
  Requests = {q1}
  Desks = {e1}
  LastAccountDay = 2
  SessionDays = 1
  IdentityDays = 1
  MaxPolicies = 2
  ReusesNumbers = FALSE
SYMMETRY MCSymmetry
CONSTRAINT MCBound
INVARIANT SanctionsMatchStatus
INVARIANT BannedHoldNothingAhead
INVARIANT NothingBeyondFriday
PROPERTY IdentityNeverReused
PROPERTY OnlyUnseenSeatsOverbook
PROPERTY AccountsAreKept
