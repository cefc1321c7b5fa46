SPECIFICATION MCSpec
CONSTANTS
  l1 = l1
  l2 = l2
  f1 = f1
  o2 = o2
  r2 = r2
  Bookings = {1, 2}
  MaxBulkAsks = 3
  MaxBulkFaults = 1
  MaxOthers = 1
  Learners = {l1, l2}
  NoOne = nobody
  MaxVersion = 1
  MaxOrders = 2
  Slips = {s1, s2}
  Pupils = {y1}
  LinkDates = {d1}
  Nowhere = Nowhere
  MaxDeeds = 3
  Places <- MCPlaces
  Filters = {f1, f2}
  FilterAll = all
  PageSize = 1
  VisibleLimit = 2
  CursorLife = 1
  LastListTick = 1
  MaxChanges = 1
  MaxAsks = 2
  Officers = {o1, o2}
  MaxSheetEdits = 1
  MaxSheetSaves = 2
  MaxSheetReads = 1
  MaxSheetFaults = 1
  Users = {a, b}
  Dates = {d1, d2}
  Week = {d1}
  MaxEvents = 4
  Learned = {a, b}
  MaxPanelEvents = 4
  Tabs = {t1, t2}
  KeepTokens = 2
  TokenLife = 2
  MaxTokens = 5
  MaxStale = 1
  LastTick = 3
  Todos = {1, 2}
  Deps <- MCDeps
  WriteSets = {1, 2}
  Recorders = {r1, r2}
  MaxCommits <- MCCommits
  MaxRuns <- MCRuns
  MaxEvidenceFaults = 0
  Clients = {c1, c2}
  Rules <- MCRules
  Limit <- MCLimit
  Window <- MCWindow
  MaxLag = 1
  MaxOver = 2
  MaxTick = 6
  Activators = {v1, v2}
  Writers = {w1}
  MaxSwitches = 2
  MaxActivationFaults = 1
  Runners = {x1, x2}
  IndexCount = 2
  Checksum <- MCChecksum
  MaxIndexFaults = 2
  Students = {u1, u2}
  InitialCapacity = 1
  Capacities = {1, 2}
  HeldToday = {u1, u2}
  LapsedStudents = {u2}
  MaxBatches = 2
  MaxSweepEpoch = 3
  MaxRevision = 2
  MaxSweepFaults = 2
CONSTRAINT MCBound
INVARIANT ListsAreTrue
INVARIANT TokensAndRates
PROPERTY BulkIsTrue
PROPERTY DeskIsTrue
PROPERTY LinksAreFollowed
PROPERTY SheetIsTrue
PROPERTY PageIsTrue
PROPERTY PanelsAreTheStudents
PROPERTY EvidenceIsKept
PROPERTY ActivationIsOrderly
PROPERTY IndexesAreSafe
PROPERTY SweepIsSafe
CHECK_DEADLOCK FALSE
