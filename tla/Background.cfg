SPECIFICATION MCSpec
CONSTANTS
  BoardWorkers = {w1, w2}
  MaxVersion = 2
  MaxBoards = 2
  MaxBoardFaults = 1
  Verifiers = {a1}
  Cleaners = {e1}
  Channels = {TRUE, FALSE}
  PageSize = 1
  PageCap = 2
  MaxHistory = 2
  MaxScans = 3
  MaxReviewEpoch = 1
  MaxReviewLag = 1
  MaxReviewFaults = 1
  Calls = {c1, c2}
  Jobs = {delivery}
  Routes <- MCRoutes
  MaxJobFaults = 1
  Senders = {s1, s2}
  MaxRetries = 1
  MaxNoticeFaults = 1
  OldReceipts = {TRUE, FALSE}
  MaxHarnessFaults = 2
CONSTRAINT MCBound
PROPERTY BoardIsKept
PROPERTY BoardCatchesUp
PROPERTY ReviewIsSound
PROPERTY KnownMessagesGo
PROPERTY RowsSpeakForTheirRuns
PROPERTY ListIsSentOnce
PROPERTY NoListSlipsAway
PROPERTY ReceiptsAreTrue
PROPERTY WorkEnds
CHECK_DEADLOCK FALSE
