SPECIFICATION ReviewFairSpec
CONSTANTS
  Verifiers = {a1}
  Cleaners = {e1}
  Channels = {FALSE}
  PageSize = 1
  PageCap = 2
  MaxHistory = 2
  MaxScans = 3
  MaxReviewEpoch = 1
  MaxReviewLag = 1
  MaxReviewFaults = 1
CHECK_DEADLOCK FALSE
PROPERTY UnknownPostsGo
