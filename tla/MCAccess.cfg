SPECIFICATION FairSpec
CONSTANTS
  Checkouts = {c1}
  Grants = {g1}
  Cancels = {x1}
  Hooks = {h1}
  Job = job
  Nobody = nobody
  Period = 1
  BatchSize = 1
  MaxNow = 3
  MaxNotices = 2
  MaxRedeliveries = 1
  MaxCrashes = 1
CHECK_DEADLOCK FALSE
INVARIANTS
  CancelledIsStopped
  PaidAccessOnly
  AuthorizedIsKnown
PROPERTY
  LapsedIsExpired
