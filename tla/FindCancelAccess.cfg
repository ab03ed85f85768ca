SPECIFICATION Spec
CONSTANTS
  Checkouts = {c1}
  Grants = {}
  Cancels = {x1}
  Hooks = {h1}
  Job = job
  Nobody = nobody
  Period = 1
  BatchSize = 1
  MaxNow = 1
  MaxNotices = 1
  MaxRedeliveries = 0
  MaxCrashes = 0
CHECK_DEADLOCK FALSE
INVARIANTS
  AccessUntilPeriodEnd
