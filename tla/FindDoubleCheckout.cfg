SPECIFICATION Spec
CONSTANTS
  Checkouts = {c1, c2}
  Grants = {}
  Cancels = {}
  Hooks = {}
  Job = job
  Nobody = nobody
  Period = 1
  BatchSize = 1
  MaxNow = 1
  MaxNotices = 2
  MaxRedeliveries = 0
  MaxCrashes = 0
CHECK_DEADLOCK FALSE
INVARIANTS
  OneAuthorization
