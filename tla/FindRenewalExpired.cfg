SPECIFICATION Spec
CONSTANTS
  Checkouts = {c1}
  Grants = {}
  Cancels = {}
  Hooks = {h1}
  Job = job
  Nobody = nobody
  Period = 1
  BatchSize = 1
  MaxNow = 2
  MaxNotices = 2
  MaxRedeliveries = 0
  MaxCrashes = 0
CHECK_DEADLOCK FALSE
PROPERTIES
  ExpiredWithoutRenewal
