SPECIFICATION FairSpec
CONSTANTS
  Submits = {s1}
  Staff = {u1}
  Admins = {}
  Job = job
  Resources = {r1}
  Slots <- OneSlot
  Keys = {}
  NoKey = NoKey
  NoOne = NoOne
  Claims <- Contended
  StandingBlocks <- NoBlocks
  BatchSize = 1
  MaxCrashes = 0
  WrapsDriverErrors = TRUE
  r1 = r1
  r2 = r2
  k1 = k1
CHECK_DEADLOCK FALSE
INVARIANTS
  ConfirmedTogether
