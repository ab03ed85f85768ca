SPECIFICATION FairSpec
CONSTANTS
  Submits = {s1, s2}
  Staff = {u1}
  Admins = {}
  Job = job
  Resources = {r1}
  Slots <- MCSlots
  Keys = {}
  NoKey = NoKey
  NoOne = NoOne
  Claims <- OneResource
  StandingBlocks <- NoBlocks
  BatchSize = 1
  MaxCrashes = 1
  WrapsDriverErrors = TRUE
  r1 = r1
  r2 = r2
  k1 = k1
CHECK_DEADLOCK FALSE
INVARIANTS
  NoDoubleBooking
  PendingDepositBacked
PROPERTIES
  DecisionsAreFinal
  ImplementsLedger
  OverdueSlotReleased
  EveryBookingEnds
