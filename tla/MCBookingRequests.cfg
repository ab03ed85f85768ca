SPECIFICATION Spec
CONSTANTS
  Submits = {s1, s2}
  Staff = {u1}
  Admins = {o1}
  Job = job
  Resources = {r1}
  Slots <- KeySlots
  Keys = {k1}
  NoKey = NoKey
  NoOne = NoOne
  Claims <- Keyed
  StandingBlocks <- Closed
  BatchSize = 1
  MaxCrashes = 1
  WrapsDriverErrors = FALSE
  r1 = r1
  r2 = r2
  k1 = k1
SYMMETRY Symmetry
CHECK_DEADLOCK FALSE
INVARIANTS
  LockProtectsInsert
  OneAppointmentPerKey
  ReplayAgreement
  RefusalLeavesNothing
  AnnouncedIsCommitted
