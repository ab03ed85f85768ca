SPECIFICATION Spec
CONSTANTS
  Senders = {c1, c2, c3}
  Validators = {v1, v2}
  RESEND_DELAYS <- Delays
  ResendWindow = 4
  Ttl = 2
  MaxAttempts = 2
  MaxTime = 5
  NoCode = none
CHECK_DEADLOCK FALSE
SYMMETRY Symmetry
INVARIANTS
  InboxQuota
  GuessBudget
  SingleUse
PROPERTIES
  WaitEnds
  QuotaReopens
