SPECIFICATION Spec
CONSTANTS
  Senders = {c1, c2, c3}
  Validators = {}
  RESEND_DELAYS <- LongDelay
  ResendWindow = 4
  Ttl = 2
  MaxAttempts = 1
  MaxTime = 5
  NoCode = none
CHECK_DEADLOCK FALSE
PROPERTY
  QuotaWaitSuffices
