SPECIFICATION Spec
CONSTANTS
  Registrations = {o1}
  Operators = {a1}
  Slugs = {g1}
  Emails = {e1, e2}
  Nowhere = nowhere
  Nobody = nobody
  NoEmail = none
  MaxRequests = 1
CHECK_DEADLOCK FALSE
PROPERTIES
  OwnerEmailChanges
