SPECIFICATION Spec
CONSTANTS
  Registrations = {o1, o2}
  Operators = {a1, a2}
  Slugs = {g1, g2}
  Emails = {e1, e2}
  Nowhere = nowhere
  Nobody = nobody
  NoEmail = none
  MaxRequests = 4
CHECK_DEADLOCK FALSE
SYMMETRY Symmetry
INVARIANTS
  AllOrNothing
PROPERTIES
  PurgeIsFinal
