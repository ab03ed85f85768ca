SPECIFICATION Spec
CONSTANTS
  Requests = {r1, r2, r3}
  Passwords = {p1, p2}
  NoToken = none
CHECK_DEADLOCK FALSE
INVARIANTS
  OldSessionsDie
