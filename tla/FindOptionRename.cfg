SPECIFICATION Spec
CONSTANTS
  s1 = s1
  s2 = s2
  o1 = o1
  o2 = o2
  r1 = r1
  r2 = r2
  n1 = n1
  n2 = n2
  Services = {s1, s2}
  Options = {o1, o2}
  Resources = {r1, r2}
  Clients = {c1, c2}
  Names = {n1, n2}
  Durations = {0, 1, 2}
  Emails = {ana, ben}
  Initial <- Rows0
  Requests = {q1}
  Visits = {v1, v2}
SYMMETRY AnyOrder
CHECK_DEADLOCK FALSE
INVARIANT
  RenameSticks
