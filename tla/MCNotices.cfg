SPECIFICATION Spec
CONSTANTS
  a1 = a1
  a2 = a2
  Appointments = {a1, a2}
  Initially <- OneBooked
  source <- Source
  startsAt <- StartsAt
  reminderHoursBefore <- LeadHours
  remindersEnabled = {a1, a2}
  Client = client
  Staff = {u1}
  Devices = {d1}
  Publishers = {p1}
  Runs = {j1}
  MAX_LEAD_HOURS = 3
  BATCH_SIZE = 2
  MaxTime = 1
  MaxFaults = 1
  MaxEvents = 3
CHECK_DEADLOCK FALSE
INVARIANTS
  Told
  LastWord
