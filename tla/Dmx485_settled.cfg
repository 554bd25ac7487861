CONSTANTS
  Devices = {d1, d2}
  Handles = {h1, h2}
  NULL = NULL
  Closed = Closed
  Gone = Gone
  Callers = {c1, c2}
  DeviceNumbers = {0, 1}
  MaxFaults = 0
  Hotplug = FALSE
  Objects = {o1, o2}
  Patient = TRUE
SPECIFICATION MaxFairSpec
INVARIANTS SettledAsAsked
PROPERTIES LinkFollowsUser
