CONSTANTS
  Devices = {d1}
  Handles = {h1, h2}
  NULL = NULL
  Closed = Closed
  Gone = Gone
  Callers = {c1}
  DeviceNumbers = {0, 1}
  MaxFaults = 0
  Hotplug = FALSE
  Objects = {o1}
  Patient = FALSE
SPECIFICATION MaxFairSpec
PROPERTIES StopIsHonoured
