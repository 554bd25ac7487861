CONSTANTS
  Devices = {d1}
  Handles = {h1, h2}
  NULL = NULL
  Closed = Closed
  Gone = Gone
  Callers = {c1, c2}
  DeviceNumbers = {0, 1}
  MaxFaults = 1
  Hotplug = TRUE
SPECIFICATION FairSpec
PROPERTIES PortSpec CommandIsServed StopSilencesLine
