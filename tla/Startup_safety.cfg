CONSTANTS
  Devices = {d1, d2}
  Handles = {h1, h2}
  NULL = NULL
  Closed = Closed
  Gone = Gone
  Callers = {c1, c2}
  DeviceNumbers = {0, 1}
  MaxFaults = 1
  Hotplug = TRUE
  Objects = {o1}
  Patient = FALSE
SPECIFICATION StartSpec
SYMMETRY Symmetry
INVARIANTS StartIsSound TransmitsOnOpenPort
PROPERTIES ObjectsSpec LostOnlyByConnect
CHECK_DEADLOCK FALSE
