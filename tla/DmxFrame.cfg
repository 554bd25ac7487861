CONSTANTS
  Devices = {d1}
  Handles = {h1}
  NULL = NULL
  Closed = Closed
  Gone = Gone
  Callers = {c1}
  DeviceNumbers = {0, 1}
  MaxFaults = 0
  Hotplug = TRUE
  Slots = 2
  UIntMod = 8
  ByteMod = 2
  Fuse = 2
  Longs <- MCLongs
  MaxArgs = 4
  StartCode = StartCode
  Foreign = Foreign
SPECIFICATION FrameFairSpec
INVARIANTS FrameIsCurrent FrameIsWhole
PROPERTIES LinkSpec FrameEnds
