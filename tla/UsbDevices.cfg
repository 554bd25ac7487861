CONSTANTS
  Sessions = {s1}
  Users = {u1}
  Callbacks = {c1}
  MaxDevs = 2
  MaxPlugs = 1
  None = None
SPECIFICATION DevicesFairSpec
INVARIANTS OnePerSession RefsExact ListMatchesBus CallbacksMissNothing
PROPERTIES LeftAreFreed
CHECK_DEADLOCK FALSE
