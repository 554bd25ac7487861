CONSTANTS
  a = a
  b = b
  c = c
  Threads = {a, b, c}
  Users = {a, b}
  Closers = {c}
  Removable = {a}
  None = None
  MaxOthers = 1
SPECIFICATION EventsSpec
INVARIANTS EventsTypeOK PipeTellsPending PollsOpenDevices SleepersAreWoken
PROPERTIES SyncReturns CloseHappens
