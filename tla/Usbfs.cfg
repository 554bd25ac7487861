CONSTANTS
  Lengths = {0, 2, 5}
  Caps <- MCCaps
  Types = {"bulk", "control", "iso"}
  StallFrom = 2
  UnplugAt = {"none", "submit", "complete"}
SPECIFICATION UsbfsSpec
INVARIANTS UsbfsTypeOK UrbsOutliveKernel DataInOrder
PROPERTIES BackendSpec AnswerFollows
