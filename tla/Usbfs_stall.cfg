CONSTANTS
  Lengths = {5}
  Caps <- MCOldKernel
  Types = {"bulk"}
  StallFrom = 1
  UnplugAt = {"none"}
SPECIFICATION UsbfsSpec
INVARIANT UrbsOutliveKernel
