SPECIFICATION Spec
CONSTANTS
  CCMod = 4
  Wrap = 65536
  Options <- MCOptions
  Calls <- MCCalls
  FirstDTS = 54000
  MaxFailures = 1
  MaxAUSize = 450
  MaxWire = 1
  MaxBurst = 2
  MaxLoss = 3
  MaxDup = 1
INVARIANTS TimelineKept NoNeedlessLoss
PROPERTIES ImplementsChannel ReaderFinishes
CHECK_DEADLOCK FALSE
