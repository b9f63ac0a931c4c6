SPECIFICATION WriterSpec
CONSTANTS
  CCMod = 4
  Wrap = 1024
  Options <- MCOptions
  Calls <- MCCalls
  FirstDTS = 0
  MaxFailures = 2
INVARIANTS PacketsExact UnitsWhole CountersCountAttempts TablesInForce
CHECK_DEADLOCK FALSE
