SPECIFICATION Spec
CONSTANTS
  CCMod = 16
  Wrap = 16
  First <- MCFirst
  Jumps <- MCJumps
  Reorders <- MCReorders
  MaxTime = 48
INVARIANTS Tracking
CHECK_DEADLOCK FALSE
