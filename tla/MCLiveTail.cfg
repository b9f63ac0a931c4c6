SPECIFICATION Spec
CONSTANTS
  Files <- MCFiles
  MaxFrameSize = 8
  NoiseLengths = {0, 5}
INVARIANTS WholeRecordsInOrder
PROPERTIES EndMeansCaughtUp CatchesUp
