SPECIFICATION Spec
CONSTANTS
  CCMod = 4
  Wrap = 16
  MaxAUSize = 400
  TablePackets <- MCTablePackets
  StreamPackets <- MCStreamPackets
  MaxTables = 4
  MaxPackets = 4
INVARIANTS DataIsOneRun BufferBounded TracksFromTables
CHECK_DEADLOCK FALSE
