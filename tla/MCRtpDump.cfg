SPECIFICATION Spec
CONSTANTS
  w1 = w1
  w2 = w2
  r1 = r1
  r2 = r2
  NoOne = NoOne
  Writers = {w1, w2}
  Readers = {r1, r2}
  Packets <- MCPackets
  OffsetMod = 1000
  Headers <- MCHeaders
  NoiseLengths = {0, 40000}
  Cuts = {0, 4, 8, 9}
  MaxPackets = 3
  MaxFailures = 1
INVARIANTS RecordsComeBack EndTellsTruth
PROPERTIES ReadsToTheEnd
CHECK_DEADLOCK FALSE
