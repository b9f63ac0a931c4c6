SPECIFICATION SpecPackets
CONSTANTS
  Lengths <- MCLengths
  FlagSets <- MCFlagSets
  Serial = 7
  Index = 10
  Granule = 960
  Options <- MCOptions
  MaxOptions = 2
  Bytes <- AllBytes
  OtherBytes = {0, 1, 61, 127}
INVARIANTS LoopMatchesClosedForm LastPageRebuilds DurationAsInRFC6716 HeadRoundTrips TagsRoundTrip
CHECK_DEADLOCK FALSE
