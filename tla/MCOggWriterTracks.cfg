SPECIFICATION Spec
CONSTANTS
  c1 = c1
  c2 = c2
  NoCaller = NoCaller
  Callers = {c1, c2}
  Requests <- MCRequests
  Payloads <- MCPayloads
  TagsLength = 40
  MaxPackets = 1
  MaxFailures = 2
PROPERTIES NoTrackAfterWriting
CHECK_DEADLOCK FALSE
