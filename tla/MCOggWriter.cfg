SPECIFICATION Spec
CONSTANTS
  c1 = c1
  c2 = c2
  NoCaller = NoCaller
  Callers = {c1, c2}
  Requests <- MCRequests
  Payloads <- MCPayloads
  TagsLength = 40
  MaxPackets = 2
  MaxFailures = 2
INVARIANTS HeadersFirst PacketsWhole NumbersHaveNoGap GranulesExact EndsWithEOS
PROPERTIES FileStable CallsReturn
CHECK_DEADLOCK FALSE
