SPECIFICATION Spec
CONSTANTS
  Payloads <- MCPayloads
  Streams <- MCStreams
  MaxPayloads = 3
  MaxFailures = 1
  MaxErrors = 1
INVARIANTS RecordedIsRead UnitsSurviveErrors ScansAgreeWithReader
