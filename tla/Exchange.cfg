\* One exchange that may break at every point, with every way to cut the streams.
SPECIFICATION FairSpec
CONSTANTS
  RequestHeader = 2
  ResponseHeader = 2
  MaxPayload = 5
  BufferSize = 3
  MayBreak = TRUE
INVARIANTS
  TypeOK
  AcceptedMeansDone
  RetryIsSafe
PROPERTIES
  ThreadEnds
  FixedCallReturns
  CallReturns
CHECK_DEADLOCK FALSE
