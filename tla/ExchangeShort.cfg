\* The connection may break within a response of variable length.
SPECIFICATION FairSpec
CONSTANTS
  RequestHeader = 2
  ResponseHeader = 2
  MaxPayload = 2
  BufferSize = 2
  MayBreak = TRUE
PROPERTY
  ShortResponseReported
CHECK_DEADLOCK FALSE
