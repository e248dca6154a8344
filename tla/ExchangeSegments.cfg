\* Nothing breaks; a fixed-length response fits one read and may arrive in two pieces.
SPECIFICATION Spec
CONSTANTS
  RequestHeader = 2
  ResponseHeader = 2
  MaxPayload = 2
  BufferSize = 4
  MayBreak = FALSE
INVARIANT
  WrongSizeIsWrong
CHECK_DEADLOCK FALSE
