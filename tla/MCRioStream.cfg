\* Three messages through a pipe of three bytes into a buffer of two.
\* Nothing has to happen once both are written or one end is gone.
SPECIFICATION FairSpec
CONSTANTS
  Bytes       = {"a", "b", "c", "newline"}
  Messages    <- Lines
  MaxWrites   = 3
  Counts      = {1, 3}
  maxlen      = 4
  RIO_BUFSIZE = 2
  PipeMax     = 3
  NL          = "newline"
INVARIANT TypeOK
PROPERTIES ImplementsStream LineIsEnough
CHECK_DEADLOCK FALSE
