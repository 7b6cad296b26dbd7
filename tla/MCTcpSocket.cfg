SPECIFICATION Spec
CONSTANTS
  Msgs <- MCMsgs
  Base = 2
  MaxLen = 4
  BufSize = 3
  MaxMsgs = 3
INVARIANTS TypeOK InStep RefusesOnlyLong
PROPERTIES SendEnds ChannelSpec
\* a closed connection stops
CHECK_DEADLOCK FALSE
