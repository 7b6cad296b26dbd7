SPECIFICATION Spec
CONSTANTS
  Messages <- MCMessages
  Widths = {4, 8}
INVARIANTS
  TypeOK
  Delivered
  EncodingIsDer
  FaultsOnlyOutOfRange
\* both codecs stop when the message is read
CHECK_DEADLOCK FALSE
