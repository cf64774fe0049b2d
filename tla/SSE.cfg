SPECIFICATION SSESpec
CONSTANTS
  Payloads = {vote, reset}
  Resets = {reset}
  MaxMessages = 4
INVARIANTS
  SSETypeOK
  MessagesArriveWhole
PROPERTIES
  TornStreamsStaySilent
  ClosedSourcesAreSilent
CHECK_DEADLOCK FALSE
