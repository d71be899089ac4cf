SPECIFICATION Spec
CONSTANTS
  Messages <- MCMessages
  MaxMessageSize = 2
  ReadChunk = 5
  MaxMessages = 2
  MaxInterrupts = 2
INVARIANT SendsMessages
PROPERTIES ReceivesMessages Delivered
\* Both sides stop once all messages are through.
CHECK_DEADLOCK FALSE
