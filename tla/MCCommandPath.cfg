CONSTANTS
  Words <- MCWords
  Unknown <- MCUnknown
  Letters <- MCLetters
  Pad = 1
  Cap = 11
  BufSize = 12
  Window = 2
SPECIFICATION Spec
INVARIANTS
  TypeOK
  BufferSuffices
PROPERTIES
  SentInOrder
  EveryCommandSent
  Recovers
CHECK_DEADLOCK FALSE
