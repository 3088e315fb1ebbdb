CONSTANTS
  N = 7
  Bytes <- MCBytes
  NoByte = "none"
  RearFirst = FALSE
  Words <- MCWords
  Unknown = {}
  Letters <- MCLetters
  Pad = 1
  BufSize = 7
  Window = 2
SPECIFICATION PathSpec
INVARIANTS
  TypeOK
  NoSharedCell
PROPERTIES
  ImplementsFifo
  ImplementsCommandPath
CHECK_DEADLOCK FALSE
