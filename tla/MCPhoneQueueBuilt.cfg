CONSTANTS
  N = 4
  Bytes = {x1, x2}
  NoByte = NoByte
  RearFirst = TRUE
SPECIFICATION Spec
INVARIANT PopsPushedBytes
