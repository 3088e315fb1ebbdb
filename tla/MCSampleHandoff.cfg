CONSTANTS
  N = 4
  Blocks = {b1, b2}
  NoBlock = NoBlock
SPECIFICATION Spec
INVARIANTS
  TypeOK
  NoSharedAccess
  PacketIntact
  InBounds
PROPERTY ImplementsChannel
