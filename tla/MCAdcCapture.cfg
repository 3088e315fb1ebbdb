CONSTANTS
  N = 2
  Channels = {A, B}
  Zero = Zero
  Gone = Gone
  Reported <- AllEvents
  MaxFaults = 2
SPECIFICATION Spec
INVARIANTS
  TypeOK
  BlockIsDelivered
  BufferUnshared
PROPERTY CaptureGoesOn
