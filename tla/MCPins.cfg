CONSTANT UppFields <- ChannelA
SPECIFICATION Spec
INVARIANTS
  TypeOK
  WritesShow
  PinsShowSettings
  UppKeepsPins
