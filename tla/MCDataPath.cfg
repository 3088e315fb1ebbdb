CONSTANTS
  Slots = {s1, s2}
  NoSlot = NoSlot
  HeapSlots = 6
  CmdWindow = 2
  PhoneCmds = {"DISABLE"}
SPECIFICATION Spec
INVARIANTS
  TypeOK
  MessageNamesBlock
  HostSurvives
  DspSurvives
PROPERTIES
  HeldUntouched
  BlocksReturn
  StreamFlows
