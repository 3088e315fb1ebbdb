CONSTANTS
  N = 2
  Blocks = {"empty", "raw", "busy", "filtered"}
  NoBlock = "none"
  Slots = {s1, s2}
  NoSlot = NoSlot
  HeapSlots = 6
  CmdWindow = 2
  PhoneCmds = {"CONFIG"}
SPECIFICATION PathSpec
INVARIANT PhoneGetsWholeBlocks
PROPERTY ImplementsDataPath
