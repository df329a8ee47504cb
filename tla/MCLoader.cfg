SPECIFICATION Spec
CONSTANTS
  Words = 2
  StaticTables = 8
  TotalFrames = 18
  VirtualPages = 22
  KernelEnd = 19
  Zero = Zero
  Junk = Junk
  NoFrame = NoFrame
  Programs <- MCPrograms
  OtherFiles = {NotElf, NotExec}
  Missing = {NoFile}
  StackPages = 1
  PhSize = 32
  ShSize = 40
INVARIANTS UserFramesPrivate KernelStaysMapped LoadsWhatFits NothingLeftOpen
