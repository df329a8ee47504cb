SPECIFICATION Spec
CONSTANTS
  Clusters = {2, 3, 4, 5}
  Root = 2
  EntriesPerSector = 2
  SectorsPerCluster = 2
  Images <- MCImages
  FileNames <- MCFileNames
  DirNames <- MCDirNames
  RmdirNames <- MCDirNames
  Texts <- MCTexts
  Sizes = {3, 5}
  Paths <- MCPaths
  PwdDepth = 16
  MaxCommands = 3
  MaxCrashes = 0
  Reads = {0, 1, 3, 4}
  SizeMod = 65536
PROPERTY EveryCommandReturns
