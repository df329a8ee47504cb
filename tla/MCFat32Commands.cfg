SPECIFICATION Spec
CONSTANTS
  Clusters = {2, 3, 4, 5, 6}
  Root = 2
  EntriesPerSector = 3
  SectorsPerCluster = 1
  Images <- MCImages
  FileNames <- MCFileNames
  DirNames <- MCDirNames
  RmdirNames <- MCDirNames
  Texts <- MCTexts
  Sizes = {0, 4}
  Paths <- MCPaths
  PwdDepth = 2
  MaxCommands = 6
  MaxCrashes = 0
  Reads = {0, 1, 2, 3, 4, 5}
  SizeMod = 65536
INVARIANTS ReadsBack PwdLeadsBack
