SPECIFICATION Spec
CONSTANTS
  Clusters = {2, 3, 4, 5}
  Root = 2
  EntriesPerSector = 2
  SectorsPerCluster = 2
  Images <- MCImages
  FileNames <- MCFileNames
  DirNames <- MCDirNames
  RmdirNames <- MCDirNames
  Texts <- MCTexts
  Sizes = {0, 5}
  Paths <- MCPaths
  PwdDepth = 16
  MaxCommands = 4
  MaxCrashes = 2
  Reads = {0, 1, 3, 4}
  SizeMod = 65536
INVARIANTS TypeOK NoSharing NoLeak ReadsBack NothingHidden Acyclic
PROPERTY CommandsReturn
