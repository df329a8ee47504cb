SPECIFICATION Spec
CONSTANTS
  HeapSize = 96
  BlockSize = 12
  Alignment = 8
  SizeMod = 65536
  Requests <- MCRequests
INVARIANTS TypeOK Tiled Coalesced LiveBacked NullMeansFull
PROPERTY KeepsPromise
