SPECIFICATION FairSpec
CONSTANTS
  Byte = 2
  Nibble = 2
  Lbas = {2, 6}
  Values = {v, w}
  Blank = Blank
  Noise = Noise
  None = None
  MaxLosses = 1
INVARIANTS ReadsLastWritten DurableOnReturn
PROPERTY CallsReturn
