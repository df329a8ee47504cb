SPECIFICATION Spec
CONSTANTS
  a = a
  b = b
  Elements = {a, b}
  Junk = Junk
  Capacities = {0, 1, 2}
  MaxItems = 5
  Keys = {"init", "shell", "idle", "zero"}
  AtZero = "zero"
  Values = {"1", "2"}
  TableSize = 2
  Hash <- MCHash
  MaxUnnamed = 1
  Chars <- MCChars
  Upper <- MCUpper
  StemLen = 3
  ExtLen = 2
  MaxTyped = 7
  Byte = 16
  Samples <- MCSamples
  MaxBytes = 7
  IntMod = 256
  Octet = 16
  Numbers <- MCNumbers
  Octets <- MCOctets
  Minus = Minus
  Dot = Dot
  Plus = Plus
  Times = Times
  Slash = Slash
  LineSize = 7
  MaxArgs = 2
  Letters = {a, b}
  Space = Space
  NUL = NUL
  Exit <- MCExit
  Apps <- MCApps
  Programs <- MCPrograms
  CONSOLE_WIDTH = 2
  CONSOLE_HEIGHT = 3
  MaxLen = 4
  CharKeys = {a}
  Blank = Blank
  Newline = Newline
  Backspace = Backspace
  Prompt = Prompt
  MaxRows = 5
INVARIANTS KeepsItems OneBlock ChainsHoldMap
  ListedNameFindsFile DotsAreReserved ReceiverAccepts
  TextIsNumber CalculatorRight RunsWhatWasTyped
  ScreenIsWindow SeesTheLine
