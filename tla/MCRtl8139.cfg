SPECIFICATION FairSpec
CONSTANTS
  RxBufSize = 64
  Mtu = 4
  Lengths <- SmallLengths
  Tags = {a, b}
  Replies = {a}
  Pings = TRUE
  QueueBound = 3
  Garbage = Garbage
  NoFrame = NoFrame
CHECK_DEADLOCK FALSE
INVARIANTS LossOnlyWhenFull StaysInBlock BufferHeldUntilSent
PROPERTY InOrderEventually
