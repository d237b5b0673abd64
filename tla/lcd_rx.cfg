CONSTANTS
  Length <- Frames
  RingSize = 32
  ErrLimit = 1
  MaxAhead = 1
  MaxNoise = 1
SPECIFICATION Spec
INVARIANT TypeOK
INVARIANT WholeFramesOnly
PROPERTY FindsBack
PROPERTY ImplementsChannel
