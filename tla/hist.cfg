CONSTANTS
  MaxNode = 3
  Runners <- FirstTwo
  Copies = 1
  NetLimit = 0
  MaxSum = 2
  MaxRows <- TwoAndOne
  MaxLosses = 1
SPECIFICATION Spec
INVARIANT NothingLost
INVARIANT OldestFirst
INVARIANT StatusTrue
PROPERTY SilenceIsRecorded
