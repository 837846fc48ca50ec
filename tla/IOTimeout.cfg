SPECIFICATION IOFairSpec
CONSTANTS
  Timeouts <- AllTimeouts
  Size = 3
  MaxIntr = 2
  MayBreak = TRUE
INVARIANTS Deadline NotEarlyUnlessInterrupted WriteComplete
PROPERTY ReturnsUnlessBroken
