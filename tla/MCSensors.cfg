SPECIFICATION MCSpec
CONSTANTS
  NBlocks = 2
  Stale = 1
  Restart = 2
  MaxGap = 2
  Sums = {1, 2}
  Half = 32
  PerMs = 2
  Speed = 1
  Gaps = {1}
  FailTrip = 3
  OkRecover = 2
  JumpRebase = 3
  MaxBad = 2
INVARIANT AnglesAreTrue
PROPERTIES StreamIsTrue
