SPECIFICATION MCSpec
CONSTANTS
  Channels = {0}
  Calibrated = {0}
  Hands = {"down", "low", "pulled", "rest", "off"}
  Keys = {0, 1, 2}
  Hold = 5
  Settle = 1
  Return = 3
  Load = 5
  Stale = 1
  MaxGap = 2
  Buffers = {"a", "b"}
  SeqRange = 4
  Unreadable = Unreadable
  Motors = {"a", "b"}
  Half = 6
  Detect = 2
  Quarter = 1
  Speed = 1
  Steps = 7
  MaxBad = 1
CHECK_DEADLOCK FALSE
INVARIANTS PagesAgree DirectionIsRight
PROPERTIES LoadGestureIsTrue ClearsArePresses MeasuredWell CalibrationIsAtomic
