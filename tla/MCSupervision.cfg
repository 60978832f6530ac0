SPECIFICATION MCSpec
CONSTANTS
  Half = 8
  Timeout = 3
  MaxGap = 3
  Size = 4
  Rounds = 3
  Every = 2
  Ahead = 7
  HalfRange = 2
  Places <- MCPlaces
  Phases = {"motion"}
  Causes = {"illegal"}
  ResetsMax = 2
INVARIANTS RegisteredInThisLink RecordIsTrue
PROPERTIES MotorsFollowTheLink RingIsTrue
