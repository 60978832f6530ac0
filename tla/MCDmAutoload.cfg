SPECIFICATION MCSpec
CONSTANTS
  StepMax = 1
  StallMs = 2
  StallMove = 1
  Counts = 8
  AwayMs = 1
  RetractCnt = 2
  Ticks = {1}
  Moves = {0, 1}
  Hand <- HandAny
  Kinds = {"control", "off"}
  DebounceMs = 1
  Stage1Ms = 2
  FailMs = 1
  ExtraMs = 1
  Length = 1
  Stage2Ms = 2
  FarBack = 1
  Kept = {"leaving"}
INVARIANT RunsAreBounded
PROPERTIES StaysParked RunsEnd
