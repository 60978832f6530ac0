SPECIFICATION MCSpec
CONSTANTS
  StepMax = 2
  StallMs = 3
  StallMove = 1
  Counts = 8
  JamTripPct = 40
  BandLoPct = 52
  JamAwayPct = 85
  StartPct = 80
  NeutralLoPct = 45
  NeutralHiPct = 55
  AbortPct = 35
  FastPct = 50
  HoldLoPct = 89
  HoldHiPct = 90
  DeadbandLoPct = 30
  DeadbandHiPct = 70
  HardStopPct = 95
  JamTripMs = 3
  JamReleaseMs = 3
  JamPushMaxMs = 3
  ArmMs = 1
  MaxMs = 1
  EmptyMs = 1
  Keys = {0, 1}
  Levels = {20, 42, 60, 90}
  Ticks = {1, 2}
  Moves = {0}
  Hosts = {"other", "on_use", "stop_on_use", "before_on_use", "send_out", "pull_back", "idle"}
  PullTicks = {1, 3}
  PullMoves = {0, 1}
  Targets = {2, 3}
  PullMs = 5
  RedetectMs = 5
  RedetectCnt = 2
  Publications = 2
INVARIANT BrakesHold
PROPERTIES JamIsTrue UnloadNeedsItsOwnLift UnloadsEndTrue UnloadsAreBounded
