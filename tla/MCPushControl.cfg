SPECIFICATION MCSpec
CONSTANTS
  StepMax = 2
  StallMs = 10
  StallMove = 1
  Counts = 12
  FastPct = 8500
  HardStopPct = 9500
  HardHys = 200
  HoldTarget = 9000
  HoldBandLo = 30
  PushStart = 8000
  PwmHi = 480
  PwmLo = 1000
  UseTarget = 5200
  UseBandLo = 20
  UseBandHi = 6000
  SendMax = 4
  KickMs = 2
  StallRestMs = 8
  RestMs = 3
  OverMs = 2
  ParkedMs = 20
  IdleMaxMs = 4
  PushMaxMs = 4
  HandoffMs = 4
  PostMs = 4
  MaxStale = 1
  Hosts = {"send"}
  Levels = {8200, 8600, 9230, 9600}
  Keys = {TRUE}
  Ticks = {1}
  Moves = {0, 1, 11}
  Others = {FALSE}
  SendPwms = {500, 1000}
INVARIANTS LoadKeepsItsLimit PushesEnd
