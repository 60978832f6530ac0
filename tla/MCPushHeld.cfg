SPECIFICATION AloneSpec
CONSTANTS
  StepMax = 2
  StallMs = 10
  StallMove = 1
  Counts = 16
  FastPct = 8500
  HardStopPct = 9500
  HardHys = 200
  HoldTarget = 9000
  HoldBandLo = 30
  PushStart = 8000
  PwmHi = 480
  PwmLo = 1000
  UseTarget = 5200
  UseBandLo = 20
  UseBandHi = 6000
  SendMax = 6
  KickMs = 2
  StallRestMs = 7
  RestMs = 3
  OverMs = 3
  ParkedMs = 10
  IdleMaxMs = 15
  PushMaxMs = 4
  HandoffMs = 4
  PostMs = 4
  MaxStale = 0
  Hosts = {"other"}
  Levels = {1500, 2600, 2700, 2900, 9000}
  Keys = {TRUE}
  Ticks = {1, 2}
  Moves = {0, 1}
  Others = {TRUE, FALSE}
  SendPwms = {1000}
INVARIANT BrakeEndsAsDocumented
