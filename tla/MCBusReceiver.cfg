SPECIFICATION MCSpec
CONSTANTS
  MaxFrames = 3
  MaxSpoiled = 2
  MaxFaults = 1
  HeartbeatLen = 3
  PacketLen = 4
  RingSize = 5
  AmsAuto = TRUE
PROPERTIES FramesAreWhole AnswersAreWhole QueueOfTwo AlwaysReadyAgain
